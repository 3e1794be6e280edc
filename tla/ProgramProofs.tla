----------------------------- MODULE ProgramProofs -----------------------------
(***************************************************************************)
(* Theorems about Program, for every set of command lines, configuration   *)
(* files and output directories, and every number of launches.             *)
(***************************************************************************)
EXTENDS Program, SequenceTheorems, WellFoundedInduction, TLAPS

USE DEF ReportNames, Statuses, Places, Configured, Admitted, Recorded, Writing

------------------------------------------------------------------------------
(* Types *)

\* What a launch has made of its command line is a configuration.
LEMMA ConfigType ==
    ASSUME NEW words \in CommandLines, NEW a \in ParseCliArgs(words),
           ~FileRefused(a), ~FileMistyped(a), ~ConfigRefused(a)
    PROVE  /\ ConfigOf(a).outputDir \in Dirs
           /\ ConfigOf(a).threads >= 1 /\ ConfigOf(a).sampleSize >= 0
<1>1. /\ Merged(a).outputDir \in Dirs
      /\ Merged(a).threads \in Int /\ Merged(a).sampleSize \in Int
  BY ConfigAssumption
<1>2. ~(Merged(a).threads < 1) /\ ~(Merged(a).sampleSize < 0)
  BY DEF ConfigRefused
<1>3. /\ ConfigOf(a).outputDir = Merged(a).outputDir
      /\ ConfigOf(a).threads = Merged(a).threads
      /\ ConfigOf(a).sampleSize = Merged(a).sampleSize
  BY DEF ConfigOf
<1>4. QED
  BY <1>1, <1>2, <1>3

\* The directory a launch works in is one there is.
LEMMA OwnDirectory ==
    ASSUME TypeOK, LaunchInv, place \in Configured
    PROVE  cfg.outputDir \in Dirs
<1>1. cfg \in config
  BY DEF LaunchInv, cfg
<1>2. QED
  BY <1>1 DEF TypeOK

\* A directory of which one field changes.
LEMMA DirTypes ==
    ASSUME NEW g \in Dir
    PROVE  /\ g.logs \in BOOLEAN /\ g.store \in {"none", "fresh", "run"}
           /\ \A r \in ReportNames : g.file[r] \subseteq Content /\ g.tmp[r] \subseteq Content
           /\ [g EXCEPT !.logs = TRUE] \in Dir
           /\ \A x \in {"none", "fresh", "run"} : [g EXCEPT !.store = x] \in Dir
           /\ \A r \in ReportNames, S \in SUBSET Content : [g EXCEPT !.tmp[r] = S] \in Dir
           /\ \A r \in ReportNames, S \in SUBSET Content, T \in SUBSET Content :
                 [g EXCEPT !.file[r] = S, !.tmp[r] = T] \in Dir
BY DEF Dir

------------------------------------------------------------------------------
(* What the actions do to the directories *)

\* The steps that leave the directories alone.
Quiet == Kill \/ Parse \/ Configure \/ ResolvePassword \/ Connect \/ Scan \/ Summary

\* What every step but a rename keeps of each directory.
FilesKept ==
    \A d \in Dirs : /\ disk'[d].file = disk[d].file
                    /\ disk[d].store = "run" => disk'[d].store = "run"

\* The steps that leave the directories alone do.
LEMMA QuietSteps ==
    ASSUME Quiet PROVE disk' = disk /\ before' = before /\ launch' = launch
BY DEF Quiet, Kill, Parse, Configure, ResolvePassword, Connect, Scan, Summary

\* initLogger() creates the log file, in the launch's own directory.
LEMMA InitLoggerDisk ==
    ASSUME TypeOK, LaunchInv, InitLogger
    PROVE  disk' \in [Dirs -> Dir] /\ FilesKept
<1>1. PICK o \in Dirs : o = cfg.outputDir
  BY OwnDirectory DEF InitLogger, Running
<1>2. CASE disk' = disk
  BY <1>2 DEF TypeOK, FilesKept
<1>3. CASE disk' = [disk EXCEPT ![o].logs = TRUE]
  <2>1. PICK g \in Dir : g = disk[o]
    BY DEF TypeOK
  <2>2. disk' = [disk EXCEPT ![o] = [g EXCEPT !.logs = TRUE]]
    BY <1>3, <2>1
  <2>3. [g EXCEPT !.logs = TRUE] \in Dir
    BY DirTypes
  <2>4. [g EXCEPT !.logs = TRUE].file = g.file /\ [g EXCEPT !.logs = TRUE].store = g.store
    BY DEF Dir
  <2>5. QED
    BY <2>1, <2>2, <2>3, <2>4 DEF TypeOK, FilesKept
<1>4. QED
  BY <1>1, <1>2, <1>3 DEF InitLogger

\* A step that sets the store of one directory changes nothing else.
LEMMA StoreDisk ==
    ASSUME TypeOK, NEW o \in Dirs, NEW x \in {"none", "fresh", "run"},
           disk' = [disk EXCEPT ![o].store = x]
    PROVE  /\ disk' \in [Dirs -> Dir]
           /\ \A d \in Dirs : disk'[d].file = disk[d].file
           /\ disk'[o].store = x
           /\ \A d \in Dirs \ {o} : disk'[d] = disk[d]
<1>1. PICK g \in Dir : g = disk[o]
  BY DEF TypeOK
<1>2. disk' = [disk EXCEPT ![o] = [g EXCEPT !.store = x]]
  BY <1>1
<1>3. [g EXCEPT !.store = x] \in Dir
  BY DirTypes
<1>4. [g EXCEPT !.store = x].file = g.file /\ [g EXCEPT !.store = x].store = x
  BY DEF Dir
<1>5. QED
  BY <1>1, <1>2, <1>3, <1>4 DEF TypeOK

\* Opening the store creates it where there is none; a run that is on record
\* stays on record.
LEMMA OpenStoreDisk ==
    ASSUME TypeOK, LaunchInv, OpenStore
    PROVE  disk' \in [Dirs -> Dir] /\ FilesKept
<1>1. PICK o \in Dirs : o = cfg.outputDir
  BY OwnDirectory DEF OpenStore, Running
<1>2. CASE disk' = disk
  BY <1>2 DEF TypeOK, FilesKept
<1>3. CASE disk' = [disk EXCEPT ![o].store = IF @ = "none" THEN "fresh" ELSE @]
  <2>1. PICK x \in {"none", "fresh", "run"} :
          x = IF disk[o].store = "none" THEN "fresh" ELSE disk[o].store
    BY DEF TypeOK, Dir
  <2>2. disk' = [disk EXCEPT ![o].store = x]
    BY <1>3, <2>1
  <2>3. QED
    BY <2>1, <2>2, StoreDisk DEF FilesKept
<1>4. QED
  BY <1>1, <1>2, <1>3 DEF OpenStore

\* run() puts the launch's own run on record, unless it fails.
LEMMA BeginRunDisk ==
    ASSUME TypeOK, LaunchInv, BeginRun
    PROVE  /\ disk' \in [Dirs -> Dir] /\ FilesKept
           /\ place' = "scan" => disk'[cfg.outputDir].store = "run"
<1>1. PICK o \in Dirs : o = cfg.outputDir
  BY OwnDirectory DEF BeginRun, Running
<1>2. CASE Ends("1") /\ disk' = disk
  BY <1>2 DEF TypeOK, FilesKept, BeginRun, Running, Ends
<1>3. CASE disk' = [disk EXCEPT ![o].store = "run"]
  BY <1>1, <1>3, StoreDisk DEF FilesKept
<1>4. QED
  BY <1>1, <1>2, <1>3 DEF BeginRun

\* A rename replaces one report by its temporary file, in one directory.
LEMMA RenameDisk ==
    ASSUME TypeOK, NEW o \in Dirs, NEW r \in ReportNames,
           disk' = [disk EXCEPT ![o].file[r] = disk[o].tmp[r], ![o].tmp[r] = {}]
    PROVE  /\ disk' \in [Dirs -> Dir]
           /\ disk'[o].store = disk[o].store
           /\ disk'[o].file[r] = disk[o].tmp[r]
           /\ \A q \in ReportNames \ {r} : disk'[o].file[q] = disk[o].file[q]
           /\ \A d \in Dirs \ {o} : disk'[d] = disk[d]
<1>1. PICK g \in Dir : g = disk[o]
  BY DEF TypeOK
<1> DEFINE h == [g EXCEPT !.file[r] = g.tmp[r], !.tmp[r] = {}]
<1>2. disk' = [disk EXCEPT ![o] = h]
  BY <1>1 DEF TypeOK
<1>3. h \in Dir
  BY DirTypes
<1>4. /\ h.store = g.store /\ h.file[r] = g.tmp[r]
      /\ \A q \in ReportNames \ {r} : h.file[q] = g.file[q]
  BY DEF Dir
<1> HIDE DEF h
<1>5. QED
  BY <1>1, <1>2, <1>3, <1>4 DEF TypeOK

\* A step that sets the temporary file of the report that is being written.
LEMMA SetTmpDisk ==
    ASSUME TypeOK, LaunchInv, place \in Configured, UNCHANGED <<launch, config, status>>,
           NEW x \in {"all", "some", "full"}, SetTmp(x)
    PROVE  /\ disk' \in [Dirs -> Dir] /\ FilesKept /\ Report' = Report
           /\ disk'[cfg.outputDir].tmp[Report]
                 = {[launch |-> launch, status |-> status, bytes |-> x]}
<1>1. PICK o \in Dirs : o = cfg.outputDir
  BY OwnDirectory
<1>2. PICK r \in ReportNames : r = Report
  BY DEF Report
<1>3. {[launch |-> launch, status |-> status, bytes |-> x]} \in SUBSET Content
  BY DEF LaunchInv, TypeOK, Content
<1>4. PICK S \in SUBSET Content :
         S = {[launch |-> launch, status |-> status, bytes |-> x]}
  BY <1>3
<1>5. disk' = [disk EXCEPT ![o].tmp[r] = S]
  BY <1>1, <1>2, <1>4 DEF SetTmp
<1>6. disk' \in [Dirs -> Dir] /\ FilesKept /\ disk'[o].tmp[r] = S
      /\ disk'[o].file = disk[o].file
  <2>1. PICK g \in Dir : g = disk[o]
    BY DEF TypeOK
  <2>2. disk' = [disk EXCEPT ![o] = [g EXCEPT !.tmp[r] = S]]
    BY <1>5, <2>1
  <2>3. [g EXCEPT !.tmp[r] = S] \in Dir
    BY DirTypes
  <2>4. /\ [g EXCEPT !.tmp[r] = S].file = g.file /\ [g EXCEPT !.tmp[r] = S].store = g.store
        /\ [g EXCEPT !.tmp[r] = S].tmp[r] = S
    BY DEF Dir
  <2>5. QED
    BY <2>1, <2>2, <2>3, <2>4 DEF TypeOK, FilesKept
<1>7. cfg' = cfg
  BY DEF cfg
<1>8. Report' = Report
  BY <1>1, <1>6, <1>7 DEF Report, dir
<1>9. QED
  BY <1>1, <1>2, <1>4, <1>6, <1>8

\* Creating the temporary file, and writing it.
LEMMA OpenTmpDisk ==
    ASSUME TypeOK, LaunchInv, OpenTmp
    PROVE  disk' \in [Dirs -> Dir] /\ FilesKept
<1>1. CASE disk' = disk
  BY <1>1 DEF TypeOK, FilesKept
<1>2. CASE SetTmp("some")
  BY <1>2, SetTmpDisk DEF OpenTmp, Running
<1>3. QED
  BY <1>1, <1>2 DEF OpenTmp

\* What is to be renamed is this launch's report, and all of it was written, or
\* as much as the disk took.
LEMMA WriteDisk ==
    ASSUME TypeOK, LaunchInv, Write
    PROVE  /\ disk' \in [Dirs -> Dir] /\ FilesKept
           /\ place' = "rename" =>
                 /\ Report' = Report
                 /\ \E x \in {"all", "full"} :
                       /\ AsWritten(x)
                       /\ disk'[cfg.outputDir].tmp[Report]
                             = {[launch |-> launch, status |-> status, bytes |-> x]}
<1>1. CASE Ends("1") /\ disk' = disk
  BY <1>1 DEF TypeOK, FilesKept, Write, Running, Ends
<1>2. CASE SetTmp("all")
  BY <1>2, SetTmpDisk DEF Write, Running, AsWritten
<1>3. CASE DiskMayFill /\ SetTmp("full")
  BY <1>3, SetTmpDisk DEF Write, Running, AsWritten
<1>4. QED
  BY <1>1, <1>2, <1>3 DEF Write

\* A rename fails, or makes the temporary file the report.
LEMMA RenameStep ==
    ASSUME TypeOK, LaunchInv, Rename
    PROVE  \/ Ends("1") /\ disk' = disk
           \/ /\ GoesOn(IF Report = "schema" THEN "openTmp" ELSE "summary")
              /\ \E o \in Dirs, r \in ReportNames :
                    /\ o = cfg.outputDir /\ r = Report
                    /\ disk' \in [Dirs -> Dir]
                    /\ disk'[o].store = disk[o].store
                    /\ disk'[o].file[r] = disk[o].tmp[r]
                    /\ \A q \in ReportNames \ {r} : disk'[o].file[q] = disk[o].file[q]
                    /\ \A d \in Dirs \ {o} : disk'[d] = disk[d]
<1>1. PICK o \in Dirs : o = cfg.outputDir
  BY OwnDirectory DEF Rename, Running
<1>2. PICK r \in ReportNames : r = Report
  BY DEF Report
<1>3. ASSUME disk' = [disk EXCEPT ![cfg.outputDir].file[Report] = dir.tmp[Report],
                                  ![cfg.outputDir].tmp[Report] = {}]
      PROVE  disk' = [disk EXCEPT ![o].file[r] = disk[o].tmp[r], ![o].tmp[r] = {}]
  BY <1>1, <1>2, <1>3, Zenon DEF dir
<1>4. CASE Ends("1") /\ disk' = disk
  BY <1>4
<1>5. CASE /\ GoesOn(IF Report = "schema" THEN "openTmp" ELSE "summary")
           /\ disk' = [disk EXCEPT ![cfg.outputDir].file[Report] = dir.tmp[Report],
                                   ![cfg.outputDir].tmp[Report] = {}]
  <2>1. disk' = [disk EXCEPT ![o].file[r] = disk[o].tmp[r], ![o].tmp[r] = {}]
    BY <1>3, <1>5
  <2>2. /\ disk' \in [Dirs -> Dir]
        /\ disk'[o].store = disk[o].store
        /\ disk'[o].file[r] = disk[o].tmp[r]
        /\ \A q \in ReportNames \ {r} : disk'[o].file[q] = disk[o].file[q]
        /\ \A d \in Dirs \ {o} : disk'[d] = disk[d]
    BY <2>1, RenameDisk
  <2>3. \E p \in Dirs, q \in ReportNames :
           /\ p = cfg.outputDir /\ q = Report
           /\ disk' \in [Dirs -> Dir]
           /\ disk'[p].store = disk[p].store
           /\ disk'[p].file[q] = disk[p].tmp[q]
           /\ \A t \in ReportNames \ {q} : disk'[p].file[t] = disk[p].file[t]
           /\ \A d \in Dirs \ {p} : disk'[d] = disk[d]
    <3>1. WITNESS o \in Dirs, r \in ReportNames
    <3>2. QED
      BY <1>1, <1>2, <2>2
  <2>4. QED
    BY <1>5, <2>3, Zenon
<1>6. QED
  BY <1>4, <1>5, Zenon DEF Rename

------------------------------------------------------------------------------
(* The inductive invariant *)

\* The steps that change a directory, but none of its reports.
Careful == InitLogger \/ OpenStore \/ BeginRun \/ OpenTmp \/ Write

\* They change nothing of the launch.
LEMMA CarefulSteps ==
    ASSUME TypeOK, LaunchInv, Careful
    PROVE  /\ disk' \in [Dirs -> Dir] /\ FilesKept
           /\ UNCHANGED <<launch, argv, args, config, status, before>>
<1>1. disk' \in [Dirs -> Dir] /\ FilesKept
  BY InitLoggerDisk, OpenStoreDisk, BeginRunDisk, OpenTmpDisk, WriteDisk, Zenon DEF Careful
<1>2. UNCHANGED <<launch, argv, args, config, status, before>>
  BY DEF Careful, InitLogger, OpenStore, BeginRun, OpenTmp, Write
<1>3. QED
  BY <1>1, <1>2

\* Every step is a new launch, one of those, a rename, or no step at all.
LEMMA StepKinds ==
    ASSUME [Next]_vars
    PROVE  \/ \E words \in CommandLines : Launch(words)
           \/ Quiet \/ Careful \/ Rename \/ UNCHANGED vars
BY DEF Next, Quiet, Careful

\* The type of every variable is kept.
LEMMA TypeStep ==
    ASSUME TypeOK, LaunchInv, [Next]_vars
    PROVE  TypeOK'
<1>1. ASSUME NEW words \in CommandLines, Launch(words) PROVE TypeOK'
  BY <1>1, ProgramAssumption DEF Launch, TypeOK
<1>2. CASE Quiet
  <2>1. CASE Kill
    BY <2>1 DEF Kill, TypeOK, Ends
  <2>2. CASE Parse
    BY <2>2 DEF Parse, Running, TypeOK, Ends, GoesOn
  <2>3. CASE Configure
    <3>1. ASSUME NEW c \in config'
          PROVE  c.outputDir \in Dirs /\ c.threads >= 1 /\ c.sampleSize >= 0
      <4>1. CASE config' = config
        BY <3>1, <4>1 DEF TypeOK
      <4>2. ASSUME NEW a \in args, ~FileRefused(a), ~FileMistyped(a), ~ConfigRefused(a),
                   config' = {ConfigOf(a)}
            PROVE  c.outputDir \in Dirs /\ c.threads >= 1 /\ c.sampleSize >= 0
        <5>1. argv \in CommandLines /\ a \in ParseCliArgs(argv)
          BY <2>3 DEF Configure, Running, LaunchInv
        <5>2. c = ConfigOf(a)
          BY <3>1, <4>2
        <5>3. PICK words \in CommandLines : words = argv
          BY <5>1
        <5>4. QED
          BY <4>2, <5>1, <5>2, <5>3, ConfigType
      <4>3. QED
        BY <2>3, <4>1, <4>2, Zenon DEF Configure
    <3>2. /\ exit' \in {"none", "0", "1", "130", "abort", "killed"} /\ place' \in Places
          /\ UNCHANGED <<launch, argv, args, status, disk, before>>
      BY <2>3 DEF Configure, Running, TypeOK, Ends, GoesOn
    <3>3. QED
      BY <3>1, <3>2 DEF TypeOK
  <2>4. CASE ResolvePassword
    BY <2>4 DEF ResolvePassword, Running, TypeOK, Ends, GoesOn
  <2>5. CASE Connect
    BY <2>5 DEF Connect, Running, TypeOK, Ends, GoesOn
  <2>6. CASE Scan
    BY <2>6 DEF Scan, Running, TypeOK, Ends, GoesOn
  <2>7. CASE Summary
    BY <2>7 DEF Summary, Running, TypeOK, Ends, GoesOn
  <2>8. QED
    BY <1>2, <2>1, <2>2, <2>3, <2>4, <2>5, <2>6, <2>7 DEF Quiet
<1>3. CASE Careful
  <2>1. disk' \in [Dirs -> Dir] /\ UNCHANGED <<launch, argv, args, config, status, before>>
    BY <1>3, CarefulSteps
  <2>2. exit' \in {"none", "0", "1", "130", "abort", "killed"} /\ place' \in Places
    BY <1>3 DEF Careful, InitLogger, OpenStore, BeginRun, OpenTmp, Write, Running, TypeOK,
                Ends, GoesOn
  <2>3. QED
    BY <2>1, <2>2 DEF TypeOK
<1>4. CASE Rename
  <2>1. disk' \in [Dirs -> Dir]
    BY <1>4, RenameStep DEF TypeOK
  <2>2. /\ exit' \in {"none", "0", "1", "130", "abort", "killed"} /\ place' \in Places
        /\ UNCHANGED <<launch, argv, args, config, status, before>>
    BY <1>4 DEF Rename, Running, TypeOK, Ends, GoesOn
  <2>3. QED
    BY <2>1, <2>2 DEF TypeOK
<1>5. CASE UNCHANGED vars
  BY <1>5 DEF vars, TypeOK
<1>6. QED
  BY <1>1, <1>2, <1>3, <1>4, <1>5, StepKinds

\* The launch: no step undoes what it has got through.
LEMMA LaunchStep ==
    ASSUME TypeOK, LaunchInv, [Next]_vars
    PROVE  LaunchInv'
<1>1. ASSUME NEW words \in CommandLines, Launch(words) PROVE LaunchInv'
  BY <1>1 DEF Launch, TypeOK, LaunchInv
<1>2. CASE Kill
  BY <1>2 DEF Kill, TypeOK, LaunchInv, Ends
<1>3. CASE Parse
  BY <1>3 DEF Parse, Running, TypeOK, LaunchInv, Ends, GoesOn
<1>4. CASE Configure
  <2>1. /\ exit = "none" /\ place = "config" /\ UNCHANGED <<launch, argv, args, status>>
        /\ exit' \in {"none", "1", "abort"} /\ place' \in {"config", "logger"}
        /\ place' = "logger" => config' # {}
    BY <1>4 DEF Configure, Running, Ends, GoesOn
  <2>2. /\ args # {} => args = ParseCliArgs(argv)
        /\ launch >= 1 /\ argv \in CommandLines
        /\ config # {} => args # {} /\ config = {ConfigOf(x) : x \in args}
    BY <2>1 DEF LaunchInv
  <2>3. config' # {} => args # {} /\ config' = {ConfigOf(x) : x \in args}
    <3>1. CASE config' = config
      BY <2>2, <3>1
    <3>2. ASSUME NEW a \in args, config' = {ConfigOf(a)}
          PROVE  args # {} /\ config' = {ConfigOf(x) : x \in args}
      <4>1. args = {a}
        BY <2>2 DEF ParseCliArgs
      <4>2. QED
        BY <3>2, <4>1
    <3>3. QED
      BY <1>4, <3>1, <3>2, Zenon DEF Configure
  <2>4. QED
    BY <2>1, <2>2, <2>3 DEF LaunchInv
<1>5. CASE InitLogger \/ ResolvePassword \/ OpenStore \/ Connect
  BY <1>5 DEF InitLogger, ResolvePassword, OpenStore, Connect, Running, TypeOK, LaunchInv,
              Ends, GoesOn
<1>6. CASE BeginRun \/ Scan \/ OpenTmp \/ Write
  BY <1>6 DEF BeginRun, Scan, OpenTmp, Write, Running, TypeOK, LaunchInv, Ends, GoesOn
<1>7. CASE Rename
  BY <1>7 DEF Rename, Running, TypeOK, LaunchInv, Ends, GoesOn
<1>8. CASE Summary
  BY <1>8 DEF Summary, Running, TypeOK, LaunchInv, Ends, GoesOn
<1>9. CASE UNCHANGED vars
  BY <1>9 DEF vars, LaunchInv
<1>10. QED
  BY <1>1, <1>2, <1>3, <1>4, <1>5, <1>6, <1>7, <1>8, <1>9 DEF Next

\* Reports: a step that renames none keeps what there is, and what a rename puts
\* in the place of one is as it was written, and of this launch.
LEMMA FilesStep ==
    ASSUME TypeOK, LaunchInv, FilesInv, OwnInv, [Next]_vars
    PROVE  FilesInv'
<1>1. ASSUME NEW words \in CommandLines, Launch(words) PROVE FilesInv'
  <2>1. launch' = launch + 1 /\ disk' = disk /\ before' = disk /\ launch \in Nat
    BY <1>1 DEF Launch, TypeOK
  <2>2. SUFFICES ASSUME NEW d \in Dirs, NEW r \in ReportNames
                 PROVE  /\ \A f \in disk[d].file[r] : /\ AsWritten(f.bytes)
                                                      /\ f.launch <= launch + 1
                                                      /\ disk[d].store = "run"
                        /\ \A f \in disk[d].file[r] :
                              /\ f.launch < launch + 1
                              /\ \E g \in disk[d].file[r] : g.launch >= f.launch
    BY <2>1 DEF FilesInv
  <2>3. ASSUME NEW f \in disk[d].file[r]
        PROVE  f.launch \in Nat /\ AsWritten(f.bytes) /\ f.launch <= launch
               /\ disk[d].store = "run"
    BY DEF FilesInv, TypeOK, Dir, Content
  <2>4. QED
    BY <2>1, <2>3
<1>2. ASSUME FilesKept, UNCHANGED <<launch, before>> PROVE FilesInv'
  <2>1. SUFFICES ASSUME NEW d \in Dirs, NEW r \in ReportNames
                 PROVE  /\ \A f \in disk'[d].file[r] : /\ AsWritten(f.bytes)
                                                       /\ f.launch <= launch
                                                       /\ disk'[d].store = "run"
                        /\ \A f \in before[d].file[r] :
                              /\ f.launch < launch
                              /\ \E g \in disk'[d].file[r] : g.launch >= f.launch
    BY <1>2 DEF FilesInv
  <2>2. QED
    BY <1>2, Zenon DEF FilesKept, FilesInv
<1>3. CASE Quiet
  BY <1>2, <1>3, QuietSteps DEF FilesKept
<1>4. CASE Careful
  BY <1>2, <1>4, CarefulSteps
<1>5. CASE Rename
  <2>1. /\ exit = "none" /\ place = "rename" /\ UNCHANGED <<launch, before, config>>
    BY <1>5 DEF Rename, Running
  <2>2. CASE disk' = disk
    BY <1>2, <2>1, <2>2 DEF FilesKept
  <2>3. ASSUME NEW o \in Dirs, NEW r \in ReportNames, o = cfg.outputDir, r = Report,
               disk'[o].store = disk[o].store, disk'[o].file[r] = disk[o].tmp[r],
               \A q \in ReportNames \ {r} : disk'[o].file[q] = disk[o].file[q],
               \A d \in Dirs \ {o} : disk'[d] = disk[d]
        PROVE  FilesInv'
    <3>1. /\ disk[o].tmp[r] # {} /\ disk[o].store = "run"
          /\ \A f \in disk[o].tmp[r] : f.launch = launch /\ AsWritten(f.bytes)
      BY <2>1, <2>3 DEF OwnInv, dir
    <3>2. ASSUME NEW d \in Dirs, NEW q \in ReportNames
          PROVE  /\ \A f \in disk'[d].file[q] : /\ AsWritten(f.bytes) /\ f.launch <= launch
                                                /\ disk'[d].store = "run"
                 /\ \A f \in before[d].file[q] :
                       /\ f.launch < launch
                       /\ \E g \in disk'[d].file[q] : g.launch >= f.launch
      <4>1. CASE d = o /\ q = r
        <5>1. \A f \in before[d].file[q] : f.launch < launch /\ f.launch \in Nat
          BY DEF FilesInv, TypeOK, Dir, Content
        <5>2. launch \in Nat
          BY DEF TypeOK
        <5>3. QED
          BY <2>3, <3>1, <4>1, <5>1, <5>2
      <4>2. CASE ~(d = o /\ q = r)
        <5>1. disk'[d].file[q] = disk[d].file[q] /\ disk'[d].store = disk[d].store
          BY <2>3, <4>2
        <5>2. QED
          BY <5>1, Zenon DEF FilesInv
      <4>3. QED
        BY <4>1, <4>2
    <3>3. QED
      BY <2>1, <3>2 DEF FilesInv
  <2>4. QED
    BY <1>5, <2>2, <2>3, RenameStep
<1>6. CASE UNCHANGED vars
  BY <1>2, <1>6 DEF vars, FilesKept
<1>7. QED
  BY <1>1, <1>3, <1>4, <1>5, <1>6, StepKinds

\* Traces: reports only change once there is a result, and nothing does before
\* the launch has its configuration.
LEMMA TraceStep ==
    ASSUME TypeOK, LaunchInv, TraceInv, [Next]_vars
    PROVE  TraceInv'
<1>1. ASSUME NEW words \in CommandLines, Launch(words) PROVE TraceInv'
  BY <1>1 DEF Launch, TraceInv
<1>2. ASSUME UNCHANGED <<disk, before>>,
             place' \notin Configured \/ place' = "logger" =>
                place \notin Configured \/ place = "logger",
             place' \notin Writing => place \notin Writing
      PROVE  TraceInv'
  BY <1>2, Zenon DEF TraceInv
<1>3. CASE Quiet
  <2>1. UNCHANGED <<disk, before>>
    BY <1>3, QuietSteps
  <2>2. /\ place' \notin Configured \/ place' = "logger" =>
              place \notin Configured \/ place = "logger"
        /\ place' \notin Writing => place \notin Writing
    BY <1>3 DEF Quiet, Kill, Parse, Configure, ResolvePassword, Connect, Scan, Summary,
                Running, Ends, GoesOn
  <2>3. QED
    BY <1>2, <2>1, <2>2
<1>4. CASE Careful
  <2>1. FilesKept /\ UNCHANGED before
    BY <1>4, CarefulSteps
  <2>2. place' \notin Configured \/ place' = "logger" => disk' = before'
    BY <1>4 DEF Careful, InitLogger, OpenStore, BeginRun, OpenTmp, Write, Running, Ends,
                GoesOn, TraceInv
  <2>3. place' \notin Writing => place \notin Writing
    BY <1>4 DEF Careful, InitLogger, OpenStore, BeginRun, OpenTmp, Write, Running, Ends, GoesOn
  <2>4. QED
    BY <2>1, <2>2, <2>3 DEF TraceInv, FilesKept
<1>5. CASE Rename
  <2>1. /\ place = "rename" /\ place' \in Writing /\ place' # "logger" /\ UNCHANGED before
    BY <1>5 DEF Rename, Running, Ends, GoesOn
  <2>2. \A d \in Dirs : disk'[d].store = disk[d].store
    BY <1>5, RenameStep
  <2>3. QED
    BY <2>1, <2>2 DEF TraceInv
<1>6. CASE UNCHANGED vars
  BY <1>6 DEF vars, TraceInv
<1>7. QED
  BY <1>1, <1>3, <1>4, <1>5, <1>6, StepKinds

\* Own reports: what a step has to see to that renames none.
LEMMA OwnKept ==
    ASSUME TypeOK, LaunchInv, FilesInv, OwnInv, FilesKept,
           UNCHANGED <<launch, config, status>>,
           place # "off", place \in Writing => place' \in Writing,
           place' \in Admitted =>
              place \in Configured /\ (place \in Admitted \/ cfg.resume \/ dir.store # "run"),
           place' \in Recorded => place \in Recorded \/ disk'[cfg.outputDir].store = "run",
           exit' = "none" /\ place' = "rename" =>
              /\ Report' = Report
              /\ \E x \in {"all", "full"} :
                    /\ AsWritten(x)
                    /\ disk'[cfg.outputDir].tmp[Report]
                          = {[launch |-> launch, status |-> status, bytes |-> x]},
           place' = "summary" => place = "summary"
    PROVE  OwnInv'
<1>1. cfg' = cfg
  BY DEF cfg
<1>2. \A d \in Dirs, r \in ReportNames : \A f \in disk'[d].file[r] :
         f.launch = launch' => place' \in Writing /\ d = cfg'.outputDir /\ f.status = status'
  BY <1>1, Zenon DEF FilesKept, OwnInv
<1>3. CASE place' \in Admitted
  <2>1. PICK o \in Dirs : o = cfg.outputDir
    BY <1>3, OwnDirectory
  <2>2. \/ cfg'.resume
        \/ \A r \in ReportNames : \A f \in disk'[o].file[r] : f.launch = launch'
    <3>1. CASE place \in Admitted
      BY <2>1, <1>1, <3>1 DEF FilesKept, OwnInv, dir
    <3>2. CASE disk[o].store # "run"
      BY <3>2, Zenon DEF FilesKept, FilesInv
    <3>3. QED
      BY <1>1, <1>3, <2>1, <3>1, <3>2 DEF dir
  <2>3. place' \in Recorded => disk'[o].store = "run"
    BY <2>1 DEF FilesKept, OwnInv, dir
  <2>4. exit' = "none" /\ place' = "rename" =>
           /\ disk'[o].tmp[Report'] # {}
           /\ \A f \in disk'[o].tmp[Report'] :
                 f.launch = launch' /\ f.status = status' /\ AsWritten(f.bytes)
    <3>1. SUFFICES ASSUME exit' = "none", place' = "rename"
                   PROVE  /\ disk'[o].tmp[Report] # {}
                          /\ \A f \in disk'[o].tmp[Report] :
                                f.launch = launch /\ f.status = status /\ AsWritten(f.bytes)
      OBVIOUS
    <3>2. PICK x \in {"all", "full"} :
             /\ AsWritten(x)
             /\ disk'[o].tmp[Report] = {[launch |-> launch, status |-> status, bytes |-> x]}
      BY <2>1, <3>1
    <3>3. QED
      BY <3>2
  <2>5. place' = "summary" =>
           \A r \in ReportNames : \E f \in disk'[o].file[r] : f.launch = launch'
    BY <2>1 DEF FilesKept, OwnInv, dir
  <2>6. QED
    BY <1>1, <1>2, <2>1, <2>2, <2>3, <2>4, <2>5 DEF OwnInv, dir
<1>4. CASE place' \notin Admitted
  BY <1>2, <1>4 DEF OwnInv
<1>5. QED
  BY <1>3, <1>4

\* Own reports: a rename adds one of this launch, in its own directory; the one
\* of the other name is there already if it is the second.
LEMMA OwnRename ==
    ASSUME TypeOK, LaunchInv, FilesInv, OwnInv, Rename, NEW o \in Dirs, NEW r \in ReportNames,
           o = cfg.outputDir, r = Report,
           GoesOn(IF r = "schema" THEN "openTmp" ELSE "summary"),
           disk'[o].store = disk[o].store, disk'[o].file[r] = disk[o].tmp[r],
           \A q \in ReportNames \ {r} : disk'[o].file[q] = disk[o].file[q],
           \A d \in Dirs \ {o} : disk'[d] = disk[d]
    PROVE  OwnInv'
<1>1. /\ exit = "none" /\ place = "rename" /\ UNCHANGED <<launch, config, status>>
      /\ place' = IF r = "schema" THEN "openTmp" ELSE "summary"
  BY DEF Rename, Running, GoesOn
<1>2. cfg' = cfg
  BY <1>1 DEF cfg
<1>3. /\ disk'[o].file[r] # {}
      /\ \A f \in disk'[o].file[r] : f.launch = launch /\ f.status = status
  BY <1>1 DEF OwnInv, dir
<1>4. place' \in Writing /\ place' # "rename"
  BY <1>1
<1>5. \A d \in Dirs, q \in ReportNames : \A f \in disk'[d].file[q] :
         f.launch = launch => d = o /\ f.status = status
  <2>1. SUFFICES ASSUME NEW d \in Dirs, NEW q \in ReportNames, NEW f \in disk'[d].file[q],
                        f.launch = launch
                 PROVE  d = o /\ f.status = status
    OBVIOUS
  <2>2. CASE d = o /\ q = r
    BY <1>3, <2>2
  <2>3. CASE ~(d = o /\ q = r)
    <3>1. f \in disk[d].file[q]
      BY <2>1, <2>3
    <3>2. QED
      BY <1>1, <2>1, <3>1 DEF OwnInv
  <2>4. QED
    BY <2>2, <2>3
<1>6. \/ cfg.resume
      \/ \A q \in ReportNames : \A f \in disk'[o].file[q] : f.launch = launch
  <2>1. \/ cfg.resume
        \/ \A q \in ReportNames : \A f \in disk[o].file[q] : f.launch = launch
    BY <1>1 DEF OwnInv, dir
  <2>2. QED
    BY <2>1, <1>3
<1>7. disk'[o].store = "run"
  BY <1>1 DEF OwnInv, dir
<1>8. ASSUME place' = "summary", NEW q \in ReportNames
      PROVE  \E f \in disk'[o].file[q] : f.launch = launch
  <2>1. r = "consistency"
    BY <1>1, <1>8
  <2>2. \E f \in disk[o].file["schema"] : f.launch = launch
    BY <2>1 DEF Report, dir
  <2>3. QED
    BY <1>3, <2>1, <2>2
<1>9. QED
  BY <1>1, <1>2, <1>4, <1>5, <1>6, <1>7, <1>8 DEF OwnInv, dir

\* Own reports: kept by every step.
LEMMA OwnStep ==
    ASSUME TypeOK, LaunchInv, FilesInv, TraceInv, OwnInv, [Next]_vars
    PROVE  OwnInv'
<1> USE DEF Running, GoesOn, Ends
<1>1. ASSUME NEW words \in CommandLines, Launch(words) PROVE OwnInv'
  <2>1. \A d \in Dirs, r \in ReportNames : \A f \in disk[d].file[r] : f.launch # launch + 1
    <3>1. launch \in Nat
      BY DEF TypeOK
    <3>2. ASSUME NEW d \in Dirs, NEW r \in ReportNames, NEW f \in disk[d].file[r]
          PROVE  f.launch \in Nat /\ f.launch <= launch
      BY DEF FilesInv, TypeOK, Dir, Content
    <3>3. QED
      BY <3>1, <3>2
  <2>2. disk' = disk /\ launch' = launch + 1 /\ place' = "parse"
    BY <1>1 DEF Launch
  <2>3. QED
    BY <2>1, <2>2 DEF OwnInv
<1>2. CASE Kill \/ ResolvePassword \/ Connect \/ Summary
  <2>1. FilesKept /\ UNCHANGED <<launch, config, status>>
    BY <1>2 DEF Kill, ResolvePassword, Connect, Summary, FilesKept
  <2>2. /\ place # "off" /\ (place \in Writing => place' \in Writing)
        /\ place' \in Admitted => place \in Admitted
        /\ place' \in Recorded => place \in Recorded
        /\ ~(exit' = "none" /\ place' = "rename")
        /\ place' = "summary" => place = "summary"
    BY <1>2 DEF Kill, ResolvePassword, Connect, Summary, LaunchInv
  <2>3. QED
    BY <2>1, <2>2, OwnKept
<1>3. CASE Parse \/ Configure
  <2>1. /\ place \in {"parse", "config"} /\ place' \in {"parse", "config", "logger"}
        /\ UNCHANGED <<launch, disk>>
    BY <1>3 DEF Parse, Configure
  <2>2. \A d \in Dirs, r \in ReportNames : \A f \in disk[d].file[r] : f.launch # launch
    BY <2>1, Zenon DEF OwnInv
  <2>3. QED
    BY <2>1, <2>2 DEF OwnInv
<1>4. CASE Scan
  <2>1. /\ place = "scan" /\ UNCHANGED <<launch, disk, config>>
        /\ place' \in {"scan", "openTmp"}
    BY <1>4 DEF Scan
  <2>2. \A d \in Dirs, r \in ReportNames : \A f \in disk[d].file[r] : f.launch # launch
    BY <2>1, Zenon DEF OwnInv
  <2>3. cfg' = cfg
    BY <2>1 DEF cfg
  <2>4. dir' = dir
    BY <2>1, <2>3 DEF dir
  <2>5. /\ cfg.resume \/ \A r \in ReportNames : \A f \in dir.file[r] : f.launch = launch
        /\ dir.store = "run"
    BY <2>1 DEF OwnInv
  <2>6. QED
    BY <2>1, <2>2, <2>3, <2>4, <2>5 DEF OwnInv
<1>5. CASE Careful
  <2>1. FilesKept /\ UNCHANGED <<launch, config, status>>
    BY <1>5, CarefulSteps
  <2>2. /\ place # "off" /\ (place \in Writing => place' \in Writing)
        /\ place' = "summary" => place = "summary"
        /\ place' \in Admitted =>
              place \in Configured /\ (place \in Admitted \/ cfg.resume \/ dir.store # "run")
    BY <1>5 DEF Careful, InitLogger, OpenStore, BeginRun, OpenTmp, Write
  <2>3. place' \in Recorded => place \in Recorded \/ disk'[cfg.outputDir].store = "run"
    <3>1. CASE BeginRun
      BY <3>1, BeginRunDisk DEF BeginRun
    <3>2. CASE InitLogger \/ OpenStore \/ OpenTmp \/ Write
      BY <3>2 DEF InitLogger, OpenStore, OpenTmp, Write
    <3>3. QED
      BY <1>5, <3>1, <3>2 DEF Careful
  <2>4. exit' = "none" /\ place' = "rename" =>
              /\ Report' = Report
              /\ \E x \in {"all", "full"} :
                    /\ AsWritten(x)
                    /\ disk'[cfg.outputDir].tmp[Report]
                          = {[launch |-> launch, status |-> status, bytes |-> x]}
    <3>1. CASE Write
      BY <3>1, WriteDisk
    <3>2. CASE InitLogger \/ OpenStore \/ BeginRun \/ OpenTmp
      BY <3>2 DEF InitLogger, OpenStore, BeginRun, OpenTmp
    <3>3. QED
      BY <1>5, <3>1, <3>2 DEF Careful
  <2>5. QED
    BY <2>1, <2>2, <2>3, <2>4, OwnKept
<1>6. CASE Rename
  <2>1. CASE Ends("1") /\ disk' = disk
    <3>1. FilesKept /\ UNCHANGED <<launch, config, status, place>> /\ exit' = "1"
          /\ place = "rename"
      BY <1>6, <2>1 DEF Rename, FilesKept
    <3>2. QED
      BY <3>1, OwnKept
  <2>2. CASE ~(Ends("1") /\ disk' = disk)
    BY <1>6, <2>2, RenameStep, OwnRename
  <2>3. QED
    BY <2>1, <2>2
<1>7. CASE UNCHANGED vars
  <2>1. cfg' = cfg /\ dir' = dir /\ Report' = Report
    BY <1>7 DEF vars, cfg, dir, Report
  <2>2. QED
    BY <1>7, <2>1 DEF vars, OwnInv
<1>8. QED
  BY <1>1, <1>2, <1>3, <1>4, <1>5, <1>6, <1>7, StepKinds DEF Quiet

------------------------------------------------------------------------------
(* The command line *)

\* What holds at the start, and after each token if it did before, holds to the
\* end.
LEMMA Onward ==
    ASSUME NEW n \in Nat, NEW G, 0 \in G, \A k \in 0..n - 1 : k \in G => k + 1 \in G
    PROVE  \A k \in 0..n : k \in G
<1> DEFINE bad == {k \in 0..n : k \notin G}
<1>1. SUFFICES ASSUME bad # {} PROVE FALSE
  OBVIOUS
<1>2. bad \subseteq Nat
  OBVIOUS
<1>3. PICK k \in bad : \A j \in bad : ~(<<j, k>> \in OpToRel(<, Nat))
  BY <1>1, <1>2, NatLessThanWellFounded, WFMin, Zenon
<1>4. \A j \in bad : ~(j < k)
  BY <1>2, <1>3 DEF OpToRel
<1>5. k \in 1..n /\ k - 1 \in 0..n - 1 /\ k - 1 \notin bad
  BY <1>4
<1>6. QED
  BY <1>5

\* The loop over argv has a result after each token, made of the one before.
LEMMA TokensTakenDef ==
    ASSUME NEW words \in Seq(STRING)
    PROVE  TokensTaken(words) =
              [n \in 0..Len(words) |->
                  IF n = 0 THEN [args |-> NoArgs, next |-> "flag"]
                  ELSE TakeToken(TokensTaken(words)[n - 1], words[n])]
<1> DEFINE first == [args |-> NoArgs, next |-> "flag"]
           Loop(f, n) == [k \in 0..n |-> IF k = 0 THEN first
                                         ELSE TakeToken(f[k - 1], words[k])]
           G == {n \in 0..Len(words) : \E f : f = Loop(f, n)}
<1> HIDE DEF first
<1>1. Len(words) \in Nat
  OBVIOUS
<1>2. 0 \in G
  <2>1. [k \in 0..0 |-> first] = Loop([k \in 0..0 |-> first], 0)
    OBVIOUS
  <2> HIDE DEF Loop
  <2>2. \E f : f = Loop(f, 0)
    BY <2>1
  <2>3. QED
    BY <1>1, <2>2
<1>3. ASSUME NEW n \in 0..Len(words) - 1, n \in G PROVE n + 1 \in G
  <2>1. PICK f : f = Loop(f, n)
    BY <1>3
  <2> DEFINE g == [k \in 0..n + 1 |-> IF k = n + 1 THEN TakeToken(f[n], words[n + 1]) ELSE f[k]]
  <2>2. ASSUME NEW k \in 0..n + 1
        PROVE  g[k] = IF k = 0 THEN first ELSE TakeToken(g[k - 1], words[k])
    <3>1. CASE k = n + 1
      <4>1. k # 0 /\ k - 1 = n /\ n \in 0..n + 1 /\ n # n + 1
        BY <3>1
      <4>2. g[n] = f[n]
        BY <4>1
      <4>3. QED
        BY <3>1, <4>1, <4>2
    <3>2. CASE k # n + 1
      <4>1. k \in 0..n /\ (k # 0 => k - 1 \in 0..n + 1 /\ k - 1 # n + 1)
        BY <3>2
      <4>2. f[k] = IF k = 0 THEN first ELSE TakeToken(f[k - 1], words[k])
        BY <2>1, <4>1
      <4>3. g[k] = f[k] /\ (k # 0 => g[k - 1] = f[k - 1])
        BY <3>2, <4>1
      <4>4. QED
        BY <4>2, <4>3
    <3>3. QED
      BY <3>1, <3>2
  <2>3. g = Loop(g, n + 1)
    <3>1. g = [k \in 0..n + 1 |-> g[k]]
      OBVIOUS
    <3> HIDE DEF g
    <3>2. QED
      BY <2>2, <3>1
  <2>4. n + 1 \in 0..Len(words)
    BY <1>1
  <2>5. QED
    BY <2>3, <2>4
<1>4. Len(words) \in G
  <2> HIDE DEF G
  <2>1. \A n \in 0..Len(words) : n \in G
    BY <1>1, <1>2, <1>3, Onward
  <2>2. QED
    BY <1>1, <2>1
<1>5. \E f : f = Loop(f, Len(words))
  BY <1>4
<1>6. TokensTaken(words) = CHOOSE f : f = Loop(f, Len(words))
  BY DEF TokensTaken, first
<1>7. TokensTaken(words) = Loop(TokensTaken(words), Len(words))
  <2> HIDE DEF Loop
  <2>1. QED
    BY <1>5, <1>6
<1>8. QED
  BY <1>7 DEF first

\* What the words of the command line mean.
LEMMA Words ==
    /\ \A word \in DOMAIN Options :
          /\ word \notin DOMAIN Switches
          /\ Options[word] \notin {"flag", "error"}
    /\ \A word \in DOMAIN Switches : Switches[word] = "resume" <=> word = "--resume"
    /\ "--resume" \in DOMAIN Switches
BY DEF Options, Switches

\* What the loop has: arguments, and what it looks for next.
Parsing(p) ==
    \E values, switches, next : \E exclude \in Seq(STRING) :
        p = [args |-> [values |-> values, switches |-> switches, exclude |-> exclude],
             next |-> next]

\* The patterns of an option's value.
Patterns(text) == Or(ListOf, text, <<text>>)

\* They are strings, as every value is.
LEMMA OneElement == ASSUME NEW S, NEW x \in S PROVE <<x>> \in Seq(S)
OBVIOUS

LEMMA PatternsHold ==
    ASSUME NEW text \in STRING PROVE Patterns(text) \in Seq(STRING)
<1>1. CASE text \in DOMAIN ListOf
  BY <1>1, PatternsAssumption DEF Patterns, Or
<1>2. CASE text \notin DOMAIN ListOf
  <2>1. Patterns(text) = <<text>>
    BY <1>2 DEF Patterns, Or
  <2>2. <<text>> \in Seq(STRING)
    BY OneElement, Zenon
  <2>3. QED
    BY <2>1, <2>2
<1>3. QED
  BY <1>1, <1>2

\* A value that is stored: of the other options, each keeps its own, and so do
\* the patterns that there are.
LEMMA ValueStored ==
    ASSUME NEW p, Parsing(p), NEW key, NEW text, Patterns(text) \in Seq(STRING)
    PROVE  LET r == WithOption(p.args, key, text)
           IN  /\ r.switches = p.args.switches
               /\ key = "exclude" =>
                     r.values = p.args.values /\ r.exclude = p.args.exclude \o Patterns(text)
               /\ key # "exclude" =>
                     /\ DOMAIN r.values = {key} \cup DOMAIN p.args.values
                     /\ r.values[key] = Meaning(key, text)
                     /\ \A k \in DOMAIN p.args.values \ {key} :
                           r.values[k] = p.args.values[k]
                     /\ r.exclude = p.args.exclude
<1> DEFINE r == WithOption(p.args, key, text)
<1>1. PICK v, s, x : \E d \in Seq(STRING) :
         p = [args |-> [values |-> v, switches |-> s, exclude |-> d], next |-> x]
  BY DEF Parsing
<1>2. PICK e \in Seq(STRING) :
         p = [args |-> [values |-> v, switches |-> s, exclude |-> e], next |-> x]
  BY <1>1
<1>3. p.args = [values |-> v, switches |-> s, exclude |-> e]
  BY <1>2
<1>4. CASE key = "exclude"
  <2> DEFINE f == e \o Patterns(text)
  <2>1. r = [p.args EXCEPT !.exclude = p.args.exclude \o Patterns(text)]
    BY ONLY <1>4 DEF WithOption, Patterns
  <2>2. p.args.exclude = e
    BY <1>3
  <2>3. r = [p.args EXCEPT !.exclude = f]
    BY <2>1, <2>2
  <2> HIDE DEF f, r
  <2>4. r = [values |-> v, switches |-> s, exclude |-> f]
    BY <1>3, <2>3
  <2>5. QED
    BY <1>3, <1>4, <2>4 DEF r, f
<1>5. CASE key # "exclude"
  <2> DEFINE w == Over([k \in {key} |-> Meaning(key, text)], v)
  <2>1. r = [values |-> w, switches |-> s, exclude |-> e]
    BY <1>3, <1>5 DEF WithOption
  <2>2. /\ DOMAIN w = {key} \cup DOMAIN v /\ w[key] = Meaning(key, text)
        /\ \A k \in DOMAIN v \ {key} : w[k] = v[k]
    BY DEF Over
  <2> HIDE DEF w, r
  <2>3. QED
    BY <1>3, <1>5, <2>1, <2>2 DEF r
<1>6. QED
  BY <1>4, <1>5

\* What has taken a value is arguments still.
LEMMA StillParsing ==
    ASSUME NEW p, Parsing(p), NEW key, NEW text, Patterns(text) \in Seq(STRING)
    PROVE  Parsing([args |-> WithOption(p.args, key, text), next |-> "flag"])
<1> DEFINE r == WithOption(p.args, key, text)
<1>1. PICK v, s, x : \E d \in Seq(STRING) :
         p = [args |-> [values |-> v, switches |-> s, exclude |-> d], next |-> x]
  BY DEF Parsing
<1>2. PICK e \in Seq(STRING) :
         p = [args |-> [values |-> v, switches |-> s, exclude |-> e], next |-> x]
  BY <1>1
<1>3. p.args = [values |-> v, switches |-> s, exclude |-> e]
  BY <1>2
<1>4. PICK w : \E f \in Seq(STRING) : r = [values |-> w, switches |-> s, exclude |-> f]
  <2>1. CASE key = "exclude"
    <3>1. r = [p.args EXCEPT !.exclude = p.args.exclude \o Patterns(text)]
      BY ONLY <2>1 DEF WithOption, Patterns
    <3>2. p.args.exclude = e /\ e \o Patterns(text) \in Seq(STRING)
      BY <1>3
    <3>3. PICK f \in Seq(STRING) : f = p.args.exclude \o Patterns(text)
      BY <3>2
    <3>4. r = [p.args EXCEPT !.exclude = f]
      BY <3>1, <3>3
    <3> HIDE DEF r
    <3>5. r = [values |-> v, switches |-> s, exclude |-> f]
      BY <1>3, <3>4
    <3>6. QED
      BY <3>5
  <2>2. CASE key # "exclude"
    <3> DEFINE w == Over([k \in {key} |-> Meaning(key, text)], v)
    <3>1. r = [values |-> w, switches |-> s, exclude |-> e]
      BY <1>3, <2>2 DEF WithOption
    <3> HIDE DEF w, r
    <3>2. QED
      BY <3>1
  <2>3. QED
    BY <2>1, <2>2
<1> HIDE DEF r
<1>5. PICK f \in Seq(STRING) : r = [values |-> w, switches |-> s, exclude |-> f]
  BY <1>4
<1>6. PICK q : q = [args |-> r, next |-> "flag"]
  OBVIOUS
<1>7. q = [args |-> [values |-> w, switches |-> s, exclude |-> f], next |-> "flag"]
  BY <1>5, <1>6
<1>8. Parsing(q)
  BY <1>7 DEF Parsing
<1>9. QED
  BY <1>6, <1>8 DEF r

\* A token that is no mistake is a switch, or an option, or the value of the
\* option before it.
LEMMA TokenTaken ==
    ASSUME NEW p, Parsing(p), p.next # "error", NEW token \in STRING,
           TakeToken(p, token).next # "error"
    PROVE  LET q == TakeToken(p, token)
           IN  /\ Parsing(q)
               /\ \/ /\ p.next = "flag" /\ token \in DOMAIN Switches
                     /\ q.next = "flag" /\ q.args.values = p.args.values
                     /\ q.args.switches = p.args.switches \cup {Switches[token]}
                     /\ q.args.exclude = p.args.exclude
                  \/ /\ p.next = "flag" /\ token \in DOMAIN Options
                     /\ q.next = Options[token] /\ q.args = p.args
                  \/ /\ p.next # "flag"
                     /\ q = [args |-> WithOption(p.args, p.next, token), next |-> "flag"]
<1> DEFINE q == TakeToken(p, token)
<1>1. PICK v, s, x : \E d \in Seq(STRING) :
         p = [args |-> [values |-> v, switches |-> s, exclude |-> d], next |-> x]
  BY DEF Parsing
<1> PICK e \in Seq(STRING) :
       p = [args |-> [values |-> v, switches |-> s, exclude |-> e], next |-> x]
  BY <1>1
<1>2. Wrong(p).next = "error"
  BY <1>1 DEF Wrong
<1>3. CASE p.next = "flag" /\ token \in DOMAIN Switches
  <2>1. q = [p EXCEPT !.args.switches = @ \cup {Switches[token]}]
    BY <1>3, Words DEF TakeToken
  <2>2. q = [args |-> [values |-> v, switches |-> s \cup {Switches[token]}, exclude |-> e],
             next |-> "flag"]
    BY <1>1, <1>3, <2>1
  <2> HIDE DEF q
  <2>3. Parsing(q)
    BY <2>2 DEF Parsing
  <2>4. QED
    BY <1>1, <1>3, <2>2, <2>3 DEF q
<1>4. CASE p.next = "flag" /\ token \in DOMAIN Options /\ token \notin DOMAIN Switches
  <2>1. q = [p EXCEPT !.next = Options[token]]
    BY <1>4 DEF TakeToken
  <2>2. q = [args |-> p.args, next |-> Options[token]]
    BY <1>1, <2>1
  <2> HIDE DEF q
  <2>3. Parsing(q)
    BY <1>1, <2>2 DEF Parsing
  <2>4. QED
    BY <1>4, <2>2, <2>3 DEF q
<1>5. CASE p.next # "flag"
  <2>1. q = [args |-> WithOption(p.args, p.next, token), next |-> "flag"]
    BY <1>2, <1>5 DEF TakeToken
  <2>2. Parsing(q)
    BY <2>1, PatternsHold, StillParsing, Zenon
  <2> HIDE DEF q
  <2>3. QED
    BY <1>5, <2>1, <2>2, Zenon DEF q
<1>6. token \in DOMAIN Switches \/ token \in DOMAIN Options \/ p.next # "flag"
  BY <1>2 DEF TakeToken
<1>7. QED
  BY <1>3, <1>4, <1>5, <1>6

\* A line without a mistake had none after any of its tokens.
LEMMA NoMistake ==
    ASSUME NEW words \in Seq(STRING), TokensTaken(words)[Len(words)].next = "flag"
    PROVE  \A n \in 0..Len(words) : /\ Parsing(TokensTaken(words)[n])
                                    /\ TokensTaken(words)[n].next # "error"
<1> DEFINE L == Len(words)
           after == TokensTaken(words)
           right == {k \in 0..L : after[L - k].next # "error"}
           parsing == {n \in 0..L : Parsing(after[n])}
<1>1. L \in Nat /\ \A n \in 1..L : words[n] \in STRING
  OBVIOUS
<1>2. /\ after[0] = [args |-> NoArgs, next |-> "flag"]
      /\ \A n \in 1..L : after[n] = TakeToken(after[n - 1], words[n])
  BY <1>1, TokensTakenDef
<1> HIDE DEF L, after
<1>3. \A k \in 0..L : k \in right
  <2>1. 0 \in right
    BY <1>1 DEF after, L
  <2>2. ASSUME NEW k \in 0..L - 1, k \in right PROVE k + 1 \in right
    <3>1. /\ L - k \in 1..L /\ L - k - 1 = L - (k + 1) /\ k + 1 \in 0..L
      BY <1>1
    <3>2. after[L - k] = TakeToken(after[L - (k + 1)], words[L - k])
      BY <1>2, <3>1
    <3>3. CASE after[L - (k + 1)].next = "error"
      <4>1. after[L - k] = after[L - (k + 1)]
        BY <3>2, <3>3 DEF TakeToken
      <4>2. QED
        BY <2>2, <3>3, <4>1
    <3>4. QED
      BY <3>1, <3>3
  <2> HIDE DEF right
  <2>3. QED
    BY <1>1, <2>1, <2>2, Onward
<1>4. \A n \in 0..L : after[n].next # "error"
  <2>1. SUFFICES ASSUME NEW n \in 0..L PROVE after[n].next # "error"
    OBVIOUS
  <2>2. L - n \in 0..L /\ L - (L - n) = n
    BY <1>1
  <2>3. QED
    BY <1>3, <2>2
<1>5. \A n \in 0..L : n \in parsing
  <2>1. 0 \in parsing
    <3>1. after[0] = [args |-> [values |-> <<>>, switches |-> {}, exclude |-> <<>>],
                      next |-> "flag"]
      BY <1>2 DEF NoArgs
    <3>2. <<>> \in Seq(STRING)
      OBVIOUS
    <3>3. Parsing(after[0])
      BY ONLY <3>1, <3>2 DEF Parsing
    <3>4. QED
      BY <1>1, <3>3
  <2>2. ASSUME NEW n \in 0..L - 1, n \in parsing PROVE n + 1 \in parsing
    <3>1. n + 1 \in 1..L /\ n + 1 - 1 = n /\ n + 1 \in 0..L
      BY <1>1
    <3>2. after[n + 1] = TakeToken(after[n], words[n + 1]) /\ words[n + 1] \in STRING
      BY <1>1, <1>2, <3>1
    <3>3. Parsing(after[n]) /\ after[n].next # "error" /\ after[n + 1].next # "error"
      BY <1>4, <2>2, <3>1
    <3>4. Parsing(TakeToken(after[n], words[n + 1]))
      BY <3>2, <3>3, TokenTaken, Zenon
    <3>5. QED
      BY <3>1, <3>2, <3>4
  <2> HIDE DEF parsing
  <2>3. QED
    BY <1>1, <2>1, <2>2, Onward
<1>6. QED
  BY <1>4, <1>5 DEF after, L

\* The tokens that the loop looks at as flags, and those of them that are given
\* a value of the key within the first n tokens.
Flags(words) == {i \in 1..Len(words) : TokensTaken(words)[i - 1].next = "flag"}
GivenBy(words, key, n) ==
    {i \in Flags(words) : i < n /\ words[i] \in DOMAIN Options /\ Options[words[i]] = key}

\* What a token does to a line without a mistake.
LEMMA TokenStep ==
    ASSUME NEW words \in Seq(STRING), TokensTaken(words)[Len(words)].next = "flag",
           NEW n \in 1..Len(words)
    PROVE  LET p == TokensTaken(words)[n - 1]
               q == TokensTaken(words)[n]
           IN  \/ /\ n \in Flags(words) /\ words[n] \in DOMAIN Switches
                  /\ q.next = "flag" /\ q.args.values = p.args.values
                  /\ q.args.switches = p.args.switches \cup {Switches[words[n]]}
                  /\ q.args.exclude = p.args.exclude
               \/ /\ n \in Flags(words) /\ words[n] \in DOMAIN Options
                  /\ q.next = Options[words[n]] /\ q.args = p.args
               \/ /\ n \notin Flags(words)
                  /\ q = [args |-> WithOption(p.args, p.next, words[n]), next |-> "flag"]
<1> DEFINE p == TokensTaken(words)[n - 1]
           q == TokensTaken(words)[n]
<1>1. /\ n - 1 \in 0..Len(words) /\ n \in 0..Len(words) /\ n # 0 /\ words[n] \in STRING
      /\ Len(words) \in Nat
  OBVIOUS
<1>2. q = TakeToken(p, words[n])
  BY <1>1, TokensTakenDef
<1>3. Parsing(p) /\ p.next # "error" /\ q.next # "error"
  BY <1>1, NoMistake
<1>4. n \in Flags(words) <=> p.next = "flag"
  BY DEF Flags
<1> HIDE DEF p, q
<1>5. QED
  BY <1>1, <1>2, <1>3, <1>4, TokenTaken DEF p, q

\* A value is looked for after an option, and only then.
LEMMA ValueAfterOption ==
    ASSUME NEW words \in Seq(STRING), TokensTaken(words)[Len(words)].next = "flag",
           NEW n \in 1..Len(words)
    PROVE  /\ TokensTaken(words)[n].next = "flag" <=>
                 ~(n \in Flags(words) /\ words[n] \in DOMAIN Options)
           /\ n \in Flags(words) /\ words[n] \in DOMAIN Options =>
                 TokensTaken(words)[n].next = Options[words[n]]
<1> DEFINE p == TokensTaken(words)[n - 1]
           q == TokensTaken(words)[n]
           flag == n \in Flags(words)
<1>1. \/ flag /\ words[n] \in DOMAIN Switches /\ q.next = "flag"
      \/ flag /\ words[n] \in DOMAIN Options /\ q.next = Options[words[n]]
      \/ ~flag /\ q = [args |-> WithOption(p.args, p.next, words[n]), next |-> "flag"]
  BY TokenStep, Zenon
<1> HIDE DEF p, q, flag
<1>2. \/ flag /\ words[n] \in DOMAIN Switches /\ q.next = "flag"
      \/ flag /\ words[n] \in DOMAIN Options /\ q.next = Options[words[n]]
      \/ ~flag /\ q.next = "flag"
  BY <1>1
<1>3. QED
  BY <1>2, Words DEF q, flag

\* The first token is a flag, and every other one unless an option is before it.
LEMMA FlagsRule ==
    ASSUME NEW words \in Seq(STRING), TokensTaken(words)[Len(words)].next = "flag",
           NEW n \in 1..Len(words)
    PROVE  n \in Flags(words) <=>
              n = 1 \/ ~(n - 1 \in Flags(words) /\ words[n - 1] \in DOMAIN Options)
<1>1. Len(words) \in Nat
  OBVIOUS
<1>2. CASE n = 1
  <2>1. TokensTaken(words)[0] = [args |-> NoArgs, next |-> "flag"]
    BY <1>1, TokensTakenDef
  <2>2. QED
    BY <1>2, <2>1 DEF Flags
<1>3. CASE n # 1
  <2>1. n - 1 \in 1..Len(words)
    BY <1>1, <1>3
  <2>2. QED
    BY <1>3, <2>1, ValueAfterOption DEF Flags
<1>4. QED
  BY <1>2, <1>3

\* With each token, one more value is given, or none.
LEMMA GivenStep ==
    ASSUME NEW words \in Seq(STRING), TokensTaken(words)[Len(words)].next = "flag",
           NEW n \in 1..Len(words)
    PROVE  /\ n \in Flags(words) =>
                 \A key : GivenBy(words, key, n) = GivenBy(words, key, n - 1)
           /\ n \notin Flags(words) =>
                 \A key : GivenBy(words, key, n) =
                    IF key = TokensTaken(words)[n - 1].next
                    THEN GivenBy(words, key, n - 1) \cup {n - 1}
                    ELSE GivenBy(words, key, n - 1)
<1>1. \A i \in Flags(words) : i < n <=> i < n - 1 \/ i = n - 1
  BY DEF Flags
<1>2. ASSUME n \in Flags(words) PROVE ~(n - 1 \in Flags(words) /\ words[n - 1] \in DOMAIN Options)
  <2>1. n = 1 => n - 1 \notin Flags(words)
    BY DEF Flags
  <2>2. QED
    BY <1>2, <2>1, FlagsRule
<1>3. ASSUME n \notin Flags(words)
      PROVE  /\ n - 1 \in Flags(words) /\ words[n - 1] \in DOMAIN Options
             /\ TokensTaken(words)[n - 1].next = Options[words[n - 1]]
  <2>1. n # 1 /\ n - 1 \in Flags(words) /\ words[n - 1] \in DOMAIN Options
    BY <1>3, FlagsRule
  <2>2. n - 1 \in 1..Len(words)
    BY <2>1 DEF Flags
  <2>3. QED
    BY <2>1, <2>2, ValueAfterOption
<1>4. ~(n - 1 < n - 1)
  OBVIOUS
<1>5. ASSUME n \in Flags(words), NEW key
      PROVE  GivenBy(words, key, n) = GivenBy(words, key, n - 1)
  BY <1>1, <1>2, <1>5, Zenon DEF GivenBy
<1>6. ASSUME n \notin Flags(words), NEW key
      PROVE  GivenBy(words, key, n) =
                IF key = TokensTaken(words)[n - 1].next
                THEN GivenBy(words, key, n - 1) \cup {n - 1}
                ELSE GivenBy(words, key, n - 1)
  BY <1>1, <1>3, <1>6 DEF GivenBy
<1>7. QED
  BY <1>5, <1>6

\* The last of the values given for a key is the one that is kept, ...
ValueRead(words, n) ==
    LET values == TokensTaken(words)[n].args.values IN
    \A key : key # "exclude" =>
        \/ GivenBy(words, key, n) = {} /\ key \notin DOMAIN values
        \/ \E i \in GivenBy(words, key, n) :
              /\ \A j \in GivenBy(words, key, n) : j <= i
              /\ key \in DOMAIN values /\ values[key] = Meaning(key, words[i + 1])

\* ... a switch is on once it is there, ...
ResumeRead(words, n) ==
    "resume" \in TokensTaken(words)[n].args.switches <=>
        \E i \in Flags(words) : i <= n /\ words[i] = "--resume"

\* ... and patterns add up.
PatternsRead(words, n) ==
    \A i \in GivenBy(words, "exclude", n) :
        ToSet(Patterns(words[i + 1])) \subseteq ToSet(TokensTaken(words)[n].args.exclude)

\* What a concatenation holds.
LEMMA ConcatHolds ==
    ASSUME NEW s \in Seq(STRING), NEW t \in Seq(STRING)
    PROVE  ToSet(s) \subseteq ToSet(s \o t) /\ ToSet(t) \subseteq ToSet(s \o t)
<1>1. /\ Len(s) \in Nat /\ Len(t) \in Nat /\ s \o t \in Seq(STRING)
      /\ DOMAIN s = 1..Len(s) /\ DOMAIN t = 1..Len(t)
      /\ DOMAIN (s \o t) = 1..Len(s) + Len(t)
      /\ \A i \in 1..Len(s) : (s \o t)[i] = s[i]
      /\ \A i \in 1..Len(t) : (s \o t)[Len(s) + i] = t[i]
  OBVIOUS
<1>2. \A i \in DOMAIN s : i \in DOMAIN (s \o t) /\ (s \o t)[i] = s[i]
  BY <1>1
<1>3. \A i \in DOMAIN t : Len(s) + i \in DOMAIN (s \o t) /\ (s \o t)[Len(s) + i] = t[i]
  BY <1>1
<1>4. QED
  BY <1>2, <1>3, Zenon DEF ToSet

\* One more token, none of them a mistake.
LEMMA ReadStep ==
    ASSUME NEW words \in Seq(STRING), TokensTaken(words)[Len(words)].next = "flag",
           NEW n \in 1..Len(words),
           ValueRead(words, n - 1), ResumeRead(words, n - 1), PatternsRead(words, n - 1)
    PROVE  ValueRead(words, n) /\ ResumeRead(words, n) /\ PatternsRead(words, n)
<1> DEFINE p == TokensTaken(words)[n - 1]
           q == TokensTaken(words)[n]
           G(key) == GivenBy(words, key, n - 1)
           H(key) == GivenBy(words, key, n)
<1>1. /\ n - 1 \in 0..Len(words) /\ words[n] \in STRING /\ n \in Int
      /\ \A i \in Flags(words) : i \in Int /\ (i <= n <=> i <= n - 1 \/ i = n)
      /\ \A key : \A i \in G(key) : i <= n - 1
      /\ n - 1 <= n - 1 /\ n - 1 + 1 = n
  BY DEF Flags, GivenBy
<1>2. Parsing(p)
  BY <1>1, NoMistake
<1>3. \/ /\ n \in Flags(words) /\ words[n] \in DOMAIN Switches
         /\ q.next = "flag" /\ q.args.values = p.args.values
         /\ q.args.switches = p.args.switches \cup {Switches[words[n]]}
         /\ q.args.exclude = p.args.exclude
      \/ /\ n \in Flags(words) /\ words[n] \in DOMAIN Options
         /\ q.next = Options[words[n]] /\ q.args = p.args
      \/ /\ n \notin Flags(words)
         /\ q = [args |-> WithOption(p.args, p.next, words[n]), next |-> "flag"]
  BY TokenStep, Zenon
<1>4. /\ n \in Flags(words) => \A key : H(key) = G(key)
      /\ n \notin Flags(words) =>
            \A key : H(key) = IF key = p.next THEN G(key) \cup {n - 1} ELSE G(key)
  BY GivenStep, Zenon
<1>5. \A key : key # "exclude" =>
         \/ G(key) = {} /\ key \notin DOMAIN p.args.values
         \/ \E i \in G(key) : /\ \A j \in G(key) : j <= i
                              /\ key \in DOMAIN p.args.values
                              /\ p.args.values[key] = Meaning(key, words[i + 1])
  BY DEF ValueRead
<1>6. "resume" \in p.args.switches <=>
         \E i \in Flags(words) : i <= n - 1 /\ words[i] = "--resume"
  BY DEF ResumeRead
<1>7. \A i \in G("exclude") : ToSet(Patterns(words[i + 1])) \subseteq ToSet(p.args.exclude)
  BY DEF PatternsRead
<1>8. SUFFICES
        /\ \A key : key # "exclude" =>
              \/ H(key) = {} /\ key \notin DOMAIN q.args.values
              \/ \E i \in H(key) : /\ \A j \in H(key) : j <= i
                                   /\ key \in DOMAIN q.args.values
                                   /\ q.args.values[key] = Meaning(key, words[i + 1])
        /\ "resume" \in q.args.switches <=>
              \E i \in Flags(words) : i <= n /\ words[i] = "--resume"
        /\ \A i \in H("exclude") :
              ToSet(Patterns(words[i + 1])) \subseteq ToSet(q.args.exclude)
  BY DEF ValueRead, ResumeRead, PatternsRead
<1> HIDE DEF p, q, G, H
<1>9. CASE /\ n \in Flags(words) /\ words[n] \in DOMAIN Switches
           /\ q.args.values = p.args.values
           /\ q.args.switches = p.args.switches \cup {Switches[words[n]]}
           /\ q.args.exclude = p.args.exclude
  <2>1. \A key : H(key) = G(key)
    BY <1>4, <1>9
  <2>2. Switches[words[n]] = "resume" <=> words[n] = "--resume"
    BY <1>9, Words
  <2>3. "resume" \in q.args.switches <=>
              \E i \in Flags(words) : i <= n /\ words[i] = "--resume"
    BY <1>1, <1>6, <1>9, <2>2
  <2>4. QED
    BY <1>5, <1>7, <1>9, <2>1, <2>3, Zenon
<1>10. CASE n \in Flags(words) /\ words[n] \in DOMAIN Options /\ q.args = p.args
  <2>1. \A key : H(key) = G(key)
    BY <1>4, <1>10
  <2>2. words[n] # "--resume"
    BY <1>10, Words
  <2>3. "resume" \in q.args.switches <=>
              \E i \in Flags(words) : i <= n /\ words[i] = "--resume"
    BY <1>1, <1>6, <1>10, <2>2, Zenon
  <2>4. QED
    BY <1>5, <1>7, <1>10, <2>1, <2>3, Zenon
<1>11. CASE /\ n \notin Flags(words)
            /\ q = [args |-> WithOption(p.args, p.next, words[n]), next |-> "flag"]
  <2> DEFINE x == p.next
  <2>1. /\ \A key : key # x => H(key) = G(key)
        /\ H(x) = G(x) \cup {n - 1}
    BY <1>4, <1>11
  <2>2. /\ q.args.switches = p.args.switches
        /\ x = "exclude" => /\ q.args.values = p.args.values
                            /\ q.args.exclude = p.args.exclude \o Patterns(words[n])
        /\ x # "exclude" => /\ DOMAIN q.args.values = {x} \cup DOMAIN p.args.values
                            /\ q.args.values[x] = Meaning(x, words[n])
                            /\ \A k \in DOMAIN p.args.values \ {x} :
                                  q.args.values[k] = p.args.values[k]
                            /\ q.args.exclude = p.args.exclude
    <3>1. q.args = WithOption(p.args, x, words[n])
      BY <1>11
    <3>2. Patterns(words[n]) \in Seq(STRING)
      BY <1>1, PatternsHold, Zenon
    <3>3. PICK t : t = words[n]
      OBVIOUS
    <3> HIDE DEF x
    <3>4. Patterns(t) \in Seq(STRING)
      BY <3>2, <3>3
    <3>5. LET r == WithOption(p.args, x, t)
           IN  /\ r.switches = p.args.switches
               /\ x = "exclude" =>
                     r.values = p.args.values /\ r.exclude = p.args.exclude \o Patterns(t)
               /\ x # "exclude" =>
                     /\ DOMAIN r.values = {x} \cup DOMAIN p.args.values
                     /\ r.values[x] = Meaning(x, t)
                     /\ \A k \in DOMAIN p.args.values \ {x} :
                           r.values[k] = p.args.values[k]
                     /\ r.exclude = p.args.exclude
      BY <1>2, <3>4, ValueStored
    <3>6. QED
      BY <3>1, <3>3, <3>5
  <2> HIDE DEF x
  <2>3. "resume" \in q.args.switches <=>
              \E i \in Flags(words) : i <= n /\ words[i] = "--resume"
    BY <1>1, <1>6, <1>11, <2>2, Zenon
  <2>4. ASSUME NEW key, key # "exclude"
        PROVE  \/ H(key) = {} /\ key \notin DOMAIN q.args.values
               \/ \E i \in H(key) : /\ \A j \in H(key) : j <= i
                                    /\ key \in DOMAIN q.args.values
                                    /\ q.args.values[key] = Meaning(key, words[i + 1])
    <3>1. CASE key = x
      <4>1. n - 1 \in H(key) /\ \A j \in H(key) : j <= n - 1
        BY <1>1, <2>1, <3>1
      <4>2. /\ key \in DOMAIN q.args.values
            /\ q.args.values[key] = Meaning(key, words[n - 1 + 1])
        BY <1>1, <2>2, <2>4, <3>1
      <4>3. QED
        BY <4>1, <4>2, Zenon
    <3>2. CASE key # x
      <4>1. H(key) = G(key)
        BY <2>1, <3>2
      <4>2. /\ key \in DOMAIN q.args.values <=> key \in DOMAIN p.args.values
            /\ key \in DOMAIN p.args.values => q.args.values[key] = p.args.values[key]
        BY <2>2, <3>2, Zenon
      <4>3. QED
        BY <1>5, <2>4, <4>1, <4>2, Zenon
    <3>3. QED
      BY <3>1, <3>2
  <2>5. ASSUME NEW i \in H("exclude")
        PROVE  ToSet(Patterns(words[i + 1])) \subseteq ToSet(q.args.exclude)
    <3>1. CASE x # "exclude"
      BY <1>7, <2>1, <2>2, <2>5, <3>1, Zenon
    <3>2. CASE x = "exclude"
      <4>1. p.args.exclude \in Seq(STRING)
        BY <1>2 DEF Parsing
      <4>2. Patterns(words[n]) \in Seq(STRING)
        BY <1>1, PatternsHold
      <4>3. /\ ToSet(p.args.exclude) \subseteq ToSet(q.args.exclude)
            /\ ToSet(Patterns(words[n])) \subseteq ToSet(q.args.exclude)
        BY <2>2, <3>2, <4>1, <4>2, ConcatHolds
      <4>4. i \in G("exclude") \/ i = n - 1
        BY <2>1, <2>5, <3>2
      <4>5. CASE i = n - 1
        BY <1>1, <4>3, <4>5
      <4>6. CASE i \in G("exclude")
        BY <1>7, <4>3, <4>6
      <4>7. QED
        BY <4>4, <4>5, <4>6
    <3>3. QED
      BY <3>1, <3>2
  <2>6. QED
    BY <2>3, <2>4, <2>5
<1>12. QED
  BY <1>3, <1>9, <1>10, <1>11

\* All of the line.
LEMMA LineRead ==
    ASSUME NEW words \in Seq(STRING), TokensTaken(words)[Len(words)].next = "flag"
    PROVE  /\ ValueRead(words, Len(words)) /\ ResumeRead(words, Len(words))
           /\ PatternsRead(words, Len(words))
<1> DEFINE Read(n) == ValueRead(words, n) /\ ResumeRead(words, n) /\ PatternsRead(words, n)
           G == {n \in 0..Len(words) : Read(n)}
<1>1. Len(words) \in Nat
  OBVIOUS
<1>2. Read(0)
  <2>1. /\ \A key : GivenBy(words, key, 0) = {}
        /\ \A i \in Flags(words) : ~(i <= 0)
    BY DEF GivenBy, Flags
  <2>2. TokensTaken(words)[0] = [args |-> NoArgs, next |-> "flag"]
    BY <1>1, TokensTakenDef
  <2>3. /\ DOMAIN TokensTaken(words)[0].args.values = {}
        /\ TokensTaken(words)[0].args.switches = {}
    BY <2>2 DEF NoArgs
  <2>4. QED
    BY <2>1, <2>3, Zenon DEF ValueRead, ResumeRead, PatternsRead
<1>3. ASSUME NEW n \in 0..Len(words) - 1, n \in G PROVE n + 1 \in G
  <2>1. n + 1 \in 1..Len(words) /\ n + 1 \in 0..Len(words) /\ n + 1 - 1 = n
    BY <1>1
  <2>2. Read(n + 1)
    BY <1>3, <2>1, ReadStep
  <2>3. QED
    BY <2>1, <2>2
<1>4. 0 \in G
  BY <1>1, <1>2
<1>5. \A n \in 0..Len(words) : n \in G
  <2> HIDE DEF G
  <2>1. QED
    BY <1>1, <1>3, <1>4, Onward
<1>6. QED
  BY <1>1, <1>5

\* The flags of the property are those that the loop has looked at.
LEMMA FlagsAgree ==
    ASSUME argv \in Seq(STRING), TokensTaken(argv)[Len(argv)].next = "flag"
    PROVE  FlagAt = Flags(argv)
<1> DEFINE L == Len(argv)
           Rule(f) == [i \in 1..L |-> i = 1 \/ ~(f[i - 1] /\ argv[i - 1] \in DOMAIN Options)]
           f0 == [i \in 1..L |-> i \in Flags(argv)]
           flag == CHOOSE f : f = Rule(f)
           G == {i \in 0..L : i # 0 => (flag[i] <=> i \in Flags(argv))}
<1>1. L \in Nat
  OBVIOUS
<1> HIDE DEF L
<1>2. ASSUME NEW i \in 1..L
      PROVE  i \in Flags(argv) <=>
                i = 1 \/ ~(i - 1 \in Flags(argv) /\ argv[i - 1] \in DOMAIN Options)
  BY FlagsRule DEF L
<1>3. f0 = Rule(f0)
  <2>1. ASSUME NEW i \in 1..L
        PROVE  (i \in Flags(argv))
                  = (i = 1 \/ ~(f0[i - 1] /\ argv[i - 1] \in DOMAIN Options))
    <3>1. CASE i = 1
      BY <1>2, <3>1
    <3>2. CASE i # 1
      <4>1. i - 1 \in 1..L
        BY <1>1, <3>2
      <4>2. f0[i - 1] = (i - 1 \in Flags(argv))
        BY <4>1
      <4> HIDE DEF f0
      <4>3. f0[i - 1] <=> i - 1 \in Flags(argv)
        BY <4>2
      <4>4. i \in Flags(argv) <=> i = 1 \/ ~(f0[i - 1] /\ argv[i - 1] \in DOMAIN Options)
        BY <1>2, <4>3, Zenon
      <4>5. QED
        BY <4>4
    <3>3. QED
      BY <3>1, <3>2
  <2>2. QED
    BY <2>1, Zenon
<1>4. flag = Rule(flag)
  <2> HIDE DEF Rule, f0
  <2>1. \E f : f = Rule(f)
    BY <1>3
  <2>2. QED
    BY <2>1
<1>5. \A i \in 1..L : flag[i] = (i = 1 \/ ~(flag[i - 1] /\ argv[i - 1] \in DOMAIN Options))
  <2> HIDE DEF flag
  <2>1. QED
    BY <1>4
<1> HIDE DEF flag
<1>6. 0 \in G
  BY <1>1
<1>7. ASSUME NEW i \in 0..L - 1, i \in G PROVE i + 1 \in G
  <2>1. i + 1 \in 1..L /\ i + 1 \in 0..L /\ i + 1 - 1 = i
    BY <1>1
  <2>2. flag[i + 1] = (i + 1 = 1 \/ ~(flag[i] /\ argv[i] \in DOMAIN Options))
    BY <1>5, <2>1
  <2>3. i + 1 \in Flags(argv) <=>
           i + 1 = 1 \/ ~(i \in Flags(argv) /\ argv[i] \in DOMAIN Options)
    BY <1>2, <2>1
  <2>4. CASE i = 0
    <3>1. i + 1 = 1
      BY <2>4
    <3>2. flag[i + 1] /\ i + 1 \in Flags(argv)
      BY <2>2, <2>3, <3>1, Zenon
    <3>3. QED
      BY <2>1, <3>2
  <2>5. CASE i # 0
    <3>1. flag[i] <=> i \in Flags(argv)
      BY <1>7, <2>5
    <3>2. flag[i + 1] <=> i + 1 \in Flags(argv)
      BY <2>2, <2>3, <3>1, Zenon
    <3>3. QED
      BY <2>1, <3>2
  <2>6. QED
    BY <2>4, <2>5
<1>8. \A i \in 0..L : i \in G
  <2> HIDE DEF G
  <2>1. QED
    BY <1>1, <1>6, <1>7, Onward
<1>9. \A i \in 1..L : flag[i] <=> i \in Flags(argv)
  BY <1>1, <1>8
<1>10. FlagAt = {i \in 1..L : flag[i]}
  BY DEF FlagAt, flag, L
<1>11. QED
  BY <1>9, <1>10 DEF Flags, L

\* What a launch is configured with, key by key.
LEMMA ConfiguredValue ==
    ASSUME NEW a, NEW key \in DOMAIN Defaults \ {"schemaOwner"}
    PROVE  ConfigOf(a)[key] =
              IF key \in DOMAIN a.values THEN a.values[key]
              ELSE IF key \in DOMAIN FileOf(a).values THEN FileOf(a).values[key]
              ELSE Defaults[key]
<1>1. key \in {"connectString", "username", "outputDir", "threads", "logLevel", "sampleSize"}
  BY DEF Defaults
<1>2. ConfigOf(a)[key] = Merged(a)[key]
  <2>1. /\ ConfigOf(a).connectString = Merged(a).connectString
        /\ ConfigOf(a).username = Merged(a).username
        /\ ConfigOf(a).outputDir = Merged(a).outputDir
        /\ ConfigOf(a).threads = Merged(a).threads
        /\ ConfigOf(a).logLevel = Merged(a).logLevel
        /\ ConfigOf(a).sampleSize = Merged(a).sampleSize
    BY DEF ConfigOf
  <2>2. QED
    BY <1>1, <2>1
<1>3. Merged(a)[key] =
              IF key \in DOMAIN a.values THEN a.values[key]
              ELSE IF key \in DOMAIN FileOf(a).values THEN FileOf(a).values[key]
              ELSE Defaults[key]
  BY DEF Merged, Over
<1>4. QED
  BY <1>2, <1>3

\* The patterns of a file are strings.
LEMMA FilePatterns == ASSUME NEW a PROVE FileOf(a).exclude \in Seq(STRING)
<1>1. NoFile.exclude = <<>> /\ [NoFile EXCEPT !.json = FALSE].exclude = <<>>
  BY DEF NoFile
<1>2. <<>> \in Seq(STRING)
  OBVIOUS
<1>3. CASE "configPath" \in DOMAIN a.values /\ a.values.configPath \in DOMAIN Files
  BY <1>3, PatternsAssumption DEF FileOf, Or
<1>4. CASE ~("configPath" \in DOMAIN a.values /\ a.values.configPath \in DOMAIN Files)
  <2>1. FileOf(a) \in {NoFile, [NoFile EXCEPT !.json = FALSE]}
    BY <1>4, Zenon DEF FileOf, Or
  <2>2. QED
    BY <1>1, <1>2, <2>1
<1>5. QED
  BY <1>3, <1>4

------------------------------------------------------------------------------
(* Theorems *)

\* In every behaviour of the program, over any number of launches: types are
\* kept, reports are whole and lie beside a run on record, a launch changes
\* nothing before its time, and what it writes is its own.
THEOREM Invariance == Spec => []InductiveInvariant
<1>1. Init => InductiveInvariant
  <2> SUFFICES ASSUME Init PROVE InductiveInvariant
    OBVIOUS
  <2>2. EmptyDir \in Dir
    BY DEF EmptyDir, Dir
  <2>3. \A r \in ReportNames : EmptyDir.file[r] = {}
    BY DEF EmptyDir
  <2>4. TypeOK
    BY <2>2, ProgramAssumption DEF Init, TypeOK
  <2>5. LaunchInv
    BY DEF Init, LaunchInv
  <2>6. \A d \in Dirs, r \in ReportNames : disk[d].file[r] = {}
    BY <2>3 DEF Init
  <2>7. disk = before /\ place = "off"
    BY DEF Init
  <2>8. FilesInv
    BY <2>6, <2>7 DEF FilesInv
  <2>9. TraceInv
    BY <2>7 DEF TraceInv
  <2>10. OwnInv
    BY <2>7 DEF OwnInv
  <2>11. QED
    BY <2>4, <2>5, <2>8, <2>9, <2>10 DEF InductiveInvariant
<1>2. InductiveInvariant /\ [Next]_vars => InductiveInvariant'
  BY TypeStep, LaunchStep, FilesStep, TraceStep, OwnStep DEF InductiveInvariant
<1>3. QED
  BY <1>1, <1>2, PTL DEF Spec

\* main.cpp: a launch that is refused, or gets no session, leaves no trace in an
\* output directory, or at most a log file and an empty store.
THEOREM RefusalsLeaveNoTrace == Spec => []RefusedLeavesNoTrace
<1>1. InductiveInvariant => RefusedLeavesNoTrace
  BY Zenon DEF InductiveInvariant, TraceInv, RefusedLeavesNoTrace
<1>2. QED
  BY <1>1, Invariance, PTL

\* JsonReportWriter.cpp: wherever launches are killed, no report is ever found
\* that is not written to its end, and none ever goes back to an older launch's.
\* What a full disk took of it is all that the writer knows as its end.
THEOREM ReportsStayAsWritten == Spec => []ReportsAsWritten
<1>1. InductiveInvariant => ReportsAsWritten
  BY Zenon DEF InductiveInvariant, FilesInv, ReportsAsWritten
<1>2. QED
  BY <1>1, Invariance, PTL

\* main.cpp: an exit code of 0 or 130 comes with both reports of this launch, of
\* the status that the code stands for.
THEOREM ExitCodesAreTrue == Spec => []ExitMeansReports
<1>1. InductiveInvariant => ExitMeansReports
  <2>1. SUFFICES ASSUME InductiveInvariant, exit \in {"0", "130"}, place = "summary",
                        NEW r \in ReportNames
                 PROVE  \E f \in dir.file[r] :
                           /\ f.launch = launch
                           /\ f.status = IF exit = "0" THEN "completed" ELSE "interrupted"
    BY DEF ExitMeansReports
  <2>2. PICK o \in Dirs : o = cfg.outputDir
    BY <2>1, OwnDirectory DEF InductiveInvariant
  <2>3. PICK f \in disk[o].file[r] : f.launch = launch
    BY <2>1, <2>2 DEF InductiveInvariant, OwnInv, dir
  <2>4. f.status = status
    BY <2>1, <2>3 DEF InductiveInvariant, OwnInv
  <2>5. status = IF exit = "0" THEN "completed" ELSE "interrupted"
    BY <2>1 DEF InductiveInvariant, TypeOK, LaunchInv
  <2>6. QED
    BY <2>2, <2>3, <2>4, <2>5 DEF dir
<1>2. QED
  BY <1>1, Invariance, PTL

\* README:83, Config.hpp:27-29: in every behaviour, whatever the command lines
\* and the files, the last value on the command line wins over the file's, and
\* that over the default.
THEOREM LastValueWins == Spec => []CommandLineWins
<1>1. InductiveInvariant => CommandLineWins
  <2>1. SUFFICES ASSUME InductiveInvariant, NEW c \in config
                 PROVE  LET a == CHOOSE x \in args : TRUE
                            file == FileOf(a).values
                        IN  /\ \A i \in FlagAt : \/ argv[i] \in DOMAIN Switches
                                                 \/ argv[i] \in DOMAIN Options /\ i < Len(argv)
                            /\ \A key \in DOMAIN Defaults \ {"schemaOwner"} :
                                  c[key] = IF Given(key) # {}
                                           THEN Meaning(key, argv[Latest(Given(key)) + 1])
                                           ELSE IF key \in DOMAIN file THEN file[key]
                                           ELSE Defaults[key]
                            /\ (c.resume <=> \E i \in FlagAt : argv[i] = "--resume")
                            /\ \A i \in Given("exclude") :
                                  ToSet(Or(ListOf, argv[i + 1], <<argv[i + 1]>>))
                                     \subseteq ToSet(c.exclude)
    BY DEF CommandLineWins
  <2> DEFINE a == CHOOSE x \in args : TRUE
             L == Len(argv)
  <2>2. argv \in Seq(STRING)
    <3>1. argv \in CommandLines \/ argv = <<>>
      BY <2>1 DEF InductiveInvariant, TypeOK
    <3>2. CASE argv \in CommandLines
      BY <3>2, CommandLinesAssumption, Zenon
    <3>3. CASE argv = <<>>
      BY <3>3
    <3>4. QED
      BY <3>1, <3>2, <3>3
  <2>3. L \in Nat /\ \A i \in 1..L : argv[i] \in STRING
    BY <2>2
  <2>4. /\ args # {} /\ args = ParseCliArgs(argv) /\ config = {ConfigOf(x) : x \in args}
    BY <2>1 DEF InductiveInvariant, LaunchInv
  <2>5. /\ TokensTaken(argv)[L].next = "flag"
        /\ args = {TokensTaken(argv)[L].args}
    BY <2>4 DEF ParseCliArgs
  <2>6. a = TokensTaken(argv)[L].args /\ c = ConfigOf(a)
    BY <2>1, <2>4, <2>5
  <2>7. FlagAt = Flags(argv)
    BY <2>2, <2>5, FlagsAgree
  <2>8. \A i \in Flags(argv) : /\ i \in 1..L
                               /\ \/ argv[i] \in DOMAIN Switches
                                  \/ argv[i] \in DOMAIN Options /\ i < L
    <3>1. SUFFICES ASSUME NEW i \in Flags(argv)
                   PROVE  /\ i \in 1..L
                          /\ \/ argv[i] \in DOMAIN Switches
                             \/ argv[i] \in DOMAIN Options /\ i < L
      OBVIOUS
    <3>2. i \in 1..L
      BY DEF Flags
    <3>3. argv[i] \in DOMAIN Switches \/ argv[i] \in DOMAIN Options
      BY <2>2, <2>5, <3>2, TokenStep
    <3>4. CASE i = L
      <4>1. ~(i \in Flags(argv) /\ argv[i] \in DOMAIN Options)
        BY <2>2, <2>5, <3>2, <3>4, ValueAfterOption
      <4>2. QED
        BY <3>2, <3>3, <4>1
    <3>5. CASE i # L
      BY <2>3, <3>2, <3>3, <3>5
    <3>6. QED
      BY <3>4, <3>5
  <2>9. \A key : Given(key) = GivenBy(argv, key, L)
    <3>1. ASSUME NEW key, NEW i \in Flags(argv), argv[i] \in DOMAIN Options PROVE i < L
      BY <2>8, <3>1, Words
    <3>2. QED
      BY <2>7, <3>1, Zenon DEF Given, GivenBy
  <2>10. ValueRead(argv, L) /\ ResumeRead(argv, L) /\ PatternsRead(argv, L)
    BY <2>2, <2>5, LineRead
  <2> HIDE DEF a, L
  <2>11. ASSUME NEW key \in DOMAIN Defaults \ {"schemaOwner"}
         PROVE  c[key] = IF Given(key) # {} THEN Meaning(key, argv[Latest(Given(key)) + 1])
                         ELSE IF key \in DOMAIN FileOf(a).values THEN FileOf(a).values[key]
                         ELSE Defaults[key]
    <3>1. c[key] = IF key \in DOMAIN a.values THEN a.values[key]
                   ELSE IF key \in DOMAIN FileOf(a).values THEN FileOf(a).values[key]
                   ELSE Defaults[key]
      BY <2>6, ConfiguredValue
    <3>2. key # "exclude"
      BY DEF Defaults
    <3>3. \/ Given(key) = {} /\ key \notin DOMAIN a.values
          \/ \E i \in Given(key) :
                /\ \A j \in Given(key) : j <= i
                /\ key \in DOMAIN a.values /\ a.values[key] = Meaning(key, argv[i + 1])
      BY <2>6, <2>9, <2>10, <3>2 DEF ValueRead
    <3>4. CASE Given(key) = {} /\ key \notin DOMAIN a.values
      BY <3>1, <3>4
    <3>5. ASSUME NEW i \in Given(key), \A j \in Given(key) : j <= i,
                 key \in DOMAIN a.values, a.values[key] = Meaning(key, argv[i + 1])
          PROVE  c[key] = IF Given(key) # {} THEN Meaning(key, argv[Latest(Given(key)) + 1])
                          ELSE IF key \in DOMAIN FileOf(a).values THEN FileOf(a).values[key]
                          ELSE Defaults[key]
      <4>1. \A j \in Given(key) : j \in Int
        BY <2>7, <2>8 DEF Given
      <4>2. /\ Latest(Given(key)) \in Given(key)
            /\ \A j \in Given(key) : j <= Latest(Given(key))
        BY <3>5 DEF Latest
      <4>3. Latest(Given(key)) = i
        BY <3>5, <4>1, <4>2
      <4>4. QED
        BY <3>1, <3>5, <4>3
    <3>6. QED
      BY <3>3, <3>4, <3>5, Zenon
  <2>12. c.resume <=> \E i \in FlagAt : argv[i] = "--resume"
    <3>1. c.resume = ("resume" \in a.switches)
      BY <2>6 DEF ConfigOf
    <3>2. "resume" \in a.switches <=> \E i \in FlagAt : i <= L /\ argv[i] = "--resume"
      BY <2>6, <2>7, <2>10 DEF ResumeRead
    <3>3. \A i \in FlagAt : i <= L
      BY <2>3, <2>7, <2>8
    <3>4. "resume" \in a.switches <=> \E i \in FlagAt : argv[i] = "--resume"
      BY <3>2, <3>3, Zenon
    <3>5. QED
      BY <3>1, <3>4, Zenon
  <2>13. ASSUME NEW i \in Given("exclude")
         PROVE  ToSet(Or(ListOf, argv[i + 1], <<argv[i + 1]>>)) \subseteq ToSet(c.exclude)
    <3>1. ToSet(Patterns(argv[i + 1])) \subseteq ToSet(a.exclude)
      BY <2>6, <2>9, <2>10 DEF PatternsRead
    <3>2. L \in 0..L
      BY <2>3
    <3>3. Parsing(TokensTaken(argv)[L])
      BY <2>2, <2>5, <3>2, NoMistake DEF L
    <3>4. a.exclude \in Seq(STRING)
      BY <2>6, <3>3 DEF Parsing
    <3>5. c.exclude = FileOf(a).exclude \o a.exclude
      BY <2>6 DEF ConfigOf
    <3>6. ToSet(a.exclude) \subseteq ToSet(c.exclude)
      BY <3>4, <3>5, FilePatterns, ConcatHolds
    <3>7. QED
      BY <3>1, <3>6 DEF Patterns
  <2>14. QED
    BY <2>7, <2>8, <2>11, <2>12, <2>13 DEF a, L
<1>2. QED
  BY <1>1, Invariance, PTL

\* main.cpp: no step replaces a report of an earlier launch unless the launch
\* that takes it was given --resume.
THEOREM OnlyResumeReplaces == Spec => ReplacedOnlyOnResume
<1> DEFINE Replaces == \A d \in Dirs, r \in ReportNames :
              disk[d].file[r] # {} /\ disk'[d].file[r] # disk[d].file[r] =>
                  \/ cfg.resume
                  \/ \A f \in disk[d].file[r] : f.launch = launch
<1>1. InductiveInvariant /\ [Next]_vars => Replaces
  <2>1. SUFFICES ASSUME InductiveInvariant, [Next]_vars PROVE Replaces
    OBVIOUS
  <2>2. TypeOK /\ LaunchInv /\ OwnInv
    BY <2>1 DEF InductiveInvariant
  <2>3. CASE \E words \in CommandLines : Launch(words)
    BY <2>3 DEF Launch
  <2>4. CASE Quiet
    BY <2>4, QuietSteps
  <2>5. CASE Careful
    BY <2>2, <2>5, CarefulSteps DEF FilesKept
  <2>6. CASE Rename
    <3>1. \A d \in Dirs, r \in ReportNames :
             disk'[d].file[r] # disk[d].file[r] => d = cfg.outputDir
      BY <2>2, <2>6, RenameStep
    <3>2. \/ cfg.resume
          \/ \A r \in ReportNames : \A f \in dir.file[r] : f.launch = launch
      BY <2>2, <2>6 DEF Rename, Running, OwnInv
    <3>3. QED
      BY <3>1, <3>2, Zenon DEF dir
  <2>7. CASE UNCHANGED vars
    BY <2>7 DEF vars
  <2>8. QED
    BY <2>1, <2>3, <2>4, <2>5, <2>6, <2>7, StepKinds
<1>2. QED
  BY <1>1, Invariance, PTL DEF Spec, ReplacedOnlyOnResume

==============================================================================
