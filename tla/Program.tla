-------------------------------- MODULE Program --------------------------------
(***************************************************************************)
(* A launch of the program from its command line to its exit code          *)
(* (src/src/app/main.cpp): what it refuses, what it leaves in the output   *)
(* directory, and the two reports (src/src/report/JsonReportWriter.cpp).    *)
(*                                                                         *)
(* The scan itself is ScanEngine's: here it returns a status or throws.    *)
(* Launches follow each other; any of them may be killed at any point.     *)
(***************************************************************************)
EXTENDS CommandLine

CONSTANTS
    CommandLines,  \* the command lines launches are given
    Dirs,          \* the output directories these and the files name
    DiskMayFill,   \* a file may get less than is written to it
    MaxLaunches    \* bound

ASSUME ProgramAssumption == MaxLaunches \in Nat /\ DiskMayFill \in BOOLEAN

\* argv is strings.
ASSUME CommandLinesAssumption == CommandLines \subseteq Seq(STRING)

\* Dirs has the directories that are named; parseInt() returns an int, and so
\* does the JSON reader where a file has a number.
ASSUME ConfigAssumption ==
    \A words \in CommandLines : \A a \in ParseCliArgs(words) :
        ~FileRefused(a) /\ ~FileMistyped(a) =>
            /\ Merged(a).outputDir \in Dirs
            /\ {Merged(a).threads, Merged(a).sampleSize} \subseteq Int

VARIABLES
    launch,  \* which launch this is
    place,   \* where it is, or was when it ended
    exit,    \* its exit code, or "none" while it runs
    argv,    \* its command line
    args,    \* CliArgs, once they are parsed
    config,  \* Config, once it is made
    status,  \* of the ScanResult
    disk,    \* the output directories
    before   \* history: the disk as the launch found it

vars == <<launch, place, exit, argv, args, config, status, disk, before>>

Reports == <<"schema", "consistency">>
ReportNames == {"schema", "consistency"}

\* The log file, the state of checkpoint.db, and each report with its .tmp.
EmptyDir == [logs |-> FALSE, store |-> "none",
             file |-> [r \in ReportNames |-> {}], tmp |-> [r \in ReportNames |-> {}]]

Places == {"off", "parse", "config", "logger", "password", "store", "connect",
           "run", "scan", "openTmp", "write", "rename", "summary"}

Statuses == {"completed", "interrupted"}

\* The bytes of a file: all that were meant, some of them, or those that went
\* onto a full disk.
Content == [launch : 1..MaxLaunches, status : Statuses, bytes : {"all", "some", "full"}]

\* What a file holds once its writer is through with it.
AsWritten(bytes) == bytes = "all" \/ (DiskMayFill /\ bytes = "full")

Dir == [logs : BOOLEAN, store : {"none", "fresh", "run"},
        file : [ReportNames -> SUBSET Content], tmp : [ReportNames -> SUBSET Content]]

\* The type of every variable.
TypeOK ==
    /\ launch \in 0..MaxLaunches
    /\ place \in Places
    /\ exit \in {"none", "0", "1", "130", "abort", "killed"}
    /\ argv \in CommandLines \cup {<<>>}
    /\ \A c \in config : c.outputDir \in Dirs /\ c.threads >= 1 /\ c.sampleSize >= 0
    /\ status \in Statuses
    /\ disk \in [Dirs -> Dir] /\ before \in [Dirs -> Dir]

Init ==
    /\ launch = 0 /\ place = "off" /\ exit = "0"
    /\ argv = <<>> /\ args = {} /\ config = {} /\ status = "interrupted"
    /\ disk = [d \in Dirs |-> EmptyDir] /\ before = disk

Running(here) == exit = "none" /\ place = here

\* The launch goes on, or ends where it is.
GoesOn(there) == place' = there /\ UNCHANGED exit
Ends(code) == exit' = code /\ UNCHANGED place

Launch(words) ==
    /\ exit # "none" /\ launch < MaxLaunches
    /\ launch' = launch + 1
    /\ argv' = words /\ args' = {} /\ config' = {} /\ status' = "interrupted"
    /\ place' = "parse" /\ exit' = "none"
    /\ before' = disk /\ UNCHANGED disk

Kill ==
    /\ exit = "none"
    /\ Ends("killed")
    /\ UNCHANGED <<launch, argv, args, config, status, disk, before>>

------------------------------------------------------------------------------
(* main() up to runScan() *)

\* --help and --version end the launch, but only if all of the line is right.
Parse ==
    /\ Running("parse")
    /\ args' = ParseCliArgs(argv)
    /\ IF args' = {} THEN Ends("1")
       ELSE IF \E a \in args' : a.switches \cap {"showHelp", "showVersion"} # {}
            THEN Ends("0") ELSE GoesOn("config")
    /\ UNCHANGED <<launch, argv, config, status, disk, before>>

Configure ==
    /\ Running("config")
    /\ \E a \in args :
          \/ /\ FileRefused(a)
             /\ Ends("1") /\ UNCHANGED config
          \/ /\ ~FileRefused(a) /\ FileMistyped(a)
             /\ Ends("abort") /\ UNCHANGED config
          \/ /\ ~FileRefused(a) /\ ~FileMistyped(a) /\ ConfigRefused(a)
             /\ Ends("1") /\ UNCHANGED config
          \/ /\ ~FileRefused(a) /\ ~FileMistyped(a) /\ ~ConfigRefused(a)
             /\ GoesOn("logger") /\ config' = {ConfigOf(a)}
    /\ UNCHANGED <<launch, argv, args, status, disk, before>>

\* The configuration that has been made.
cfg == CHOOSE c \in config : TRUE
dir == disk[cfg.outputDir]

\* initLogger(): the log file cannot be opened, or it can.
InitLogger ==
    /\ Running("logger")
    /\ \/ Ends("abort") /\ UNCHANGED disk
       \/ /\ GoesOn("password")
          /\ disk' = [disk EXCEPT ![cfg.outputDir].logs = TRUE]
    /\ UNCHANGED <<launch, argv, args, config, status, before>>

\* resolvePassword(): neither the environment nor a terminal has one.
ResolvePassword ==
    /\ Running("password")
    /\ Ends("1") \/ GoesOn("store")
    /\ UNCHANGED <<launch, argv, args, config, status, disk, before>>

------------------------------------------------------------------------------
(* runScan() *)

\* A mistake the runs must notice: an earlier run is no hindrance.
OpenStoreAnyway ==
    /\ Running("store")
    /\ GoesOn("connect")
    /\ disk' = [disk EXCEPT ![cfg.outputDir].store = IF @ = "none" THEN "fresh" ELSE @]
    /\ UNCHANGED <<launch, argv, args, config, status, before>>

\* A mistake the runs must notice: without --resume the store is emptied.
OpenStoreEmptied ==
    /\ Running("store")
    /\ GoesOn("connect")
    /\ disk' = [disk EXCEPT ![cfg.outputDir].store =
                  IF @ = "none" \/ ~cfg.resume THEN "fresh" ELSE @]
    /\ UNCHANGED <<launch, argv, args, config, status, before>>

\* checkpoint.db cannot be opened, or is; one with a run of its own needs
\* --resume.
OpenStore ==
    /\ Running("store")
    /\ \/ Ends("1") /\ UNCHANGED disk
       \/ /\ IF dir.store = "run" /\ ~cfg.resume THEN Ends("1") ELSE GoesOn("connect")
          /\ disk' = [disk EXCEPT ![cfg.outputDir].store = IF @ = "none" THEN "fresh" ELSE @]
    /\ UNCHANGED <<launch, argv, args, config, status, before>>

\* OracleError, or all sessions are open.
Connect ==
    /\ Running("connect")
    /\ Ends("1") \/ GoesOn("run")
    /\ UNCHANGED <<launch, argv, args, config, status, disk, before>>

\* run() writes run_info, ...
BeginRun ==
    /\ Running("run")
    /\ \/ Ends("1") /\ UNCHANGED disk
       \/ /\ GoesOn("scan")
          /\ disk' = [disk EXCEPT ![cfg.outputDir].store = "run"]
    /\ UNCHANGED <<launch, argv, args, config, status, before>>

\* ... and returns a result or throws.
Scan ==
    /\ Running("scan")
    /\ \/ Ends("1") /\ UNCHANGED status
       \/ GoesOn("openTmp") /\ status' \in Statuses
    /\ UNCHANGED <<launch, argv, args, config, disk, before>>

\* The report that is being written: schema.json comes first.
Report == IF \E f \in dir.file["schema"] : f.launch = launch
          THEN "consistency" ELSE "schema"

SetTmp(bytes) ==
    disk' = [disk EXCEPT ![cfg.outputDir].tmp[Report] =
                {[launch |-> launch, status |-> status, bytes |-> bytes]}]

\* A mistake the runs must notice: the report is written where it is read.
OpenInPlace ==
    /\ Running("openTmp")
    /\ \/ Ends("1") /\ UNCHANGED disk
       \/ /\ GoesOn("write")
          /\ disk' = [disk EXCEPT
                ![cfg.outputDir].file[Report] =
                    {[launch |-> launch, status |-> status, bytes |-> "some"]},
                ![cfg.outputDir].tmp[Report] =
                    {[launch |-> launch, status |-> status, bytes |-> "some"]}]
    /\ UNCHANGED <<launch, argv, args, config, status, before>>

\* writeJsonFile() creates the temporary file, or cannot, ...
OpenTmp ==
    /\ Running("openTmp")
    /\ \/ Ends("1") /\ UNCHANGED disk
       \/ GoesOn("write") /\ SetTmp("some")
    /\ UNCHANGED <<launch, argv, args, config, status, before>>

\* ... writes and closes it, without asking the stream what became of it, or
\* finds text in the result that is not UTF-8, ...
Write ==
    /\ Running("write")
    /\ \/ GoesOn("rename") /\ SetTmp("all")
       \/ GoesOn("rename") /\ DiskMayFill /\ SetTmp("full")
       \/ Ends("1") /\ UNCHANGED disk
    /\ UNCHANGED <<launch, argv, args, config, status, before>>

\* A mistake the runs must notice: one report is enough.
RenameOnce ==
    /\ Running("rename")
    /\ \/ Ends("1") /\ UNCHANGED disk
       \/ /\ GoesOn("summary")
          /\ disk' = [disk EXCEPT ![cfg.outputDir].file[Report] = dir.tmp[Report],
                                  ![cfg.outputDir].tmp[Report] = {}]
    /\ UNCHANGED <<launch, argv, args, config, status, before>>

\* ... and renames it.
Rename ==
    /\ Running("rename")
    /\ \/ Ends("1") /\ UNCHANGED disk
       \/ /\ GoesOn(IF Report = "schema" THEN "openTmp" ELSE "summary")
          /\ disk' = [disk EXCEPT ![cfg.outputDir].file[Report] = dir.tmp[Report],
                                  ![cfg.outputDir].tmp[Report] = {}]
    /\ UNCHANGED <<launch, argv, args, config, status, before>>

\* printSummary() may fail to write; otherwise the status is the exit code.
Summary ==
    /\ Running("summary")
    /\ Ends("1") \/ Ends(IF status = "interrupted" THEN "130" ELSE "0")
    /\ UNCHANGED <<launch, argv, args, config, status, disk, before>>

Next ==
    \/ \E words \in CommandLines : Launch(words)
    \/ Kill
    \/ Parse \/ Configure \/ InitLogger \/ ResolvePassword
    \/ OpenStore \/ Connect \/ BeginRun \/ Scan
    \/ OpenTmp \/ Write \/ Rename \/ Summary
    \/ exit # "none" /\ launch = MaxLaunches /\ UNCHANGED vars

Spec == Init /\ [][Next]_vars

------------------------------------------------------------------------------
(* Properties *)

\* The places of the command line that hold a flag: the first one, and every
\* one that does not belong to the option before it.
FlagAt ==
    LET flag[i \in 1..Len(argv)] == i = 1 \/ ~(flag[i - 1] /\ argv[i - 1] \in DOMAIN Options)
    IN  {i \in 1..Len(argv) : flag[i]}

\* Where an option is given its values.
Given(key) == {i \in FlagAt : argv[i] \in DOMAIN Options /\ Options[argv[i]] = key}

Latest(S) == CHOOSE i \in S : \A j \in S : j <= i

\* README:83, Config.hpp:27-29, "CLI flags always win over file values": the
\* scan is configured with the last value that the command line has for an
\* option, else with the file's, else with the default, whichever order they
\* come in and whatever the values look like; a line with an unknown flag, or
\* with a value missing, configures nothing.
CommandLineWins ==
    \A c \in config :
        LET a == CHOOSE x \in args : TRUE
            file == FileOf(a).values
        IN  /\ \A i \in FlagAt : \/ argv[i] \in DOMAIN Switches
                                 \/ argv[i] \in DOMAIN Options /\ i < Len(argv)
            /\ \A key \in DOMAIN Defaults \ {"schemaOwner"} :
                  c[key] = IF Given(key) # {} THEN Meaning(key, argv[Latest(Given(key)) + 1])
                           ELSE IF key \in DOMAIN file THEN file[key] ELSE Defaults[key]
            /\ (c.resume <=> \E i \in FlagAt : argv[i] = "--resume")
            /\ \A i \in Given("exclude") :
                  ToSet(Or(ListOf, argv[i + 1], <<argv[i + 1]>>)) \subseteq ToSet(c.exclude)

\* Nothing happens to an output directory before the launch is known to be in
\* order; one that may not resume the run it finds, or gets no session, leaves
\* that run and its reports as they are.
RefusedLeavesNoTrace ==
    exit # "none" =>
        /\ place \in {"parse", "config"} => disk = before
        /\ place \in {"logger", "password", "store", "connect"} =>
              \A d \in Dirs : /\ disk[d].file = before[d].file
                              /\ before[d].store = "run" => disk[d].store = "run"

\* Wherever launches are killed, a reader of the output directory never finds a
\* report that is not written to its end, nor does a report ever go back to an
\* older launch's.  One that lacks a part was written to a full disk; where no
\* disk fills, every report has all of its bytes.
ReportsAsWritten ==
    \A d \in Dirs, r \in ReportNames :
        /\ \A f \in disk[d].file[r] : AsWritten(f.bytes)
        /\ \A f \in before[d].file[r] :
              \E g \in disk[d].file[r] : g.launch >= f.launch

\* The exit code tells what the directory holds: 0 and 130 come with both
\* reports of this launch, of the status the code stands for.
ExitMeansReports ==
    exit \in {"0", "130"} /\ place = "summary" =>
        \A r \in ReportNames : \E f \in dir.file[r] :
            /\ f.launch = launch
            /\ f.status = IF exit = "0" THEN "completed" ELSE "interrupted"

\* main.cpp:28-34: an earlier run is continued with --resume or not at all.
\* Reports that are there are only ever replaced by a launch that was given
\* the flag, since nothing writes reports without writing run_info first.
ReplacedOnlyOnResume ==
    [][\A d \in Dirs, r \in ReportNames :
          disk[d].file[r] # {} /\ disk'[d].file[r] # disk[d].file[r] =>
              \/ cfg.resume
              \/ \A f \in disk[d].file[r] : f.launch = launch]_vars

------------------------------------------------------------------------------
(***************************************************************************)
(* The inductive invariant: what every step relies on and re-establishes.  *)
(***************************************************************************)

\* Where a launch is that has its configuration, ...
Configured == Places \ {"off", "parse", "config"}

\* ... that has got past the run it found, ...
Admitted == Configured \ {"logger", "password", "store"}

\* ... whose own run is on record, ...
Recorded == Admitted \ {"connect", "run"}

\* ... and that has begun to write reports.
Writing == Recorded \ {"scan"}

\* The launch: it has a command line, and made its configuration of it; the
\* exit code of one that ends well is the status.
LaunchInv ==
    /\ exit = "none" => place # "off"
    /\ place # "off" => launch >= 1 /\ argv \in CommandLines
    /\ args # {} => args = ParseCliArgs(argv)
    /\ config # {} => args # {} /\ config = {ConfigOf(a) : a \in args}
    /\ place \in Configured => config # {}
    /\ exit \in {"0", "130"} /\ place = "summary" =>
          exit = IF status = "interrupted" THEN "130" ELSE "0"

\* Reports: each is as it was written, of a launch there has been, and beside a
\* run on record; the ones this launch found are there, or newer ones.
FilesInv ==
    \A d \in Dirs, r \in ReportNames :
        /\ \A f \in disk[d].file[r] : /\ AsWritten(f.bytes) /\ f.launch <= launch
                                      /\ disk[d].store = "run"
        /\ \A f \in before[d].file[r] : /\ f.launch < launch
                                        /\ \E g \in disk[d].file[r] : g.launch >= f.launch

\* Traces: what a launch has not yet changed where it is.
TraceInv ==
    /\ place \notin Configured \/ place = "logger" => disk = before
    /\ place \notin Writing => \A d \in Dirs : disk[d].file = before[d].file
    /\ \A d \in Dirs : before[d].store = "run" => disk[d].store = "run"

\* Own reports: they are in the launch's own directory, with its status, beside
\* none of an earlier run unless that one is resumed; the next one lies ready
\* to be renamed, and both are there at the end.
OwnInv ==
    /\ place # "off" =>
          \A d \in Dirs, r \in ReportNames : \A f \in disk[d].file[r] :
              f.launch = launch =>
                  place \in Writing /\ d = cfg.outputDir /\ f.status = status
    /\ place \in Admitted =>
          \/ cfg.resume
          \/ \A r \in ReportNames : \A f \in dir.file[r] : f.launch = launch
    /\ place \in Recorded => dir.store = "run"
    /\ exit = "none" /\ place = "rename" =>
          /\ dir.tmp[Report] # {}
          /\ \A f \in dir.tmp[Report] :
                f.launch = launch /\ f.status = status /\ AsWritten(f.bytes)
    /\ place = "summary" =>
          \A r \in ReportNames : \E f \in dir.file[r] : f.launch = launch

\* All of it: true at the start, and kept by every step.
InductiveInvariant == TypeOK /\ LaunchInv /\ FilesInv /\ TraceInv /\ OwnInv

------------------------------------------------------------------------------
(* A promise of the writer's *)

\* JsonReportWriter.hpp:10-12, "Throws std::runtime_error on I/O failure": a
\* launch that ends well has written all of its reports.
WrittenOrThrown ==
    exit \in {"0", "130"} /\ place = "summary" =>
        \A r \in ReportNames : \A f \in dir.file[r] : f.bytes = "all"

==============================================================================
