--------------------------- MODULE CommandLineParser ---------------------------
(***************************************************************************)
(* CommandLineParser::parse (src/src/CommandLineParser.cc).                *)
(*                                                                         *)
(* The argument list is scanned once for every priority 1..7.  In the      *)
(* scanning phases (1, 2, 3, 6, 7) each argument is offered to its option  *)
(* when the option's priority is due, then to the registered file types;   *)
(* what nobody took is moved, with the arguments the option would take, to *)
(* a backup list that becomes the list of the next phase.  Phase 4 loads   *)
(* the default settings and registers the file types, phase 5 loads the    *)
(* default machine.  An argument left after phase 7 is a parse error.      *)
(*                                                                         *)
(* Arguments are indices into argv; an argument's text is abstracted to   *)
(* its kind: one of the five options registered in the constructor, a     *)
(* plain Name (machine name, settings file, control type or junk) or a    *)
(* file name, a sequence of characters whose extension parseFileName      *)
(* looks up.  The characters are "r" (the text of the registered extension *)
(* rom), "g" (the compressed extensions gz and zip), "." and ",".         *)
(* unsigned and size_t keep their widths in bits, scaled down: UBits =    *)
(* SizeBits is a 32-bit build, UBits < SizeBits an LP64 one.  Loading a  *)
(* file is an environment outcome: it may succeed only for a Name, and    *)
(* may always fail.  A thrown FatalError ends the parse with outcome      *)
(* "fatal".                                                                *)
(***************************************************************************)
EXTENDS Integers, Sequences, SequencesExt

CONSTANTS
    MaxArgs,     \* longest command line enumerated
    FileNames,   \* the file-name arguments enumerated: sequences of characters
    UBits,       \* width of unsigned
    SizeBits     \* width of size_t

ASSUME MaxArgs \in Nat /\ UBits \in Nat /\ SizeBits \in Nat /\ UBits <= SizeBits

Machine == <<"-machine">>
Setting == <<"-setting">>
Help    == <<"-h">>    \* also "--help": the same HelpOption object
Version == <<"-v">>    \* also "--version"
Control == <<"-control">>
Name    == <<"name">>

\* Every argument is a sequence: an option or a Name is one word, a file
\* name its characters.
Options == {Machine, Setting, Help, Version, Control}
Tokens  == Options \cup {Name} \cup FileNames

\* postRegisterFileTypes without a FileTypes config: the default extensions
\* whose file class is registered (here rom, for the ROM image type).
Registered == {<<"r">>}
Compressed == {<<"g">>}   \* "gz" and "zip"

\* registerOption(str, option, prio, length) calls of the constructor;
\* length counts the option itself and defaults to 2 in the header.
Prio   == [o \in Options |-> CASE o = Machine -> 3
                               [] o = Setting -> 2
                               [] OTHER       -> 1]
Length == [o \in Options |-> IF o = Setting \/ o = Machine THEN 2 ELSE 1]

ScanPhases   == {1, 2, 3, 6, 7}
LastPriority == 7

VARIABLES
    argv,          \* the command line, fixed for the run
    cmdLine,       \* arguments still to be scanned in this phase
    backup,        \* arguments postponed to the next phase (backupCmdLine)
    priority,      \* the loop variable of parse(); LastPriority+1 after the loop
    haveConfig, haveSettings, issuedHelp,
    parseStatus,   \* "RUN" | "CONTROL" | "EXIT"
    fileTypes,     \* fileTypeMap filled by postRegisterFileTypes
    helpShown,     \* "none" | "full" | "noFileTypes": what the help text listed
    machineLoads,  \* successful hardwareConfig.loadHardware calls
    envFault,      \* a named or default file failed to load, or a value was rejected
    handled,       \* handled[k]: times argument k was taken by an option or file type
    outcome        \* "running" | "ok" | "fatal" | "undefined"

flags == <<haveConfig, haveSettings, issuedHelp, parseStatus, fileTypes,
           helpShown, machineLoads, envFault>>
vars  == <<argv, cmdLine, backup, priority, handled, outcome, flags>>

Handle(S) == handled' = [k \in DOMAIN handled |->
                            IF k \in S THEN handled[k] + 1 ELSE handled[k]]

\* A FatalError propagates out of parse(): nothing else changes.
Fatal == /\ outcome' = "fatal"
         /\ UNCHANGED <<argv, cmdLine, backup, priority, handled, flags>>

\* FatalError raised for a FileException or ConfigException of a load.
LoadError == /\ outcome' = "fatal"
             /\ envFault' = TRUE
             /\ UNCHANGED <<argv, cmdLine, backup, priority, handled, haveConfig,
                            haveSettings, issuedHelp, parseStatus, fileTypes,
                            helpShown, machineLoads>>

\* Fault: parse() without its first statement parseStatus = RUN.
InitStatusUnset ==
    /\ argv \in BoundedSeq(Tokens, MaxArgs)
    /\ cmdLine = [k \in 1..Len(argv) |-> k]
    /\ backup = <<>> /\ priority = 1
    /\ haveConfig = FALSE /\ haveSettings = FALSE /\ issuedHelp = FALSE
    /\ parseStatus = "UNPARSED"
    /\ fileTypes = FALSE /\ helpShown = "none" /\ machineLoads = 0
    /\ envFault = FALSE /\ handled = [k \in 1..Len(argv) |-> 0]
    /\ outcome = "running"

Init ==
    /\ argv \in BoundedSeq(Tokens, MaxArgs)
    /\ cmdLine = [k \in 1..Len(argv) |-> k]
    /\ backup = <<>>
    /\ priority = 1
    /\ haveConfig = FALSE /\ haveSettings = FALSE /\ issuedHelp = FALSE
    /\ parseStatus = "RUN"
    /\ fileTypes = FALSE
    /\ helpShown = "none"
    /\ machineLoads = 0
    /\ envFault = FALSE
    /\ handled = [k \in 1..Len(argv) |-> 0]
    /\ outcome = "running"

-----------------------------------------------------------------------------
(* The string operations of parseFileName, with positions counted from 0. *)
NPos == 2^SizeBits - 1                 \* string::npos
Unsigned(x) == x % 2^UBits             \* a size_t stored in, or computed as, unsigned

\* find_last_of(c, pos): the last position <= pos holding c, or npos.
FindLastOf(s, c, pos) ==
    LET P == {k \in 0..Len(s) - 1 : k <= pos /\ s[k + 1] = c}
    IN  IF P = {} THEN NPos ELSE Max(P)

\* substr(pos, n): at most n characters from pos.  pos is never past the
\* end here (begin + 1 is at most the length, or wraps to 0), so the
\* out_of_range case of substr does not arise.
Substr(s, pos, n) == SubSeq(s, pos + 1, IF n >= Len(s) - pos THEN Len(s) ELSE pos + n)

NoExtension == <<".">>   \* no extension was found: not a key of fileTypeMap

\* Fault: the inner extension of a compressed file is taken without
\* checking that the second find_last_of found a dot.
ExtensionNoInnerCheck(arg) ==
    LET begin == Unsigned(FindLastOf(arg, ".", NPos))
        end   == Unsigned(FindLastOf(arg, ",", NPos))
        ext   == IF end = NPos \/ end <= begin THEN Substr(arg, Unsigned(begin + 1), NPos)
                 ELSE Substr(arg, Unsigned(begin + 1), Unsigned(end - begin - 1))
        inner == Unsigned(FindLastOf(arg, ".", Unsigned(begin - 1)))
    IN  IF begin = NPos THEN NoExtension
        ELSE IF ext \in Compressed /\ begin # 0
             THEN Substr(arg, Unsigned(inner + 1), Unsigned(begin - inner - 1))
             ELSE ext

(* The extension parseFileName looks up: after the last dot, up to a comma *)
(* that follows it; for gz and zip, the one before it.  begin and end are  *)
(* unsigned, compared with the size_t npos.                                *)
Extension(arg) ==
    LET begin == Unsigned(FindLastOf(arg, ".", NPos))
        end   == Unsigned(FindLastOf(arg, ",", NPos))
        ext   == IF end = NPos \/ end <= begin THEN Substr(arg, Unsigned(begin + 1), NPos)
                 ELSE Substr(arg, Unsigned(begin + 1), Unsigned(end - begin - 1))
        inner == Unsigned(FindLastOf(arg, ".", Unsigned(begin - 1)))
    IN  IF begin = NPos THEN NoExtension
        ELSE IF ext \in Compressed /\ begin # 0 /\ inner # NPos
             THEN Substr(arg, Unsigned(inner + 1), Unsigned(begin - inner - 1))
             ELSE ext

\* fileTypeMap.find(extension) succeeds.
KnownFileType(k) == argv[k] \in FileNames /\ fileTypes /\ Extension(argv[k]) \in Registered

(* Argument i was not taken by an option: parseFileName, and if the file   *)
(* type is unknown the postponement into backupCmdLine.  The postponement  *)
(* moves length-1 more arguments with cmdLine.front()/pop_front(), which   *)
(* is undefined behaviour when fewer remain.                               *)
\* Fault: the file is processed but parseFileName reports it unknown.
ParseFileNameKeepsArg(i, rest) ==
    /\ KnownFileType(i)
    /\ cmdLine' = rest
    /\ Handle({i})
    /\ backup' = Append(backup, i)
    /\ UNCHANGED outcome

ParseFileName(i, rest) ==
    /\ KnownFileType(i)
    /\ cmdLine' = rest
    /\ Handle({i})
    /\ UNCHANGED <<backup, outcome>>

Postpone(i, rest) ==
    LET n == IF argv[i] \in Options THEN Length[argv[i]] - 1 ELSE 0
    IN  IF Len(rest) < n
        THEN /\ outcome' = "undefined"
             /\ UNCHANGED <<cmdLine, backup, handled>>
        ELSE /\ backup' = Append(backup, i) \o SubSeq(rest, 1, n)
             /\ cmdLine' = SubSeq(rest, n + 1, Len(rest))
             /\ UNCHANGED <<handled, outcome>>

NotParsed(i, rest) ==
    IF KnownFileType(i) THEN ParseFileName(i, rest)
                                      ELSE Postpone(i, rest)

(* The option handlers, called with the option popped off the list.       *)
HelpOption(i, rest) ==
    /\ issuedHelp' = TRUE
    /\ IF haveSettings
       THEN /\ helpShown' = IF fileTypes THEN "full" ELSE "noFileTypes"
            /\ parseStatus' = "EXIT"
            /\ cmdLine' = rest
            /\ Handle({i})
            /\ UNCHANGED <<backup, outcome>>
       ELSE /\ NotParsed(i, rest)
            /\ UNCHANGED <<helpShown, parseStatus>>
    /\ UNCHANGED <<haveConfig, haveSettings, fileTypes, machineLoads, envFault>>

VersionOption(i, rest) ==
    /\ issuedHelp' = TRUE
    /\ parseStatus' = "EXIT"
    /\ cmdLine' = rest
    /\ Handle({i})
    /\ UNCHANGED <<backup, outcome, haveConfig, haveSettings, fileTypes,
                   helpShown, machineLoads, envFault>>

ControlOption(i, rest) ==
    IF rest = <<>> THEN Fatal
    ELSE \/ /\ argv[Head(rest)] = Name
            /\ parseStatus' = "CONTROL"
            /\ cmdLine' = Tail(rest)
            /\ Handle({i, Head(rest)})
            /\ UNCHANGED <<backup, outcome, haveConfig, haveSettings, issuedHelp,
                           fileTypes, helpShown, machineLoads, envFault>>
         \/ LoadError   \* "Unknown control type"

\* Fault: MachineOption without the issuedHelp test.
MachineOptionIgnoresHelp(i, rest) ==
    IF haveConfig THEN Fatal
    ELSE IF rest = <<>> THEN Fatal
    ELSE \/ /\ argv[Head(rest)] = Name
            /\ haveConfig' = TRUE
            /\ machineLoads' = machineLoads + 1
            /\ cmdLine' = Tail(rest)
            /\ Handle({i, Head(rest)})
            /\ UNCHANGED <<backup, outcome, haveSettings, issuedHelp,
                           parseStatus, fileTypes, helpShown, envFault>>
         \/ LoadError

MachineOption(i, rest) ==
    IF haveConfig THEN Fatal
    ELSE IF issuedHelp
    THEN /\ cmdLine' = rest
         /\ Handle({i})
         /\ UNCHANGED <<backup, outcome, flags>>
    ELSE IF rest = <<>> THEN Fatal
    ELSE \/ /\ argv[Head(rest)] = Name
            /\ haveConfig' = TRUE
            /\ machineLoads' = machineLoads + 1
            /\ cmdLine' = Tail(rest)
            /\ Handle({i, Head(rest)})
            /\ UNCHANGED <<backup, outcome, haveSettings, issuedHelp,
                           parseStatus, fileTypes, helpShown, envFault>>
         \/ LoadError

SettingOption(i, rest) ==
    IF haveSettings THEN Fatal
    ELSE IF rest = <<>> THEN Fatal
    ELSE \/ /\ argv[Head(rest)] = Name
            /\ haveSettings' = TRUE
            /\ cmdLine' = Tail(rest)
            /\ Handle({i, Head(rest)})
            /\ UNCHANGED <<backup, outcome, haveConfig, issuedHelp,
                           parseStatus, fileTypes, helpShown, machineLoads,
                           envFault>>
         \/ LoadError
-----------------------------------------------------------------------------
(* One iteration of the while loop of a scanning phase: pop the front      *)
(* argument and try its option if due (parseOption), else NotParsed.       *)
Scanning == outcome = "running" /\ priority \in ScanPhases /\ cmdLine # <<>>

Due(o) == argv[Head(cmdLine)] = o /\ Prio[o] <= priority

\* The handler the option map finds for option o.
OptionHandler(o, i, rest) ==
    CASE o = Help    -> HelpOption(i, rest)
      [] o = Version -> VersionOption(i, rest)
      [] o = Control -> ControlOption(i, rest)
      [] o = Machine -> MachineOption(i, rest)
      [] o = Setting -> SettingOption(i, rest)

ParseOption(o) ==
    /\ Scanning /\ Due(o)
    /\ OptionHandler(o, Head(cmdLine), Tail(cmdLine))
    /\ UNCHANGED <<argv, priority>>

ScanOther ==
    /\ Scanning
    /\ ~ \E o \in Options : Due(o)
    /\ NotParsed(Head(cmdLine), Tail(cmdLine))
    /\ UNCHANGED <<argv, priority, flags>>

\* The end of a scanning phase: cmdLine = backupCmdLine; backupCmdLine.clear()
EndPhase ==
    /\ outcome = "running" /\ priority \in ScanPhases /\ cmdLine = <<>>
    /\ cmdLine' = backup
    /\ backup' = <<>>
    /\ priority' = priority + 1
    /\ UNCHANGED <<argv, handled, outcome, flags>>

\* case 4: load settings.xml unless -setting did; a missing file is only a
\* warning, a bad one is fatal; then postRegisterFileTypes().
LoadDefaultSettings ==
    /\ outcome = "running" /\ priority = 4
    /\ IF haveSettings
       THEN /\ fileTypes' = TRUE /\ priority' = 5
            /\ UNCHANGED <<haveSettings, envFault, outcome>>
       ELSE \/ /\ haveSettings' = TRUE /\ fileTypes' = TRUE /\ priority' = 5
               /\ UNCHANGED <<envFault, outcome>>
            \/ /\ envFault' = TRUE /\ fileTypes' = TRUE /\ priority' = 5
               /\ UNCHANGED <<haveSettings, outcome>>
            \/ /\ envFault' = TRUE /\ outcome' = "fatal"
               /\ UNCHANGED <<haveSettings, fileTypes, priority>>
    /\ UNCHANGED <<argv, cmdLine, backup, handled, haveConfig, issuedHelp,
                   parseStatus, helpShown, machineLoads>>

\* case 5: load the default machine unless help was asked or -machine did.
\* Fault: case 5 tests only issuedHelp, not haveConfig.
LoadDefaultMachineAlways ==
    /\ outcome = "running" /\ priority = 5
    /\ IF ~issuedHelp
       THEN \/ /\ haveConfig' = TRUE /\ machineLoads' = machineLoads + 1
               /\ priority' = 6
               /\ UNCHANGED <<envFault, outcome>>
            \/ /\ envFault' = TRUE /\ outcome' = "fatal"
               /\ UNCHANGED <<haveConfig, machineLoads, priority>>
       ELSE /\ priority' = 6
            /\ UNCHANGED <<haveConfig, machineLoads, envFault, outcome>>
    /\ UNCHANGED <<argv, cmdLine, backup, handled, haveSettings, issuedHelp,
                   parseStatus, fileTypes, helpShown>>

LoadDefaultMachine ==
    /\ outcome = "running" /\ priority = 5
    /\ IF ~issuedHelp /\ ~haveConfig
       THEN \/ /\ haveConfig' = TRUE /\ machineLoads' = machineLoads + 1
               /\ priority' = 6
               /\ UNCHANGED <<envFault, outcome>>
            \/ /\ envFault' = TRUE /\ outcome' = "fatal"
               /\ UNCHANGED <<haveConfig, machineLoads, priority>>
       ELSE /\ priority' = 6
            /\ UNCHANGED <<haveConfig, machineLoads, envFault, outcome>>
    /\ UNCHANGED <<argv, cmdLine, backup, handled, haveSettings, issuedHelp,
                   parseStatus, fileTypes, helpShown>>

\* After the loop: a left-over argument is "Error parsing command line".
\* slotManager.readConfig() and the postponed options follow (not in src/).
Finish ==
    /\ outcome = "running" /\ priority = LastPriority + 1
    /\ outcome' = IF cmdLine # <<>> THEN "fatal" ELSE "ok"
    /\ UNCHANGED <<argv, cmdLine, backup, priority, handled, flags>>

Next ==
    \/ ParseOption(Help)
    \/ ParseOption(Version)
    \/ ParseOption(Control)
    \/ ParseOption(Machine)
    \/ ParseOption(Setting)
    \/ ScanOther
    \/ EndPhase
    \/ LoadDefaultSettings
    \/ LoadDefaultMachine
    \/ Finish

\* parse() runs to completion on the one thread that called it.
Spec == Init /\ [][Next]_vars

-----------------------------------------------------------------------------
TypeOK ==
    /\ argv \in BoundedSeq(Tokens, MaxArgs)
    /\ cmdLine \in Seq(DOMAIN argv) /\ backup \in Seq(DOMAIN argv)
    /\ priority \in 1..LastPriority + 1
    /\ {haveConfig, haveSettings, issuedHelp, fileTypes, envFault} \subseteq BOOLEAN
    /\ parseStatus \in {"RUN", "CONTROL", "EXIT"}
    /\ helpShown \in {"none", "full", "noFileTypes"}
    /\ machineLoads \in Nat
    /\ handled \in [DOMAIN argv -> Nat]
    /\ outcome \in {"running", "ok", "fatal", "undefined"}

(* Every argument is taken at most once by an option or a file type over  *)
(* all seven phases, and a parse that succeeds has taken every argument:  *)
(* the backup list hands each postponed argument, and its option's        *)
(* arguments, to the next phase exactly once.                             *)
ArgsHandledOnce ==
    /\ \A k \in DOMAIN argv : handled[k] <= 1
    /\ outcome = "ok" => \A k \in DOMAIN argv : handled[k] = 1

(* -h / -v suppress the machine: once help or the version was asked for,  *)
(* no hardware configuration has been or will be loaded, whichever order  *)
(* -machine and -h have on the command line (MachineOption's issuedHelp   *)
(* test relies on -h being handled in an earlier phase than -machine).    *)
HelpSuppressesMachine == issuedHelp => ~haveConfig

(* The hardware configuration is loaded at most once, between -machine in  *)
(* phase 3 and the default machine of phase 5.                           *)
SingleMachineLoad == machineLoads <= 1

(* The scan never reads past the end of the list (cmdLine.front() on an   *)
(* empty list when a postponed option lacks its argument).                *)
NoUndefinedBehaviour == outcome # "undefined"

(* The help text lists the supported file types: it is printed only after *)
(* postRegisterFileTypes() has filled fileTypeMap.                        *)
HelpListsFileTypes == helpShown # "noFileTypes"

(* A successful parse that does not exit leaves a machine loaded: the     *)
(* emulator is never started without a hardware configuration.           *)
StartsWithMachine == (outcome = "ok" /\ parseStatus # "EXIT") => haveConfig

(* Reference extension of a file name: the text between its last dot and *)
(* the comma after it, if any; a compressed file's extension is the text  *)
(* between its last two dots.  Positions are unbounded integers here.      *)
RefExtension(s) ==
    LET dots   == {k \in 1..Len(s) : s[k] = "."}
        last   == Max(dots)
        commas == {k \in last + 1..Len(s) : s[k] = ","}
        ext    == SubSeq(s, last + 1, IF commas = {} THEN Len(s) ELSE Min(commas) - 1)
    IN  IF dots = {} THEN NoExtension
        ELSE IF ext \in Compressed /\ dots # {last}
             THEN SubSeq(s, Max(dots \ {last}) + 1, last - 1)
             ELSE ext

RegisteredFile(t) == t \in FileNames /\ RefExtension(t) \in Registered

(* parseFileName takes a file argument exactly when its extension is a    *)
(* registered one: every file name taken by a file type has a registered  *)
(* reference extension, and none left over at the end of the seven phases *)
(* (the "Error parsing command line") has one.  The extension is found    *)
(* with unsigned positions compared with the size_t npos.                 *)
FileTypeByExtension ==
    \A k \in DOMAIN argv : argv[k] \in FileNames =>
        /\ handled[k] > 0 => RegisteredFile(argv[k])
        /\ (priority = LastPriority + 1 /\ k \in ToSet(cmdLine)) => ~RegisteredFile(argv[k])

(* Reference grammar of a well-formed command line: options with their    *)
(* argument, at most one -machine and one -setting, and registered files. *)
RECURSIVE WellFormedArgs(_)
WellFormedArgs(s) ==
    \/ s = <<>>
    \/ (s[1] \in {Help, Version} \/ RegisteredFile(s[1])) /\ WellFormedArgs(Tail(s))
    \/ /\ s[1] \in {Machine, Setting, Control}
       /\ Len(s) >= 2 /\ s[2] = Name
       /\ WellFormedArgs(SubSeq(s, 3, Len(s)))

WellFormed(s) ==
    /\ WellFormedArgs(s)
    /\ \A o \in {Machine, Setting} :
          Cardinality({k \in DOMAIN s : s[k] = o}) <= 1

(* A well-formed command line is never rejected when every file it names  *)
(* loads: the parse ends without a FatalError.                            *)
WellFormedAccepted ==
    (WellFormed(argv) /\ ~envFault) => outcome # "fatal"

==============================================================================
