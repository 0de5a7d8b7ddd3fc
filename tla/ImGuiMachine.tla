----------------------------- MODULE ImGuiMachine -----------------------------
(***************************************************************************)
(* The "Select MSX machine" window (src/src/imgui/ImGuiMachine.cc) and     *)
(* the delayed-command queue of ImGuiManager (ImGuiManager.hh).            *)
(*                                                                         *)
(* Every frame paints the list of machine configurations; painting a row   *)
(* calls getTestResult, which the first time stores an empty result and    *)
(* queues a test: a lambda that later loads the configuration into a       *)
(* scratch motherboard and stores the error message, if any.  An empty     *)
(* result therefore means both "tested, works" and "test still queued".    *)
(* Buttons and double clicks queue Tcl commands ("machine", the "New"      *)
(* script) on the same queue.  The queue is run in order between frames,   *)
(* on the GUI thread; no frame is painted while it is non-empty.          *)
(*                                                                         *)
(* The first frame builds the list of machines (getAllMachines): each    *)
(* configuration's display name is its manufacturer and product code, or  *)
(* its name; the list is sorted ignoring case, and names that compare     *)
(* equal get their configuration name appended.  A name is a sequence of  *)
(* words; a word has a text and a rank, its place in the case-insensitive *)
(* order, so words of equal rank differ only in case.                     *)
(*                                                                         *)
(* A configuration is a model value; whether it loads and its metadata    *)
(* are fixed per run (works, meta).  The metadata keys of openmsx_info    *)
(* are renamed by the replacer before they are stored.  The list shows    *)
(* the rows that pass the type filter and the search string.  Machine     *)
(* instances other than the active one are not modelled: the "New" script *)
(* activates the new machine when it loads.                               *)
(***************************************************************************)
EXTENDS Integers, Sequences, SequencesExt

CONSTANTS
    Configs,       \* machine configurations found by Reactor::getHwConfigs("machines")
    NoConfig,      \* empty newMachineConfig / no current machine
    ConfigName,    \* ConfigName[c]: the name of configuration c, as a word
    Metas,         \* Metas[c]: the records openmsx_info may give for c, keyed by
                   \* its descriptions ("manufacturer", "code", "type"), values
                   \* as words; the empty word for an empty value
    FilterStrings  \* the search strings typed, split into their parts: each
                   \* [text, within] with the ranks of the words it is a
                   \* substring of, case ignored

Word(text, rank) == [text |-> text, rank |-> rank]
EmptyWord == Word("", 0)

ASSUME NoConfig \notin Configs
\* Configuration names are directory names, different even ignoring case.
ASSUME \A c, d \in Configs : c # d => ConfigName[c].rank # ConfigName[d].rank

Unset   == "unset"     \* info.testResult is std::nullopt
Empty   == "empty"     \* info.testResult holds ""
Failed  == "error"     \* info.testResult holds an error message

VARIABLES
    works,             \* works[c]: loading configuration c succeeds
    current,           \* the configuration of the active motherboard
    newMachineConfig,  \* the selection of the window
    testResult,        \* testResult[c]: Unset | Empty | Failed
    queue,             \* ImGuiManager::commandQueue: <<kind, config>> pairs
    assertFailed,      \* assert(info.testResult->empty()) in the lambda failed
    meta,              \* meta[c]: what openmsx_info gives for c
    machineInfo,       \* ImGuiMachine::machineInfo: <<>> until getAllMachines runs
    showSelectMachine, \* the "Select MSX machine" window is open
    paused,            \* the pause setting
    defaultMachine,    \* the machine setting: the machine openMSX starts with
    filterType,        \* the type combo: EmptyWord for --all--
    filterString       \* the search string, as its words

vars == <<works, current, newMachineConfig, testResult, queue, assertFailed,
          meta, machineInfo, showSelectMachine, paused, defaultMachine,
          filterType, filterString>>
menuVars == <<showSelectMachine, paused, defaultMachine, filterType, filterString>>

Cmd(kind, c) == [kind |-> kind, config |-> c]

Init ==
    /\ works \in [Configs -> BOOLEAN]
    /\ current \in Configs \cup {NoConfig}
    /\ newMachineConfig = NoConfig
    /\ testResult = [c \in Configs |-> Unset]
    /\ queue = <<>>
    /\ assertFailed = FALSE
    /\ meta \in [Configs -> UNION {Metas[c] : c \in Configs}]
    /\ \A c \in Configs : meta[c] \in Metas[c]
    /\ machineInfo = <<>>
    /\ showSelectMachine \in BOOLEAN
    /\ paused \in BOOLEAN
    /\ defaultMachine \in Configs
    /\ filterType = EmptyWord
    /\ filterString = <<>>

-----------------------------------------------------------------------------
(* getTestResult(info) during a frame, for the configurations of S in     *)
(* drawing order, as a pair: the new testResult and the tests queued.     *)
Unqueued(tr, S) == {c \in S : tr[c] = Unset}

\* Fault: the result is not emplaced, so every frame queues the test again.
TestsQueuedNoEmplace(tr, S) ==
    LET new == SetToSeq(Unqueued(tr, S))
    IN  <<tr, [k \in 1..Len(new) |-> Cmd("test", new[k])]>>

TestsQueued(tr, S) ==
    LET new == SetToSeq(Unqueued(tr, S))
    IN  <<[c \in Configs |-> IF c \in Unqueued(tr, S) THEN Empty ELSE tr[c]],
          [k \in 1..Len(new) |-> Cmd("test", new[k])]>>

\* Fault: printConfigInfo(config) without "if (!info) return false".
OkNotFound(tr, c) == c \notin Configs \/ tr[c] # Failed

\* printConfigInfo / the list colour: no error message is stored.
Ok(tr, c) == c \in Configs /\ tr[c] # Failed

-----------------------------------------------------------------------------
(* getAllMachines.  The replacer: the descriptions it renames, and the    *)
(* others unchanged.                                                      *)
Replacer(desc) ==
    CASE desc = "manufacturer" -> "Manufacturer"
      [] desc = "code"         -> "Product code"
      [] desc = "release_year" -> "Release year"
      [] desc = "description"  -> "Description"
      [] desc = "type"         -> "Type"
      [] OTHER                 -> desc

\* The metadata loop keeps the non-empty values under replacer(desc).
ConfigInfo(c) ==
    LET descs == {k \in DOMAIN meta[c] : meta[c][k] # EmptyWord}
    IN  [key \in {Replacer(k) : k \in descs} |->
            meta[c][CHOOSE k \in descs : Replacer(k) = key]]

\* The manufacturer, a space and the product code, or the configuration name.
DisplayName(c) ==
    LET info == ConfigInfo(c)
        d0   == IF "Manufacturer" \in DOMAIN info THEN <<info["Manufacturer"]>> ELSE <<>>
        d1   == IF "Product code" \in DOMAIN info THEN d0 \o <<info["Product code"]>> ELSE d0
    IN  IF d1 = <<>> THEN <<ConfigName[c]>> ELSE d1

\* StringOp::caseless on names: word by word, a prefix first.
RECURSIVE CaselessLess(_, _)
CaselessLess(a, b) ==
    CASE b = <<>>               -> FALSE
      [] a = <<>>               -> TRUE
      [] a[1].rank # b[1].rank  -> a[1].rank < b[1].rank
      [] OTHER                  -> CaselessLess(Tail(a), Tail(b))

CaselessEqual(a, b) == ~CaselessLess(a, b) /\ ~CaselessLess(b, a)

\* ranges::sort by displayName is not stable: equal names in any order.
SortedOrders(s) ==
    { [k \in DOMAIN s |-> s[p[k]]] :
        p \in {p \in Permutations(DOMAIN s) :
                \A k \in 1..Len(s) - 1 : ~CaselessLess(s[p[k + 1]].display, s[p[k]].display)} }

\* Fault: the names of a group compared with operator==, not casecmp.
SameDisplayNameExact(x, y) == x.display = y.display

\* sameDisplayName: StringOp::casecmp, equality ignoring case.
SameDisplayName(x, y) == CaselessEqual(x.display, y.display)

\* chunk_by: the maximal runs of neighbours with the same display name.
RECURSIVE ChunkBy(_)
ChunkBy(s) ==
    IF s = <<>> THEN <<>>
    ELSE LET n == Max({k \in 1..Len(s) : \A j \in 2..k : SameDisplayName(s[j - 1], s[j])})
         IN  <<SubSeq(s, 1, n)>> \o ChunkBy(SubSeq(s, n + 1, Len(s)))

\* " (config)": '(' sorts before every letter and digit of a name.
Paren(c) == Word("(" \o ConfigName[c].text \o ")", ConfigName[c].rank - 100)
Suffixed(x) == [x EXCEPT !.display = Append(@, Paren(x.config))]

\* Fault: the group is not sorted again after the names are extended.
RegroupedUnsorted(ch) ==
    IF Len(ch) = 1 THEN {ch} ELSE {[k \in DOMAIN ch |-> Suffixed(ch[k])]}

\* The action on a chunk: a group of several has the configuration names
\* appended and is sorted again.
Regrouped(ch) ==
    IF Len(ch) = 1 THEN {ch} ELSE SortedOrders([k \in DOMAIN ch |-> Suffixed(ch[k])])

RECURSIVE Joined(_)
Joined(chs) == IF chs = <<>> THEN {<<>>}
               ELSE {a \o b : a \in Regrouped(Head(chs)), b \in Joined(Tail(chs))}

\* Every list getAllMachines may build from the configurations.
AllMachines ==
    UNION {Joined(ChunkBy(s)) :
              s \in SortedOrders(SetToSeq({[config |-> c, display |-> DisplayName(c)] : c \in Configs}))}

(* getOptionalDictValue(info, key) is found and, for filter(key, value),  *)
(* equal to the chosen value; an empty value does not filter.             *)
KeyMatches(c, key, value) ==
    value = EmptyWord \/ (key \in DOMAIN ConfigInfo(c) /\ ConfigInfo(c)[key] = value)

(* containsCaseInsensitive(display, part) for every part the search       *)
(* string splits into at spaces.  A part has no space, so it is a         *)
(* substring of the display name when it is one of a word of it: a part   *)
(* is given with the ranks of the words it occurs in, case ignored.       *)
SearchMatches(display, parts) ==
    \A k \in DOMAIN parts : \E w \in DOMAIN display : display[w].rank \in parts[k].within

\* The rows left by the erase_if calls of the list box, in list order.
Filtered(mi, ft, fs) ==
    SelectSeq(mi, LAMBDA x : KeyMatches(x.config, "type", ft) /\ SearchMatches(x.display, fs))

\* getAllValuesFor(key): the values the machines have for key.
ValuesFor(mi, key) ==
    {ConfigInfo(mi[k].config)[key] : k \in {k \in DOMAIN mi : key \in DOMAIN ConfigInfo(mi[k].config)}}

(* One frame of paintSelectMachine.  "Current machine" calls              *)
(* printConfigInfo on the current configuration while its tree node is    *)
(* open (curOpen), and sets the selection to it when it is empty.  The    *)
(* filter combo sets                                                      *)
(* the type to --all-- or a value of getAllValuesFor, or the search       *)
(* string is edited; the list paints the rows the filters leave that the  *)
(* clipper shows (a range of them), and the user may click one row        *)
(* (select) or double click it (select and "machine"); the "Selected      *)
(* machine" part calls printConfigInfo on the selection and offers        *)
(* Replace ("machine") while it is ok, and New.  One user action a frame. *)
PaintFrame ==
    /\ queue = <<>>
    /\ showSelectMachine
    /\ \E mi \in (IF machineInfo = <<>> THEN AllMachines ELSE {machineInfo}) :
       \E act \in {"none", "select", "double", "replace", "new", "default", "type", "search"},
          ft \in {EmptyWord} \cup ValuesFor(mi, "type"), fs \in FilterStrings,
          curOpen \in BOOLEAN :
        LET ft1   == IF act = "type" THEN ft ELSE filterType
            fs1   == IF act = "search" THEN fs ELSE filterString
            shown == Filtered(mi, ft1, fs1)
            sel0  == IF current # NoConfig /\ newMachineConfig = NoConfig
                     THEN current ELSE newMachineConfig
            cur   == TestsQueued(testResult, IF curOpen THEN {current} ELSE {})
        IN  /\ act # "type" => ft = EmptyWord
            /\ act # "search" => fs = <<>>
            \* an open node matters only while the current result is unset
            /\ curOpen => current # NoConfig /\ testResult[current] = Unset
            \* the list box is at least one row high
            /\ \E lo \in 1..Len(shown), hi \in 1..Len(shown) \cup {0} :
                LET visible == {shown[k].config : k \in lo..hi}
                IN  /\ lo <= hi \/ shown = <<>>
                    /\ \E row \in (IF act \in {"select", "double"} THEN visible ELSE {NoConfig}) :
                        LET sel1  == IF act \in {"select", "double"} THEN row ELSE sel0
                            list  == TestsQueued(cur[1], visible)
                            info  == TestsQueued(list[1], IF sel1 \in Configs THEN {sel1} ELSE {})
                            okSel == Ok(info[1], sel1)
                            cmds  == CASE act = "double"           -> <<Cmd("machine", row)>>
                                       [] act = "replace" /\ okSel -> <<Cmd("machine", sel1)>>
                                       [] act = "new" /\ okSel     -> <<Cmd("new", sel1)>>
                                       [] OTHER                    -> <<>>
                        IN  /\ newMachineConfig' = sel1
                            /\ testResult' = info[1]
                            /\ queue' = cur[2] \o list[2] \o info[2] \o cmds
            /\ machineInfo' = mi
            /\ filterType' = ft1
            /\ filterString' = fs1
            \* "Make this the default machine", shown while it is not
            /\ defaultMachine' = IF act = "default" /\ current # NoConfig
                                 THEN current ELSE defaultMachine
    /\ UNCHANGED <<works, current, assertFailed, meta, showSelectMachine, paused>>

(* showMenu, the "Machine" menu: toggle the window, toggle pause at once,  *)
(* or queue "reset", offered only while there is a machine.                *)
ShowMenu ==
    /\ queue = <<>>
    /\ \/ /\ showSelectMachine' = ~showSelectMachine
          /\ UNCHANGED <<paused, queue>>
       \/ /\ paused' = ~paused
          /\ UNCHANGED <<showSelectMachine, queue>>
       \/ /\ current # NoConfig
          /\ queue' = <<Cmd("reset", current)>>
          /\ UNCHANGED <<showSelectMachine, paused>>
    /\ UNCHANGED <<works, current, newMachineConfig, testResult, assertFailed,
                   meta, machineInfo, defaultMachine, filterType, filterString>>

(* Run the oldest queued command.  The test lambda loads the configuration *)
(* into a scratch MSXMotherBoard and stores the exception message; the    *)
(* "machine" command replaces the current machine, which stays when the   *)
(* load fails; the "New" script deletes the new instance on failure and   *)
(* activates it otherwise.                                                *)
RunTest(c) ==
    /\ assertFailed' = (assertFailed \/ testResult[c] # Empty)
    /\ testResult' = [testResult EXCEPT ![c] = IF works[c] THEN @ ELSE Failed]
    /\ UNCHANGED current

RunMachine(c) ==
    /\ current' = IF works[c] THEN c ELSE current
    /\ UNCHANGED <<testResult, assertFailed>>

RunQueued ==
    /\ queue # <<>>
    /\ LET cmd == Head(queue)
       IN  CASE cmd.kind = "test"  -> RunTest(cmd.config)
             [] cmd.kind = "reset" -> UNCHANGED <<current, testResult, assertFailed>>
             [] OTHER              -> RunMachine(cmd.config)
    /\ queue' = Tail(queue)
    /\ UNCHANGED <<works, newMachineConfig, meta, machineInfo, menuVars>>

Next == PaintFrame \/ ShowMenu \/ RunQueued

Spec == Init /\ [][Next]_vars

-----------------------------------------------------------------------------
\* Every word a meta record of a configuration may hold.
MetaWords == UNION {{m[k] : k \in DOMAIN m} : m \in UNION {Metas[c] : c \in Configs}}

TypeOK ==
    /\ works \in [Configs -> BOOLEAN]
    /\ current \in Configs \cup {NoConfig}
    /\ newMachineConfig \in Configs \cup {NoConfig}
    /\ testResult \in [Configs -> {Unset, Empty, Failed}]
    /\ queue \in Seq([kind : {"test", "machine", "new", "reset"}, config : Configs])
    /\ assertFailed \in BOOLEAN
    /\ {showSelectMachine, paused} \subseteq BOOLEAN
    /\ defaultMachine \in Configs
    /\ \A c \in Configs : meta[c] \in Metas[c]
    /\ machineInfo \in Seq([config : Configs, display : Seq(MetaWords
                               \cup {ConfigName[c] : c \in Configs} \cup {Paren(c) : c \in Configs})])
    /\ filterType \in MetaWords
    /\ filterString \in FilterStrings

(* The assertion of the test lambda holds: when a test runs, its result   *)
(* is still the empty string emplaced by getTestResult, so no test runs   *)
(* twice and nothing else wrote the result first.                         *)
TestAssertHolds == ~assertFailed

(* A "machine" command is queued only for a configuration whose known    *)
(* test result is not an error: Replace is disabled while printConfigInfo *)
(* of the selection shows an error (line 206), and its tooltip offers the *)
(* double click in the list as the same action.  A frame starts with an   *)
(* empty queue, so what it queues is the whole of queue'.                 *)
MachineOnlyWhenNotFailed ==
    [][queue = <<>> =>
         \A k \in DOMAIN queue' :
             queue'[k].kind = "machine" => testResult[queue'[k].config] # Failed]_vars

(* The type combo offers every type openmsx_info gives a machine, so the  *)
(* list can be filtered by each of them.                                  *)
TypeComboOffersTypes ==
    machineInfo # <<>> =>
        \A c \in Configs : meta[c].type # EmptyWord => meta[c].type \in ValuesFor(machineInfo, "type")

(* The list of machines names every configuration once, and no two       *)
(* display names are equal, not even ignoring case: chunk_by groups the   *)
(* names that compare equal only because the unstable sort made them      *)
(* neighbours, and the appended configuration names tell them apart.     *)
(* ImGui takes a row's label as its ID.                                   *)
DisplayNamesUnique ==
    machineInfo # <<>> =>
        /\ Len(machineInfo) = Cardinality(Configs)
        /\ {machineInfo[k].config : k \in DOMAIN machineInfo} = Configs
        /\ \A i, j \in DOMAIN machineInfo :
              i # j => ~CaselessEqual(machineInfo[i].display, machineInfo[j].display)

(* The list stays sorted ignoring case after names were extended: each    *)
(* group is sorted again, and " (" keeps it before the longer names.      *)
MachinesSorted ==
    \A k \in 1..Len(machineInfo) - 1 :
        ~CaselessLess(machineInfo[k + 1].display, machineInfo[k].display)
==============================================================================
