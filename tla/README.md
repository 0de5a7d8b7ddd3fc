# openMSX: TLA+ models

This directory holds TLA+ models of parts of openMSX (the sample under `src/src`
and the design in `spec.md`), the TLC configurations that check them, and
`PROJECT.json`. `PROJECT.json` lists the components, the runs, the mutants, the
definition-to-source map, the findings and the hazards.

## The system and its parts

openMSX emulates an MSX computer on a single emulation thread.

- **Core (spec 4.2, 4.3).** The **Scheduler** keeps pending events, each a
  (time, device, token). `runUntil(t)` fires the due events one at a time,
  earliest first and FIFO among equal times. The **AddressSpace** maps the CPU's
  64 KiB onto devices through primary slots, expanded slots with subslots, and
  page windows. Reads go through a flat per-page cache, which is rebuilt on
  every mapping change. A CPU may also keep the *cache lines* a device offers
  (`MSXMemDevice::getReadCacheLine`, `getWriteCacheLine`) and read or write
  them without dispatch.
  - The two parts interact: a scheduler callback may switch a bank in the
    middle of `runUntil`, which changes what the CPU reads next.
- **Devices.** `KeyClick` drives a DAC through its constructor, `reset` and
  `setClick`.
- **Front end.** `CommandLineParser` parses the command line in seven priority
  phases, postpones arguments, and loads the default settings and the default
  machine. `formatHelptext` and `formatSet` lay out `-h`.
- **GUI.** `ImGuiMachine` is the machine selection window. It keeps a cache of
  test results and queues commands that run between frames. Its list box shows
  the machines the type filter and the search string leave.
- **Video.** `GLHQScaler` computes the hq edge texture on the CPU
  (`calcInitialEdges`, `uploadBlock`). Its constructor creates the textures and
  points the shader's samplers at texture units 0-4; `scaleImage` binds the
  textures of its factor and activates or deactivates the hq program. GL state
  (bound textures, the active unit, the program) is shared by all these calls.

## Modules and how they correspond to the code

| Module | Models | State | Actions |
|---|---|---|---|
| `CommandLineParser` | `CommandLineParser::parse` and its option handlers (CommandLineParser.cc) | remaining arguments, phase, parseStatus, issuedHelp, loaded machine and settings | one action per option handler (`HelpOption`, `VersionOption`, `ControlOption`, `MachineOption`, `SettingOption`), `ParseFileName`, `Postpone`, the end of a phase, the default loads |
| `HelpFormat` | `formatHelptext` loop, `formatSet` widths | text index, produced lines | `WrapLine`, `LastLine`, `OutOfRange` |
| `KeyClick` | KeyClick.cc | status, DAC writes with their times | `Construct`, `Reset`, `SetClick`, `Tick` |
| `ImGuiMachine` | `getTestResult`, `printConfigInfo`, `paint`, `showMenu`, `getAllMachines`, `ImGuiManager::executeDelayed` | test-result cache, command queue, current and default machine, the window and pause flags, each configuration's metadata, the machine list, the type filter and search string | `PaintFrame` (the first one builds the machine list with `AllMachines`, storing the metadata under the `Replacer`'s names; the Current machine node, open or not; one user action a frame: a click, a button, the type combo or the search string; `Filtered`, `KeyMatches`, `SearchMatches`, `ValuesFor` for the list box), `ShowMenu`, `RunTest`, `RunMachine`, `RunQueued` |
| `GLHQEdges` | `calcInitialEdges` and `uploadBlock` (GLHQScaler.cc 142-217) | the frame and the texture rows | `UploadBlock`, with the loops as the RECURSIVE operators `InitialEdgesFrom`, `RowFrom` and `BlockRows` |
| `GLHQScaler` | the constructor and `scaleImage` (GLHQScaler.cc 26-139), composed with `GLHQEdges` | GLHQEdges' variables, `activeUnit`, `bound`, `programActive`, `samplerUnit`, `linearize`, `lastDraw` | `Init` (the constructor), `ScaleImage` (`HqBindings` or `Plain`, then the draw), `UploadBlock` (GLHQEdges' rows plus the edge-texture bind) |
| `SlotMap` | abstract slot hierarchy (spec 4.3), device defaults of MSXMemDevice.hh | expanded, binding, selections, RAM contents, last read | install, remove, expand, select primary or subslot, read, write |
| `AddressSpace` | the bus as implemented: the flat cache and the CPU's read and write cache lines | SlotMap's variables, `flat`, `cpuLine`, `cpuWLine` | the same operations, each followed by the rebuild (`Rebuilt`) |
| `Scheduler` | spec 4.2 | now, pending list, runUntil target, registration counter | `ScheduleAt`, `Cancel`, `RunUntil`, `Fire`, `EndRun` |
| `MSXCore` | the single-threaded core: Scheduler + AddressSpace | all of the above | CPU steps between runs, device scheduling, the run, callbacks that schedule and switch banks |

How the models abstract the code:

- A word of the hq texture is the set of its 1 bits: `>>` is `Shr`, `&` is an
  intersection and `|=` is a union.
- In the address space, a page stands for all of its addresses, and a cache
  line is the page's buffer.
- A GL texture is a record of its kind and factor index; GL calls are modelled
  by their effect on the bound textures, the active unit and the program.
  `ColourTexture::drawRect` (GLUtil, not in the source) is taken to bind the
  source texture on the active unit and draw.
- The Scheduler and the AddressSpace are not in the source sample. They are
  modelled from the spec, and marked `spec_modelled` in the map. The device
  defaults of those modules come from `MSXMemDevice.hh`.

### Refinement

`AddressSpace` instantiates `SlotMap` with the identity mapping, so `flat`,
`cpuLine` and `cpuWLine` are hidden. `MSXCore` checks `AddressSpaceRefinesSlotMap == SM!Spec`.
This means every read through the flat cache or a cache line returns what
walking the hierarchy returns. It holds across bank switches by the CPU, by the
configuration layer and by callbacks.

A read records its page as well as its value. Without the page, a stale read
could pass as a read of another page. A write through a stale write line
changes a RAM the hierarchy no longer shows, which SlotMap's `Write` cannot do.

## Runs

There are five pass runs.

- **`clp`** checks `ArgsHandledOnce`, `HelpSuppressesMachine`, `SingleMachineLoad`,
  and `FileTypeByExtension`.
  - Inputs: every command line of up to 4 arguments over the modelled options,
    a Name and four file names.
  - `FileTypeByExtension` says that a file argument is taken by a file type
    exactly when its reference extension (`RefExtension`: after the last dot,
    cut at a following comma, the inner one for gz/zip) is registered. The
    code finds the extension with `find_last_of` results stored in
    `unsigned` and compared with the `size_t` `npos` (`Extension`). The run
    uses equal widths (a 32-bit build), so it cannot see the LP64 wrap; see
    "Known, but not a run".
- **`imgui_machine`** checks `TestAssertHolds`, `DisplayNamesUnique` and
  `MachinesSorted`, with three configurations. Each configuration's test is
  queued once, and its result is never stored before its test runs.
  - The machine list names every configuration once. No two display names are
    equal, even ignoring case, and the list stays sorted ignoring case after
    the names of a group are extended with " (config)".
  - A name is a sequence of words. A word carries its rank in the
    case-insensitive order, so "Sony" and "SONY" have the same rank. The
    second and third configurations are "Sony" and "SONY", a group that
    differs only in case. The first may have the manufacturer "" or "Sony"
    and the code "" or "HB-F1". So it joins the group (a group of three),
    sits before it ("HB-F1"), or sits after it ("Sony HB-F1", or its
    configuration name). A suffixed group therefore has a neighbour that
    its re-sort must not pass, and some names are prefixes of others.
  - Assumed: configuration names differ even ignoring case (they are
    directory names). Not expressible: characters below "(" after a shared
    prefix (e.g. "Sony !x" beside two "Sony"). With them, the re-sorted
    group would come after that name, so the list would be out of order.
  - `ranges::sort` is not stable, so every order of equal names is explored.
- **`glhq`** checks `EdgeTextureCorrect` and `HqDrawSeesItsTextures`.
  - Every texture word equals the reference edge word of its clamped 3x3
    neighbourhood.
  - Every draw with the hq program active is a 320-pixel draw scaled by 2-4,
    and each sampler reads its texture of that factor. This needs the
    constructor's uniforms, the else branch's `deactivate`, unit 0 made active
    last, and uploadBlock's bind in between to agree.
  - Inputs: every 3x3 two-colour frame, every sequence of uploaded blocks and
    of scaleImage calls (source width 320 or wider, output 1-4 times as wide
    and 2, 4, 5, 6 or 8 lines high for a 2-line block).
  - A fixed-pipeline draw records neither its factor nor the samplers, which
    only the hq program reads.
- **`core_bus`** checks the refinement above.
  - Bounds: 2 primaries, 2 subslots, 1 page, one RAM and one plain device
    bound at the same time, 2 values.
- **`core_sched`** checks `NoTimeTravel`, `CancelledNeverFires` and
  `EventsFireInOrder`.
  - `EventsFireInOrder` is an action property: a fired event is due, and it
    precedes every event still pending or registered by its callback.
  - Bounds: 2 tokens, times 0..2, 3 registrations.

There are seven violation runs. Each checks one property taken from the spec or
the code's intent. TLC finds each one violated; see "findings" in PROJECT.json.

| Run | What the code does |
|---|---|
| `clp_trailing_option` | reads `front()` of an empty list (undefined behaviour) |
| `clp_version_control` | `-v -control` starts without a machine |
| `clp_machine_after_help` | `-machine name -v` is rejected |
| `keyclick_reset` | a machine reset while the click is on writes the DAC at the dummy time 0, before the last write (`DacWritesInOrder`) |
| `helpformat_wrap` | `formatHelptext` loops forever or throws `out_of_range` |
| `imgui_double_click` | a double click queues `machine` for a row whose test has failed, which Replace refuses (`MachineOnlyWhenNotFailed`) |
| `imgui_type_filter` | the type combo offers no type: the keys were stored as "Type", but the filter looks up "type" (`TypeComboOffersTypes`) |

The constructor's read of the uninitialised `status` (KeyClick.cc 28) is a
hazard without a property. Either value decides only whether the constructor
writes 0x80 once. After `reset`, `status` is false either way, so no behaviour
tells the undefined read apart from a correct initialisation.

Every property of a pass run has a mutant in `PROJECT.json`. A mutant is a
plausible bug in one mapped definition, and TLC must find the property violated
under it. Examples:

- a remap drops the read cache lines but not the write cache lines;
- `sameDisplayName` compares case-sensitively;
- scaleImage leaves unit 1 active before the draw;
- ties fire LIFO;
- `cancel` removes only the first event;
- the carry mask drops bit 8.

## Bounds and why they suffice

- **`clp`.** Four arguments are enough for an option and its argument, followed
  by `-h`/`-v`/`-control`/`-machine` in both orders.
  - File names are sequences over `r` (the text of the registered extension
    `rom`), `g` (gz and zip), `.` and `,`. The four names, `r.r.g`, `r.g`,
    `r.r,g` and `r`, reach every branch of `parseFileName`: the inner
    extension of a compressed file, a compressed file without one, the cut at
    a comma, and no dot at all.
  - `unsigned` and `size_t` are 8 bits wide (`UBits`, `SizeBits`). Only
    wrap-around and the equality of the two widths matter, so 8 bits behave
    as 32 do. The violation runs about the option handlers use the single
    file name `r.r` to keep their counterexamples short.
- **`glhq`.** With a 3x3 frame:
  - every pixel has the first, middle and last column and line;
  - every border clamp is exercised;
  - the column carry and the row carry both occur.

  Two pixel values decide every `edge` outcome, because only equality matters.
  The scaleImage inputs reach every branch: factors 0-4 in X, exact and
  inexact factors in Y, equal and unequal factors, and 320 and wider lines.
- **`core_bus`.** Two primaries and two subslots with one page give:
  - an expanded slot next to a plain one;
  - a RAM (which offers cache lines) next to a plain device (which does not),
    both bound at once (`MaxBound` 2), so a select moves the window between
    them while the CPU holds a line;
  - two values, so a write through a stale line is visible.

  Lines are per page, so a second page adds no stale-line case; with two pages
  and two values the run takes over five minutes.
- **`imgui_machine`.** Three configurations are the fewest for which a
  suffixed group has a neighbour. The search strings are none and one that
  removes rows. The clipper shows any non-empty range of the filtered rows.
- **`core_sched`.** Three registrations over two tokens and three times give:
  - equal-time ties;
  - a token pending twice before a cancel;
  - a callback registering an event at the time being fired.

The full product of both core bounds is beyond a 5-minute run. The two MC
modules therefore keep the other half minimal: no RAM and one page for
`core_sched`, and one token and time 0 for `core_bus`.

## Fairness

No module assumes fairness, because every property is a safety property.
That parse ends, or that a queued test eventually runs, is not checked. Both
hold by the models' shape: each parse iteration pops an argument, and
`getTestResult` emplaces and queues in consecutive statements.
`ImGuiMachine`'s `PaintFrame` needs an empty queue. `ImGuiManager` is taken
to run the delayed commands before the next frame; its .cc file is not in
the source. A `runUntil` that keeps being fed zero-delay events need not
return; the model bounds this with `MaxSeq` instead of claiming progress.

## Not modelled, and the plan

The components listed `not_modelled` in PROJECT.json are headers with
declarations only, pure I/O, or presentation.

Not modelled, with the reason:

- **The machine instances list** of `ImGuiMachine` (`activate_machine`,
  `delete_machine`): what these commands do is in the Reactor, which is not in
  the source.
- **Carnivore2 and the mapper-port arbiter** (Carnivore2.hh, spec 4.4): the
  header only declares `writeIO` and `writeConfigRegister`. Their bodies, the
  global-read observer, `reset` and `powerUp` are in Carnivore2.cc, and the
  mapper-port dispatch is in MSXMapperIO; neither is in the source. The
  SharedResourceArbiter is the spec's redesign (spec 111: the original relies
  on iteration order). A model of it would only check the spec against
  itself, so none is kept. The hazards of Carnivore2.hh are listed with notes.
- **`scaleImage`'s caller**: the division by an empty block and a factor of 5
  or more depend on it.

Known, but not a run:

- **The cached machine list.** `getAllMachines` builds the list once. A
  configuration added to the machines directory later and loaded from the
  console is not in it, so "Current machine" finds no entry and
  `assert(info)` (ImGuiMachine.cc 113) fails. The model, like the cache,
  takes the configurations as fixed, so this is recorded as a hazard only.

- **`parseFileName` on LP64.** The clp run checks the 32-bit build. With
  `MCSizeBits == 16` (a `size_t` wider than `unsigned`), TLC finds
  `FileTypeByExtension` violated by the single argument `r`. There,
  `(unsigned)npos != npos`, `begin + 1` wraps to 0, and the whole argument
  is looked up, so `openmsx rom` takes a file named `rom` as a ROM image.
  The project is at its run budget, so this is recorded as the hazard at
  CommandLineParser.cc 145 rather than as a violation run.

The machine list's filters: the type combo offers --all-- and the values of
`getAllValuesFor("type")`; when a type is chosen, a machine without the key,
or with another value, is erased. The metadata is stored under the
replacer's names ("Type"), so the lookup of "type" finds nothing: the combo
offers only --all--, and the filter never applies (run `imgui_type_filter`). The search string is split at spaces, and each part must be
a case-insensitive substring of the display name. A part has no space, so it
is a substring of the name exactly when it is one of a word of it; a part is
therefore given with the ranks of the words it occurs in (`MCFilterStrings`:
none, or "hb-f1 xd", which only the second configuration's name contains).
"Current machine" runs `getTestResult` for the current configuration only
while its tree node is open (it is not open by default).
The clipper draws a contiguous range of the filtered rows, and only drawn
rows are tested and clickable. The region combo is the same filter with the
key "region" and is left out; it adds no control the type combo lacks.
