# Verification of muen-orin in TLA+

muen-orin ports the Muen separation kernel to the NVIDIA Orin. Most of the
repository declares how third-party software is fetched, patched and built;
the logic of its own is

* the **EFI inventory probe** (`tools/efi-inventory`, C): a UEFI application
  that reads the firmware's memory map, configuration tables and variables and
  the flattened device tree, and prints one JSON record;
* the **QEMU launcher** (`contrib/runQemu.py`): starts an image under QEMU and
  remembers its process in a PID file;
* the **CI runner** (`ci/run.sh`): chooses recipes and test plans, builds them
  and hands the plans to `nci`;
* two small programs: the source manifest generator and a ping-pong demo.

The modules here model the first three. They are model-checked by TLC on small
instances, and every safety property the runs check is also proved with TLAPS
for every value of the constants. `PROJECT.json` maps each definition to the lines it
translates.

## Inventory

| component | state | operations | partners | what is hard |
|---|---|---|---|---|
| `acquire_map`, `release` (probe.c 54-99) | capacity, attempts, releases, statuses, the buffer in scope | AllocatePool, GetMemoryMap, FreePool, growth, classification | firmware pool | partial failure, retries, ownership, answers that are stale after the next allocation |
| `map_next_capacity`, `parse_map` (core.c 12-71) | loop index, count, listed entries | header checks, one descriptor per round | called by `acquire_map` | wrap-around at 2^64, bounds |
| `parse_firmware_dt`, `parse_dt` up to the walk (core.c 72-132, 182-190) | verdict, position in the reservation map | header, block placement, reservation entries | firmware memory | declared lengths used as bounds, unsigned differences, placements |
| `parse_dt`'s walk, `take_model` (core.c 78-97, 133-175) | position, depth, roots, `has_child[]`, model | one token per round | follows the checks above | flags shared by siblings, index bounds, orders of tokens |
| record writer `put` (core.c 232-243) | buffer, length, truncated | put | the record builder | off-by-one at capacity 0 and 1 |
| `efi_main`, `print` (probe.c 42-53, 206-241) | return status | entry checks, chunked output | console, all of the above | an error in any chunk, precedence of statuses |
| `find_dt` (probe.c 103-121) | index | bounded table search | configuration table | absence past the bound, several entries for a tree |
| `parse_var`, `decode_el`, `read_vendor` | none | one decision on one answer | runtime services, registers | warnings are not success |
| `build_record` and its helpers (probe.c 21-36, 122-194; core.c 244-257) | writer | one field after the other | writer, every observation | the worst-case length depends on four limits, on escaping and on all observations at once |
| `runQemu.py` | PID file, QEMU processes | terminate existing, start, record | other launchers, the operating system | interleaving, interruption, exceptions that nobody handles, reused ids |
| `ci/run.sh` | `runner` array, `nci_plans` | select, build, set up, run | bob, nci | two sources of plans, skipped recipes, recipes that nci-config does not know |
| `source_manifest.py` | counts | classify digests | recipes | derived counts agree |
| `pingpong.c` | averages | measure | counter registers | unsigned differences, macro without parentheses |
| recipes, classes, patches, tests, workflow, porting documents | - | - | - | declarative, or evidence for the rest |

The probe is one thread; concurrency in it is the firmware's freedom to answer
each call as it likes and to change its map between two calls. Only the
launcher has processes that overlap. What makes each component correct is the
list of properties below; the hazards behind them are in `PROJECT.json`.

## Modules

| module | models | how state and actions correspond |
|---|---|---|
| `Efi` | efi.h, core.h | statuses (success, errors, warnings), the states of an observation |
| `MapChecks` | the functions of core.c 12-71 | operators with the source's names; words wrap at `UINT64_MAX` |
| `MapAcquisition` | `acquire_map`, `release` | `pc` names the firmware call the loop comes to next; one action per answer (`AllocationFailed`, `AllocationNull`, `Allocated`, `GetMemoryMap`, `ReleaseForRetry`, `ReleaseFinal`) and one per stretch of code between calls (`TooSmall`, `Answered`, `RetryLimit`); `pool` is the firmware's own account of the buffers |
| `PoolDiscipline` | - | abstract: what the probe promises about pool memory |
| `ConformingFirmware` | `MapAcquisition` with a firmware that keeps the UEFI contract | adds the size of the firmware's map, which allocating grows and freeing may shrink |
| `MapParser` | `parse_map` | one descriptor per step, chosen when it is read |
| `Writer` | `put` | one unit per step; `all` is what a buffer without a bound would hold |
| `EfiMain` | `efi_main`, `print` | composes with `MapAcquisition`: its steps are taken where `efi_main` calls `acquire_map`; one `OutputString` call per step |
| `DtBlocks` | `parse_firmware_dt`, `parse_dt` 98-132 | fields are chosen when they are read; `extent` records how far was read |
| `DtStructure` | `parse_dt` 133-175 | one token per step; `tokens` records them without NOPs |
| `DeviceTree` | `parse_firmware_dt` as a whole | composes `DtBlocks` with `DtStructure`: the walk (`Walk!...`) starts where the checks have placed its block, and reads that block's size from the checked layout |
| `RecordText` | the helpers of `build_record` | operators that count the characters a field adds |
| `Inventory` | what `efi_main` observes, `find_dt`, the small observations, `build_record` | one observation, one entry of the configuration table or one group of fields per step, in the code's order; `length` is the text so far |
| `QemuPid` | `runQemu.py` | each access to the file system or to another process is a step, and every call but the probing and the signalling may fail (`Raise`); `Interrupt`, `ProcessEnds`, `OtherStarts` are the world; `lost`, `overwritten` and `alone` are histories |
| `CiRunner` | `run.sh` 114-265 | one round of each loop per step; the `runner` strings are sequences of plans and separators |
| `MC*` | - | instances for TLC |
| `*_proofs` | - | the proofs about the module of that name; `AcquisitionContext_proofs` has those about `ConformingFirmware` and `EfiMain`, `Record_proofs` those about `Writer` and `Inventory` |

Definitions marked "Mistaken variant" next to an operator are not part of the
model. They are what a plausible slip would have made of the operator below
them, and each property is known to fail when its variant is put in.

Abstractions worth knowing:

* `MapAcquisition` takes the verdict of the descriptor loop as an input;
  `MapParser` has the loop. `EfiMain` reduces the record to any length; `Writer`
  has the writer; `Inventory` has the lengths that `build_record` can produce.
* `DtStructure` takes for granted that its block is a whole number of words
  (`StructureConstants`). `DeviceTree` drops that: there the block is the one
  `DtBlocks` let through. A property's name is `model` only when the strings
  block has room for six bytes (`Reachable`).
* `Inventory` keeps of every text its length: of a detail its letters, of a
  number its digits, of an escaped text between one and six characters per
  unit. The numbers that are printed are any of their width, which is wider than
  the program for counts that it bounds itself (`units`, `attempts`,
  `tables_searched`): the bound on the record holds without those bounds.
  `acquire_map` and `parse_firmware_dt` are their outcomes here; their modules
  say which those are.
* `DtStructure` keeps of a name only its length and whether it is `model`, and
  of a model only its length and which of `take_model`'s cases it is.
* `QemuPid`: opening and reading the PID file are one step; ids are of one
  length, so two writers overwrite each other exactly; a QEMU leads its own
  process group and outlives its launcher, as `stop_disable` and `killpg`
  presuppose. `vm.start` of NCI, which the repository only calls, is the choice
  of a free id, and may raise before or after QEMU runs. A write that fails
  leaves nothing in the file, not a part of an id. Two histories name the ways a
  QEMU can be lost: `lost` are those whose launcher ended with the id in its
  hands (read and not signalled, or not written yet), `overwritten` those whose
  record another launcher deleted, emptied or replaced; an id leaves both when
  its process ends. `alone` says that no launcher was started while another ran.
* `CiRunner` leaves out the modes `-g`, `-l` and `-h`, which only print or
  generate files. What `bob ls` and `grep` find are constants, and so is which
  recipes are of the two architectures that `nci-config` has a directory for.
  For a recipe that is of neither, as `muen_unittests` is, `find` fails at line
  173 and `set -e` ends the script. `grep -w "$r$"`
  accepts the last part of a name too; such names are `Suffixes`, and a later
  command stops the script.

## Runs

| run | instance and bounds | why they are enough | what it shows |
|---|---|---|---|
| `map_acquisition` | the real limits (4 KiB, 256 KiB, 5 attempts); one status of each kind; sizes and strides on both sides of every comparison | the code compares, adds and divides the sizes; each outcome of each comparison occurs, and five answers in a row can be too small | ownership (`ReleasedExactlyOnce`), honest reporting (`FailedReleaseReported`, `ReportFollowsAnswers`), bounds (`ReadsStayInBuffer`, `CapacitiesGrow`), `StopsAfterFailedRelease`, `Terminates`, and that it implements `PoolDiscipline` |
| `map_parser` | 4-bit words, 4-byte pages, 5-byte descriptors, up to three of them, two listed | products and sums reach and pass the word's end; strides equal, exceed and do not divide | reads in bounds; a map is observed exactly when all unwrapped ranges fit; the list is a prefix |
| `conforming_firmware` | 1, 81-87, 99-105, 5455-5463, 6547-6555 descriptors of 40 and 48 bytes | these straddle 4 KiB and 256 KiB for both strides | two descriptors of slack suffice: at most one retry, and the map is obtained |
| `writer` | capacities 0-8, texts of up to 6 units over two values | one unit more than any text needs | no write outside; truncated exactly when something was lost |
| `efi_main` | record lengths around 126, 252 (whole chunks) and 256 (the capacity here); two attempts | longer records repeat the cases; the number of attempts is `map_acquisition`'s question | output in order and complete, nothing sent after an error (`QuietAfterError`), precedence of the status, nothing held at return, `Returns` |
| `device_tree` | real header and entry sizes; spans and totals of 0-119 bytes, every placement on the edges of an 88-byte blob, up to three reservation entries, 2-bit words; a 118-byte blob whose structure block has 14 words; depth limit 3, model limit 2 | blocks touch, nest, overlap, are empty, misaligned, past the end, in every order; the large block has room for three levels, siblings, late properties and two models; names and values lie on both sides of a word's end | what is read, accepted and refused by the checks; the walk stays in the block they placed; a tree is accepted exactly when it obeys the rules; the model is the root's; no byte serves two purposes |
| `inventory` | the record's real limits, every number at its longest; two entries are searched of tables of up to three; vendors of 0, 3, 64 and 65 units; escaped texts of 0, 3 and 384 characters | the tree's entry is absent, first, last, behind the limit, repeated, without a blob; the longest texts and the longest numbers meet in one record | absence is claimed only after the whole table, the first entry decides, the longest record fits |
| `qemu_pid` | two launchers and a `--terminate-only` one, three ids, exceptions and interruption anywhere | an id can pass to another process while a second QEMU runs; three launchers can overlap, or follow one another | in every interleaving: `EmptyOnlyWhileWriting`, and `NoOrphan`, that a QEMU is lost in no third way; without overlap, exceptions and interruptions included: `NothingOverwritten`, `TerminateOnlyTerminates` |
| `ci_runner` | requests of up to two recipes, or two plans, or nothing, or a recipe and a plan of another one; recipes with and without default plan on both architectures and one of neither, plans of one, two and no recipe | each pair of loop rounds that can influence each other occurs | the plans that reach `nci` are those asked for; exactly the requests that cannot be served are refused (`RefusesExactlyUnsupported`); what is built is what runs |
| `map_limit`, `qemu_pid_interrupt`, `ci_both` | as above, or a recipe and any plan | | the findings below |

`MAP_LIMIT`, `MAP_ATTEMPTS` and the like are constants of the code. `Statuses`,
`Sizes`, `MaxText`, `Launchers`, `Requests` and the other sets are the bounds
of the instances. Deadlock is not checked where the modelled program stops.

**Fairness.** `MapAcquisition` and `EfiMain` assume weak fairness of their whole
next-state relation, nothing finer: the probe is the only thread of the boot
processor, and every firmware call returns. Under it `Terminates` and `Returns`
hold whichever answers the firmware gives; no fairness between answers is
assumed. That a conforming firmware's map is obtained in the end is `Terminates`
together with `ConformingOutcome`. The other modules need no fairness; the
parsers' progress is stated by the action properties `Advances` and
`RoomShrinks`, which are proved and not run: every step consumes input that is
bounded.

## Findings

* `map_limit`: a consistent too-small answer whose descriptor size exceeds
  `MAP_LIMIT` is reported as `malformed` `too_small_stride` (core.c 28), while
  core.h 4 says that exceeding a limit is never reported as malformed.
* `qemu_pid_interrupt`: a launcher that is interrupted, or that an exception
  ends, between the start of QEMU in `vm.start` and the end of the write
  (runQemu.py 78, 116) leaves a QEMU that `--terminate-only` ("terminate
  existing QEMU if running and exit") does not terminate, or an empty PID file
  on which every later run raises.
* `ci_both`: `-r` and `-p` for one recipe glue the default plan and the
  requested one into one word (run.sh 163 and 206), though the usage shows the
  two options together.

Five observations without a run. The probe's README calls whatever is outside
its device-tree contract `malformed`, while nesting beyond 64 levels is
`unsupported` `depth_limit` (core.c 147), as core.h asks for limits. An
empty block whose offset lies strictly inside another block is refused as
`block_overlap`, though it shares no byte with it. `RefusesOnlyUnsound` makes
the exception for it.
The "largest record" of tests.c (786), of which the probe's README says that it
has 2699 bytes, is the largest one tested and not the largest there is: its
model is plain text, and one of control characters, which `take_model` accepts,
takes six characters for each byte. `LongestRecord` (3550 characters with core.h's
limits) bounds them all and still fits; so with that capacity the marker for
truncated records is never needed. And
`firmware_vendor` prints `units` 0, not null, when nothing was observed
(probe.c 136), as tests.c 684 expects, though the comment at probe.c 129 says
that values that were not observed are null. A recipe of neither architecture
(`muen_unittests`) passes the script's check of the name (run.sh 133) and then
ends it at line 173 with the message of `find` only.

## Proofs

All theorems hold for every value of the constants that satisfies the named
assumptions (`MapConstantsAssumption`, `AcquisitionAssumption`,
`ParserAssumption`, `FirmwareAssumption`, `WriterAssumption`,
`RecordAssumption`, `BlocksAssumption`, `TreeAssumption`, `TextAssumption`,
`InventoryAssumption`, `CapacityAssumption`, `LaunchersAssumption`,
`RunnerAssumption`). They say that
limits are positive numbers, that the sets are of numbers or statuses, that a
firmware adds at most two descriptors per allocation, that printed numbers have
as many digits as their width allows (16 for a page count, which `parse_map`
bounds), that the record's capacity exceeds `LongestRecord`, which core.h's
limits satisfy (4096 > 3550), that ids differ from the two other contents of a
PID file, that recipes, the other names `grep` finds and the names it does
not find are three different things, as are plans and the names without a file,
and that the two architectures share no recipe, that the default selection is
made of theirs, and that an x86 recipe has at most one default plan. In particular the word size, the limits,
the number of attempts and the depth limit are arbitrary.

| module | invariant | why the parts are needed | theorems |
|---|---|---|---|
| `MapAcquisition_proofs` | `IInv` = `TypeOK`, `ScopeInv`, `PoolInv`, `ReleaseInv`, `GrowthInv`, `ReadInv` | ownership is inductive only with the link between `pc`, `buffer` and the firmware's account (`ScopeInv`, `PoolInv`); the reported status only with "while the loop goes on all releases succeeded" (`ReleaseInv`); growth needs the capacity promised by a growth that waits for its release (`GrowthInv`). The report needs `ReportInv` as well: the link from the result to the last answer survives the release between them, and the status of an attempt the allocation that fails after it. `StepsLeft` is the loop's variant | `TypeCorrectness`, `ReleasesExactlyOnce`, `ReportsFailedRelease`, `ReadsInsideBuffer`, `CapacityGrowth`, `NoAttemptAfterFailedRelease`, `Refinement`, `ReportsTheAnswer`, `StepsRunOut` |
| `AcquisitionContext_proofs` (`ConformingFirmware`) | `FInv` = `IInv`, `FTypeOK`, `RoomInv` | `RoomInv` follows the slack from the answer over the release to the second GetMemoryMap: the map then fits `cap`. `OutcomeInv` adds that answers are truthful, so that only the limit can refuse one; it needs two attempts (`MAP_ATTEMPTS >= 2`, a hypothesis of the theorem) | `SlackSuffices`, `OutcomeConforms` |
| `MapParser_proofs` | `PInv`, with `LoopInv` and `ListInv` | every descriptor read so far is valid, and the list is the prefix of them | `VerdictIsExact` (a lemma on the arithmetic), `ParserTypes`, `ParserReads`, `ObservedMaps`, `RejectedMaps` |
| `Record_proofs` (`Writer`) | `WInv`, with `FullOnceTruncated` | once a unit was dropped the buffer stays full, so no later unit is stored behind a gap. `FlagTellsLength` (the flag is set exactly when the whole text does not fit) is what lets `EfiMain` decide truncation by length | `WriterTypes`, `StaysInsideBuffer`, `HonestTruncation`, `FlagTellsLength` |
| `AcquisitionContext_proofs` (`EfiMain`) | `EInv`, with `IInv`, `StageInv`, `ProgressInv` | which texts are complete at each stage; `IInv` carries over because the acquisition's steps are `MapAcquisition`'s | `EfiTypes`, `OutputOrder`, `ReturnsByPolicy`, `HoldsNothing`, `QuietOutput` |
| `DtStructure_proofs` | `SInv` = `TypeOK`, `StaysInBlock`; `WalkInv`, with `TokenInv` | position and end are multiples of four, so rounding up never passes the end. `TokenInv` ties the walk's variables to the tokens read: `roots` tells whether there was any, the flag of the open node whether it has closed a subnode, and every node around the open one has its flag set, so that leaving a node needs no look back | `StructureTypes`, `StructureReads`, `StructureProgress`, `StructureTrees`, `StructureRefusals`, `StructureModel` |
| `DeviceTree_proofs` | `BInv`, with `HeaderSound`, `PrefixRead`, `MapSound`; `TreeInv` | what the checks established must survive until the reservation map ends: its limit is at most the start of every block that follows it. `TreeInv` adds that the walk's variables are untouched before it starts and in `SInv` afterwards: the alignment check gives what `DtStructure_proofs` asks of a block (`WalkAssumption`), and its lemmas on the walk's steps are used as they are, for `SInv` and for `WalkInv`. `RefusalInv` remembers where the end of the map comes from, a block or the blob's end | `BlocksProgress`, `TreeTypes`, `TreeReads`, `TreeLayout`, `TreeWalk`, `TreeBytes`, `TreeRefusals`, `TreeAccepts`, `TreeRejects`, `TreeModel` |
| `Record_proofs` (`Inventory`) | `RInv` = `TypeOK`, `SearchInv`, `LengthInv` | a search that goes on has met no tree (`SearchInv`); the length at the end is inductive only with a bound for each stage of the record (`LengthInv`), which the lemmas `VendorBound` to `DescriptorBound` add up | `InventoryTypes`, `AbsenceConfirmed`, `FirstTree`, `RecordNeverTruncated` |
| `QemuPid_proofs` | `PInv` = `PidTypeOK`, `StageInv`, `EmptyOnlyWhileWriting`, `NoOrphan`, `SoleInv` | what a launcher knows at each stage of its own (`StageInv`, which overlap and the end of others cannot change): it makes `NoOrphan` inductive, as an id leaves the file or a launcher's hands only into the other's, into `lost` or into `overwritten`; and, as long as launchers do not overlap, that one at most is active and what it has seen of the file is still true (`SoleInv`), so that it destroys no record but the one it has read | `PidTypes`, `EmptyFileIsTransient`, `NoQemuIsLost`, `RecordsAreKept`, `TerminateOnlyKept` |
| `CiRunner_proofs` | `CInv` = `RunnerTypes`, `Planned`, `Collected`; `Gathered` | which recipes of the request are in the array at each stage, that those that are not had no default plan, and which of the request have been found fit (`Collected`, with `FitRecipe` and `FitPlan`); what the strings and the plans still to come amount to, and that a string to which a plan may be appended is empty or ends with a space (`Gathered`) | `BuildsWhatRuns`, `RefusesUnsupportedOnly`, `RunsAsked` |

The theorems of `DtStructure_proofs` carry the hypothesis `StructureConstants`,
so that the composition can discharge it. `RunsAsked` has two hypotheses:
no request names a plan together with its own recipe (`PlansApart`; `ci_both`
shows what happens otherwise), and no recipe has two default plans
(`OneDefaultPlan`): the script's patterns select one deployment per recipe, and
two would be glued together in the same way. The plans themselves
(`ci/nci-config`) are not in the repository's source, so the second one stays a
hypothesis.

A tree is defined over the whole sequence of tokens, and no induction over
sequences is needed to prove that the walk accepts trees only: a token is
appended at a time, and the lemmas `LevelAppend`, `PlaceAppended`,
`ClosedAppend` and `ModelAppend` say what one more token makes of the nesting,
of what is in place, of the flags and of the model. `AppendedWord` does the same
for the words of a string.

Each invariance proof has a lemma per action and, in it, a step per conjunct
the action can disturb; the temporal theorems combine them with PTL.
`Refinement` is `Spec => Discipline!PoolSafety`: each step of the acquisition is
a step of the discipline or a stutter under the mapping in `MapAcquisition`.

Only model-checked: liveness (`Terminates`, `Returns`, and the
fairness part of `ImplementsPoolDiscipline`), which involves ENABLED. Of
the first, `StepsRunOut` proves the arithmetic: at most `4 * MAP_ATTEMPTS + 3`
steps, each using one up; what is left to TLC is that a step is always possible
before `done`. `StructureProgress` and `BlocksProgress` are the same for the
device tree's loops. What
`build_record` writes is proved as a sum of lengths; that these are the lengths
of the texts is the model's translation of the helpers.

## Plan

Written and checked, in this order, which is the order of importance: the
acquisition and its discipline, the map checks and parser, the conforming
firmware, the writer, `efi_main`, the structure walk, the blocks, the launcher,
the CI runner; then the whole device tree parser as a composition, and the
other observations with the record. The proofs followed the same order, the
launcher, the tree and the CI runner last. Left: the variants of `EfiMain` (the
acquisition's, then the units still to be printed) and of the composed device
tree walk, as `StepsRunOut` states the acquisition's.

## Not modelled

* The source manifest generator is one pass over sorted data without state
  between runs; its unit tests reach every class of digest.
* The ping-pong demo prints two sums over hardware counters, about which the
  repository promises nothing. Its two oddities (an unparenthesised macro,
  a difference that wraps) are listed as hazards without a property.
* The characters of the record (keys in quotes, digits, escapes) are
  formatting; only their number matters to a property.
* Bob recipes, classes and the workflow are declarations that Bob and GitHub
  interpret; the patches change code that is not here; the documents and tests
  are used as statements of intent.
* Modes `-g`, `-l` and `-h` of the CI runner only print or generate files.
