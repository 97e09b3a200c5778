# TLA+ models of the CTPPS simulation and reconstruction

The repository holds the packages of CMSSW in which the CT-PPS detectors (silicon strips,
3D pixels and timing detectors in Roman pots) are simulated, read out and reconstructed,
together with the packages they were developed against: the Geant4 application, the mixing of
pile-up, the input of event files, and the tools of the conditions database. This directory
models those parts of it whose correctness is a matter of control (who does what, in which
order, on which state) and leaves numerical physics aside. `PROJECT.json` lists the
components, the runs of TLC, the theorems, the hazards, and for each definition the lines of
the source it stands for.

Contents: [1 inventory](#1-the-system) · [2 plan](#2-plan) · [3 modules](#3-the-modules) ·
[4 runs](#4-the-runs-and-their-bounds) · [5 fairness](#5-fairness) ·
[6 proofs](#6-what-is-proved) · [7 only model-checked](#7-what-is-only-model-checked) ·
[8 not modelled](#8-what-is-not-modelled) · [9 met while modelling](#9-met-while-modelling)

## 1 The system

Data flows through modules of the framework, which calls them (`beginRun`, `produce`,
`endRun`, ...) once per run, luminosity block or event, and hands each the products of the
ones before:

    PoolSource ──► Hector ──► OscarProducer / OscarMTProducer ──► MixingModule ──► digitisers ──┐
    (IOPool)                  (Geant4 + sensitive detectors)      (pile-up)                     ▼
              raw data ──► TotemVFATRawToDigi ───────────────────► clusters ► hits ► tracks ► DQM
                                 ▲
              event setup: DAQ mapping and masks, geometry, alignment ◄── conditions database
                                                                          ▲ uploads, copies

| Component | State it keeps | Operations and callers | What is hard | What makes it correct |
|---|---|---|---|---|
| Geant4 master thread (`OscarMTMasterThread`, `RunManagerMT`) | two mutexes, two condition variables, a command, two flags, ESWatchers, the shared `RunManagerMT` | `beginRun`, `endRun` from global transitions of the framework, `stopThread` from `globalEndJob` and the destructor; the thread's loop | lost wake-ups, stale answers, exceptions between locking and signalling, concurrent runs, destruction | each call served exactly once, for the caller that waits; every call returns; the job ends; Geant4 stopped before it is destroyed, by its own thread |
| Single-threaded run manager (`RunManager`, `OscarProducer`, user actions) | initialised/terminated/aborted flags, current run, `RunAction`, `m_simEvent`, world, ESWatchers | `beginRun`, `produce`, `endRun`, destructor; Geant4 calls back the actions, which may call `abortRun` | re-entrance, exceptions in an event, stop file, later runs with other conditions | products belong to the event; the world to the run; every begun run is ended once |
| Workers (`RunManagerMTWorker`, `OscarMTProducer`) | per thread: `m_tls`; per stream: `m_simEvent`; CLHEP's engine per thread | `produce` and `endRun` of a stream on whatever thread is free | streams that move between threads, run changes noticed late, exceptions | products and engine are those of the stream; runs of a thread are signalled in pairs |
| Track history (`SimTrackManager`, `TrackingAction`, `EventAction`) | tracks of the event, `idsave`, `ancestorList`, two positions in containers | one call per track begun and ended; once per event | stack order against number order, forgetting at each primary, partial events | saved tracks with their whole branch; hits attributed to the nearest stored ancestor; vertices of stored tracks |
| Stacking and stepping (`StackingAction`, `SteppingAction`) | tables of regions, thresholds and probabilities, weights of tracks | per new track, per step | weights that products inherit, options that only work together | roulette is fair; a track lives by the rules of its region |
| Fast showers and limiters (`ParametrisedEMPhysics`, `GFlashEMShowerModel`, `GFlashHadronShowerModel`, `ElectronLimiter`) | the models and limiters a job registers, the watcher they notify | once per thread; per step of a track in a region | options that depend on each other, a step and a signal shared by all spots of a shower | a shower gives one hit per sensitive spot; only those are limited or killed that the options ask for |
| Sensitive detectors (`CTPPSSD`, `CTPPS_Timing_SD`) | the current hit, the slice and unit of the last step, lists of tracks | `ProcessHits` per step, end of event | steps merged into hits across tracks | hits are the deposits of the event, in the unit they were made in |
| Proton transport (`HectorProducerForCTPPS`, `HectorForCTPPS`) | beam particles, maps by barcode, links | per event before Geant4; `resetGenID` after it | barcodes of successors, exceptions in the middle of an event | what Geant4 starts from leads back to the generated proton |
| Event input (`PoolSource`, `RootPrimaryFileSequence`, `RootSecondaryFileSequence`, `DuplicateChecker`, `RunHelper`) | file and entry position, indexes of closed files, keys read, run numbers given | `getNextItemType` and the reads it announces, `skip`, `goToEvent`, `rewind` | navigation over files and back, unreadable and empty files, duplicates over files | every pass reads each event once, in order, but those the source loses by synchronising (§9), with the products of the same event of the secondary files; skips and searches land where they should |
| ROOT files (`RootFile`, `RootTree`, `RootDelayedReader`, `ProvenanceAdaptor`, ...) | index and position, auxiliaries, caches of trees, translated metadata | opening, reads of the sequence; products later, by stream | ten generations of the format, indexes rebuilt, reads after the tree has moved on | a stream reads the products of its own event; what is in the file is what is read |
| Embedded sequence and mixing (`RootEmbeddedFileSequence`, `MixingModule`) | positions in lists of files, a random or sequential cursor; adjusters and workers, chosen once; the playback record | per event, bunch crossing and source | cursors that wrap around, recursion, recorded against replayed choices | the playback repeats the mixing; pile-up is shifted by its own bunch |
| Raw data (`TotemVFATRawToDigi`, `RawDataUnpacker`, `RawToDigiConverter`, `CounterChecker`) | error summaries for the job; frames, counters for the event | `produce` per event | corrupted and unknown words, two formats, statistics over frames | frames sent are frames found; only good frames give digis; each other one a status |
| DAQ mapping (`TotemDAQMappingESSourceXML`, `CTPPSPixelDAQMappingESSourceXML`) | the current block of the configuration | `setIntervalFor`, `produce` per record | two records, one current block; trees with many refusals | the mapping used is that of the block of the event's time |
| Trigger and clocks (`TotemTriggerRawToDigi`, `TotemFEDInfo`, `TotemDAQTriggerDQMSource`) | histograms of the job | `produce`, `analyze` per event | a board listed twice, frames that are not whole | what is shown is what the boards said |
| Strip reconstruction (`TotemRPLocal`) | geometry of the planes met, in the line recognition and in the fitter, each with a watcher of the geometry record | `produce` of clusters, hits, patterns (the class `FastLineRecognition`) and fits per event | greedy grouping of lines, removal of used hits, what is remembered across a change of geometry | no line of enough hits is overlooked, no hit used twice; a track goes through its hits as they are placed in this event |
| Pixel digitisation (`CTPPSPixelDigiProducer`, topology) | a digitiser per detector with its dead pixels, its pile-up map | `produce` per event | members that live as long as the job; pixels of different widths | digis show the hits of this event, charge lands in the pixel it crossed or its neighbour |
| Pixel reconstruction (`CTPPSPixelLocal`) | set of digis, seeds, the growing cluster | `produce` per event | a set erased while it is scanned, limits of 256 pixels, 127 offsets and 16 bits | clusters are connected, complete and of this event |
| Geometry and alignment (`TotemRPIncludeAlignments`, `TotemRPGeometryESModule`, `TotemRPGeometry`) | sequences of intervals per record; trees of three geometries | `setIntervalFor`, `produce` per record | merge of intervals, ends that are exclusive, corrections of parents and children | a correction is the sum of those valid at the time; each geometry follows its own alignment |
| Strip DQM and its client (`TotemRPDQMSource`, `TotemRPDQMHarvester`) | histograms that live as long as the job | `analyze` per event, `dqmEndLuminosityBlock` | indices of pots in shared plots, the plot of a pot booked or reset by its first plane | what is plotted agrees with the tracks; the plot of a pot shows its planes over the same tracks |
| Upload sessions (`CondDBFW/uploads.py`, `url_query.py`) | a session, a locked tag, an IOV list | one client per upload, requests to the service | requests lost before or after they are served, retries, undecodable answers | success means stored; what is stored is what was asked for from the first condition safe run on |
| Drop box (`o2o.py`, `popcon2dropbox.py`, `uploadConditions.py`) | job records, files in a working directory, a token | jobs by the clock, users by hand | killed jobs, fixed file names, several tags in a file | reported success means an accepted file |
| Database tools (`conddb_import`, `conddb_copy_iov`, `conddb_edit_tag`, `cmscond_authentication_manager`) | tags with their IOVs; credentials | command line | imports that overlay, sinces before the range | the copy says what the source says in the range, and the destination outside it |
| Global tag tests (`conddb_test_gt_load`, `conddb_test_gt_perf`) | proxies and their last IOV, counters of tasks, the slots of deserialised objects | command line | counters and slots shared by tasks under different locks | every payload asked for is served, for the time asked; an object is in the slot of its payload |

Interaction is by calls, by products and, in the multi-threaded simulation, by shared
memory; clients and jobs of the conditions database meet in the service. The hazards that
follow from it are listed in `PROJECT.json` at the lines where they bite, with the property
that would show each of them going wrong.

## 2 Plan

One module describes one component with its own state; a component that another owns and
calls (`VFATFrame`, `CTPPSPixelIndices`, `DAQMapping`, ...) is a module of
operators on a part of its owner's state. Constants have named assumptions, an operation is an
action, and recursion is written as a recursive function or a fold, so that the modules can
be proved about; only `DAQMapping`, which walks over trees, has a RECURSIVE operator.

1. *Simulation* - `OscarMTMasterThread` (with `G4RunService`, what it promises), `RunManager`,
   `RunManagerMTWorker`, `SimTrackManager`, `TrackSteps`, `HectorTransport`.
2. *Input and mixing* - `PoolSource` and `RootEmbeddedFileSequence` over `RootInputFileSequence`,
   `RootFile` with the trees of `RootTree`, `RootFileMetaData`, `MixingModule`.
3. *Raw data* - `TotemVFATRawToDigi` over `VFATFrame`, `DAQMapping`, composed in `RawToDigiJob`;
   `TotemDAQTrigger`.
4. *Pixels* - `RPixHitChargeConverter` over `CTPPSPixelIndices`, `CTPPSPixelLocal`.
5. *Strips* - `TotemRPDQM` over `TotemRPLocal`.
6. *Geometry* - `CTPPSDetId`, `RPAlignments`, `TotemRPGeometry`.
7. *Conditions* - `CondDBFWUploads`, `DropBoxUpload`, `CondDBTools`, `GlobalTagTests`.

All of these are written and checked; section 6 says which are proved about. What is left is in
the proofs: the playback of `MixingModule` rests on invariants proved already; the duplicate checker of `PoolSource` needs
an invariant of its own. `G4RunService` (a service that begins and
ends runs one at a time) is implemented by the master thread; the next abstract specification
worth stating is the event setup as "the payload of the interval that contains this time",
which `RawToDigiJob` and `RPAlignments` would both implement.

## 3 The modules

**`G4RunService`** - the abstract service: for each run, `RequestBegin`, `Begin` or `Refuse`,
`ReturnBegin`, `RequestEnd`, `End`, `ReturnEnd`; `Shutdown` when no run is open, `Crash` where the
code allows it.

**`OscarMTMasterThread`** (with `RunManagerMT`) - threads are the tasks of the runs, the owner of
the object and the master. A variable for each data member, two wait sets for the condition
variables (a notified thread leaves the set and competes for the mutex; `SpuriousWakeup`), the
two mutexes as holders. `Caller(r)` is `beginRun`/`endRun` cut where another thread can interfere:
`Protect`, `LockThread`, `ReadES` or `ReadESThrows`, `SignalMaster`/`Request`, `Return`. `OwnerStep`
constructs, stops and joins; `MasterBeginRun`, `MasterEndRun`, `MasterDestruct`, `MasterThrows` are
the branches of the thread's loop, with `initG4` as a step that succeeds or throws. `geomIOV`
and `magIOV` are the records a run is in: what ESWatchers compare.

**`RunManager`** - one thread, so an action is a transition of the framework with every callback
in it: `InitG4` (first run), `InitG4Again`, `RefuseRun`, `Produce` with `PutProducts`, `ProduceThrows`,
`StopG4`, `Destroy`. A stop file may appear and go at any time; the three places that look for it
call `abortRun`, which terminates the run inside the call that is ending it. Where that reads a
null pointer the process dies (`Crash`). `NewJob` is the constructor and `UserActions` the actions it leaves
to Geant4.

**`RunManagerMTWorker`** - threads and streams; `task[t]` says for which stream a thread works and
how far it is: `StartEvent`, `InitializeThread`, `ChangeRun` or `SameRun`, `GenerateEvent`, `Simulate`,
`PutProducts`, each of which may `Throw`; `StreamEndRun` runs on any idle thread. `NewWorker` and `Construct`
are what a job starts from. `tls`, `engine`,
`simEvent` and `tracks` are the state whose ownership the properties are about.

**`SimTrackManager`** - tracks are numbers with a mother, a start and a kind. `PreUserTracking` pops
Geant4's stack, `PostUserTracking` is `TrackingAction` with `addTrack` and all it calls
(`saveTrackAndItsBranch`, `cleanTracksWithHistory`, `fillMotherList`), `StoreTracks` the end of the
event, `EventThrows` an exception. What the stacking action and the hits want is a choice.

**`TrackSteps`** - the other half of an event: `BeginG4Event`, `StartTrack`
(`StackingAction` classifies the tracks that were born, with the roulette of neutrons and
gammas), `TakeStep` (the sensitive detectors see the step, then `SteppingAction` decides whether
the track goes on), `EndG4Event` (hits are handed to the slave), `G4EventThrows`. A step says through
which volumes and regions it goes, with which deposit and time; the configuration (`Jobs`) says
which rules are on. The state and the operators of both sensitive detectors come first in it; its last part is
the fast simulation, which shares nothing with it: `ConstructProcess` registers what the options
ask for, and then each `FastStep` of a track is taken by a model (`Shower`, which makes a hit of each spot
of the profile that lies in a sensitive volume) or goes to the limiters of its particle.

**`HectorTransport`** - `Produce` clears, takes the protons of the generator's event, carries or loses
them, and appends their successors with a link; `ProduceThrows` stops in the middle; `Simulate` is
what Geant4 makes of the event, with `resetGenID` at its end. Optics decide nothing but which
particle is lost, which is a choice.

**`PoolSource`** over **`RootInputFileSequence`** - the state is where the sequence is: file, open
file, entry, the indexes kept, the duplicate checker's keys. `GetNextItemType` announces, `ReadFile`,
`ReadRun`, `ReadLuminosityBlock`, `ReadEvent`, `CloseInputFile` follow it; a looper may `Skip`,
`GoToEvent` or `Rewind` between events; `ForwardState` and `ReverseState` are what it is told of where it may go. A file is its index: a sequence of runs, lumis and events.
The secondary sequence searches its own list for the same item and merges its products. With one,
`GetNextItemType` announces `IsSynchronize` first for an item that its open file does not have
(`Synchronizes`): nothing is read then, and the framework asks again. `syncs` keeps where that happened.

**`RootFile`** (with the class `RootTree`) - one file and its delayed reads: `Open` reads or rebuilds the index,
applies what is to be skipped and decides on fast cloning; `GetNextItemType`, `ReadRun`,
`ReadLuminosityBlock`, `ReadEvent(s)` advance; `SkipBack` and `GoToEvent` jump; a stream asks for a
product of its event whenever it wants (`GetProduct`). The tree is a record with its position, and the raw
and the tree cache with their training, and `SetEntryNumber`, `GetEntry`, ... are operators on it.

**`RootFileMetaData`** - the constructor of `RootFile` in its order: `ReadMetaData`,
`RegisterParameterSets`, `AdaptProvenance`, `RegisterHistories`, `ReadProvenanceTree`, `DropOnInput`;
then `ReadEventOf`, `ReadRunAuxiliary`, `ReadLumiAuxiliary` and `AskProvenance`. A format is the set of its
features, a file the trees that are in it; a file may lack what its format promises.

**`MixingModule`** over **`RootEmbeddedFileSequence`** - a job mixes signal events (`BeginEvent`,
`BeginBunch`, `BeginSource`, `ReadPileUp`, `EndSource`, `EndBunch`, `Put`), then a second job plays them
back (`BeginPlayback`, `PlayPileUp`). `CFWriter` takes its frames out of what the mixing has put. `RootEmbeddedFileSequence` has the four ways to the next event
(sequential or random, in any block or in that of the signal), the search of a given event and the
skips; an operation that draws random numbers is the set of its results.

**`VFATFrame`, `TotemVFATRawToDigi`** - a 16-bit word is the set of its bits. The data acquisition
(what was sent: hits, corrupted and unknown words) is part of the input, so that properties can
compare what arrives with what was sent; `ProcessOptoRxFrameSerial`, `ProcessOptoRxFrameParallel` and
`ProcessVFATDataParallel` unpack, `Convert` is the converter with its tests and its counters.

**`DAQMapping`, `RawToDigiJob`** - `DAQMapping` makes mapping and mask out of the elements of an XML
file, with every refusal; `RawToDigiJob` composes it with the unpacker: `Synchronize` is the
framework asking each record for its interval at a time, `MakeProduct` the source's `produce` at the
first use, `Unpack` an event, and the pixel unpacker looks into the mapping of its own label (`unpacker`). `Mapping` and `Mask` of the unpacker are the products of that time.

**`TotemDAQTrigger`** - `ProduceCounters` unpacks the frame of the LoneG board and the headers of
the OptoRx boards, `AnalyzeTrigger` fills the plots of both.

**`CTPPSDetId`** - identifiers as integers of 32 bits with their fields, the constructors with
their range tests, and the names and paths that the monitoring books by.

**`CTPPSPixelIndices`, `RPixHitChargeConverter`** - addresses in a sensor
and in its chips; which pixel lies where, both tables; how a hit is cut into clouds and shares
its charge among neighbours; and `CTPPSPixelDigiAnalyzer`, which counts what became of the hits on one
chosen pixel (`Analyze`, `AnalyzerEndJob`).

**`CTPPSPixelLocal`** - one chain of three producers: `RunDigitizer`, `AddHit`,
`ConvertChargeToHits` (a detector at a time), `BuildClusters`, `MakeCluster`, `AddPixel`,
`NextPixel`, `PushCluster` (one step per pixel that the set loses), `BuildHits`. Charges are natural
numbers of electrons; ADC counts saturate at ten bits and a cluster keeps electrons modulo 2^16.
The gain and the thresholds are whole numbers (135.0 in the configuration).

**`TotemRPLocal`, `TotemRPDQM`** - one chain again: `ClusterProducer`,
`RecHitProducer`, `UVPatternFinder`, `LocalTrackFitter` and `Analyze` (the DQM source) consume each
other's products of an event, `EndLuminosityBlock` is the harvester. The class `FastLineRecognition` is operators
only: lines through pairs of points, groups kept as sums and counts so that comparisons of
means are exact, the heaviest group as a pattern, repeated without its points (`Recognize`, a fold in
place of the loop). Positions are half strips and slopes `AScale` times their value, all hits have
the nominal resolution and so equal weights, the readout directions of U and V are orthogonal, and
a fit is kept as numerators over one denominator: nothing is rounded. `lrcgn` and `fitter` are
what the two modules remember of the geometry; an event brings its version of the record. Of the
plots, the model keeps the ones that involve a decision or relate two products.

**`RPAlignments`, `TotemRPGeometry`** - `RPAlignments` reads alignment files into intervals, merges
them, and answers for a time; `TotemRPGeometry` builds the measured view, expands it to trees, places
the real and the misaligned ones, and finds sensors and pots in them. `NewInterval` and `ProduceTG` are the
event setup's calls per record, `Inform` is `GeometryInfoModule`. Rotations are right angles about the beam.

**`CondDBFWUploads`** - `Perform` is a request that is served and answered, `Fail` one that is lost, or
served and its answer lost, `Garble` one whose answer cannot be decoded; the service is what clients
use of it, with a lock per tag. **`DropBoxUpload`** - jobs (`StartJob`, `Popcon`, `PopconUpload`, `EndJob`,
`Kill` at any step) and users (`StartUpload`, `ReUpload`) share two drop boxes; `CheckFiles`,
`NextFile`, `UploadFile`, `EndUpload` are the script they all run. **`CondDBTools`** - a tool is one
transaction (`Import`, `CopyIov`, `EditTag`, `Administer`, `Export`, `ImportFile`). **`GlobalTagTests`** -
`Request` is one round of the sequential test; `StartWorker` to `AddCount` are the tasks of the other, and
`objects` the slots into which they deserialise what they fetched.

*MC modules* give the constants their values. Four of them (`MCTrackManager`, `MCTotemVFATRawToDigi`,
`MCRootFile`, `MCConditions`, and with fewer parts `MCCTPPSPixelLocal` and `MCTotemRPDQM`) check several
components that do not interact in one run: a behaviour plays one `scene`, the variables of the
others stay as they are. Where components do interact, their modules are composed by EXTENDS and share
variables.

In several modules a definition is preceded by a "variant with a fault": the same operator as a
plausible mistake would write it. It is not part of the specification; substituting it for the
definition that follows shows which property such a mistake breaks.

## 4 The runs and their bounds

| Run | Instance | What it shows |
|---|---|---|
| `master_sequential` | 2 runs one after the other, 2 records each for geometry and field | the job ends; a changed geometry refuses the run; Geant4 lives while a run is open and is stopped before it is destroyed, by its own thread |
| `master_concurrent` | 3 runs that may all be open at once | the right caller is served, and the whole implements `G4RunService` with its fairness |
| `runmanager_job` | 3 runs, 3 events, 2 records, the stop file | an event gets its own tracks and geometry; runs end once |
| `workers_streams` | 2 streams on 2 threads, 3 runs, 3 events | products, engines and signals belong to the right stream, thread and run |
| `tracks_event` | *history*: 2 primaries, 4 tracks, 2 events, 2 positions, no decays; *steps*: 4 tracks, 3 steps, 2 events, four configurations; *transport*: 2 particles, 2 events, pots on both sides, on one, off; *fast*: eight jobs, two steps of fourteen kinds of track | branches, mothers, vertices; hits are the deposits, roulette and killing follow the configuration; primaries lead back to the generator's; showers are the hits of their spots |
| `pool_files` | jobs over lists of one to three files with repeated, empty, bad and unmatched ones, with and without secondary files, with those the source synchronises with in each mode of checking for duplicates; 2 jumps, 1 rewind | reading order, duplicates, run numbers, merged products, navigation |
| `rootfile_trees` | *trees*: files of up to three events, old and new formats, two streams, two products, 1 jump; *opening*: metadata of every generation, sound or malformed, 3 reads | streams read their own events through either cache; the index covers the trees; metadata are read as written |
| `mixing_playback` | 2 signal events, up to 2 sources of each kind, up to 3 bunch crossings, 2 pile-up events each, both formats of the record | the playback repeats the mixing; sources read in order; pile-up is in its bunch |
| `conditions_tools` | *session*: 2 clients, 1 tag, 2 attempts per request; *dropbox*: 1 job, 1 user, 2 runs; *tools*: pairs of tools on small tags; *globaltag*: 7 entries, 5 iterations, 2 tasks, with and without deserialisation | what is reported is stored, what is copied is the same, what is asked for is served |
| `rawtodigi_frames` | *job*: 2 events of 2 FEDs, both formats, every kind of disturbance, verbosity 0 with `testCRC` 2 as in the default, 1 with 1 and 2, and 2 with 0, mappings of blocks that change, overlap or leave a gap, the pixel unpacker between events; *trigger*: 2 events | digis are the hits of good frames on the channels of the block of the time; only faults of the files stop the job |
| `pixel_clusters` | *digis*: 2 events, 2 detectors of 4 x 3 pixels, clusters of at most 3; *charges*: hits at every kind of border of a sensor of the real size | clusters are complete and of this event, share seeds only; flags of hits; charges lie in the pixels crossed |
| `strips_monitored` | *events*: 3 events, 2 pots of 6 planes, 2 geometries, up to 3 clusters in a plane, in some 6 (more than its plots have bins for), exceptional settings for one pot; *alignment*: six sets of files, 3 synchronisations among 10 times, 3 geometries | lines are found whatever the geometry was before, tracks follow their hits, plots agree with tracks and pots with planes; corrections are the sums of what is valid; geometries follow them |

Why the bounds are enough. Handshake: the state shared by calls is one command and two flags,
so two overlapping calls and the owner's stop show every interference; three runs let a stale
answer of the first meet the third. Threads and streams: two of each let a stream find the
thread of the other, three runs a thread that missed one. Tracks: four tracks of two primaries
give a mother that is not its daughter's neighbour in either order; two events show what
`reset` leaves; three steps let another track come between two of one track. Files: three files
have a first, a last and one between. Trees: one jump before, in or after the training of the cache
is all that its code tells apart. Mixing: three bunches have a first, a middle and a last; two
events of a source wrap around a file of two. Uploads: a second attempt meets everything a first
may have left; two clients contend for one tag. Mapping: the times of a job lie before, on and after
every kind of border of a block. Pixels: a sensor of 2 x 3 chips of 2 x 1 pixels has a pixel that is on
no edge and neighbours in two chips in each direction; at most three pixels in a cluster let four
overflow it. Strips: three planes of each projection are the fewest in which a line differs from a
pair of hits; two and three clusters in a plane give ambiguities, five a dirty plane; the second
geometry moves two planes of a pot by more than a strip, and the events may go from either
geometry to either. Alignment: blocks touch, overlap, repeat and leave gaps, and the times asked
lie on both sides of every boundary, in any order. Every bound is a constant and named in its
module's CONSTANTS ("bound: ...").

Two scenes are narrower than the code. `tracks_event` leaves out decays of primaries (section 9),
and in `mixing_playback` the playback is compared only where the identifiers of a source's events
are unambiguous (`Unambiguous`): it looks events up by run, block and number.

Deadlock is checked where a component has a last step of its own (`Finished`, `Done`, ...); the runs that
say CHECK_DEADLOCK FALSE play scenes that really stop at the end of the job.

## 5 Fairness

Only `OscarMTMasterThread` claims liveness. `Fairness` is weak fairness of each caller, the owner and
the master: a thread that can go on does so in the end (the operating system), and the
framework ends the runs it began and the job. Strong fairness of the mutexes is not assumed: each
caller asks for them a bounded number of times, so nobody can be overtaken for ever. Nothing obliges it to begin another
run, and spurious wake-ups are never obliged to happen. `JobEnds` and the fairness
of `G4RunService` follow. The other components have safety properties only: they are
sequential, or may give up at any request (uploads), or be killed (jobs), or their tasks hold a lock
for one step and wait for nothing else (global tag tests).

## 6 What is proved

TLAPS checks these for every value of the constants (any number of runs, threads, streams,
events, records); the assumptions are those named in the modules and no others.

*`OscarMTMasterThreadProofs`*. `Typing` first. The invariant `IInv` adds to it `Handshake`:
who holds which mutex at which pc (`ProtectInv`, `ThreadMutexInv`); that at most one request is
outstanding, and that its command and flags stay those of the caller that waits until it is
answered (`RequestInv`); where the master and the owner are in the life of the object
(`LifeInv`), what Geant4 being alive implies (`AliveInv`), and who holds the manager
(`OwnersInv`). None of the safety properties is inductive: that `Destruct` finds Geant4
stopped, for instance, needs that no run is between begin and end when the owner stops, that the
request of the last `endRun` was answered, and that the answer means that it was served.
`HandshakeInvariant` proves it inductive, `RequestsAreServedWhileAwaited`, `DestructIsOrderly` and
`ManagerDestroyedByMaster` follow from it. `OpenRunsAreReady` has `MaxOpenRuns = 1` as its hypothesis, a
framework that keeps one run open at a time: with more, the end of one stops Geant4 while another is open.
Its strengthening is `WorldInv`: the watchers, the world and the records of the open run agree
unless a run was refused, and then no run is begun any more. `ImplementsService` proves that every step maps to a
step of `G4RunService` or a stutter (its safety part), with the mapping `CallOf`.

*`RunManagerProofs`*. `JobInvariant`: `RunActionInv` ties flags, the live `RunAction` and the signals
together, `PhaseInv` says what is left between runs, `WorldInv` that the world was built from the
records last seen. From it `ProductsAreOfTheEvent`, `GeometryIsOfTheRun`, `RunsEndOnce`.

*`RunManagerMTWorkerProofs`*. `WorkersInvariant`: no two threads work for one stream (`TaskInv`), and at
each stage of an event the thread's run interface, the stream's `m_simEvent` and the event agree
(`StageInv`); the history of a thread agrees with its flags (`SignalInv`). From it
`ProductsAreOfTheEvent`, `EngineIsOfTheStream`, `RunSignals`.

*`ConditionsProofs`*. The components that write and read conditions. `UploadsInvariant`: what a client has
still to send follows from where it is in its session, the lock of a tag names a client that is
between its begin and its end or one that could not learn that it got the lock, and the IOVs the
service keeps are those of the sessions it served, in their order. From it `UploadsStore`. `DropBoxInvariant`
follows a file through the script: which process owns it, which run wrote it, with which status a process
ends; `DropBoxReports` follows, for drop boxes shared by any number of jobs and users. Statuses are exit
codes, so it assumes fewer than 256 files to be refused at a time. `TestsInvariant` relates what a proxy holds to the last
time asked of it, and the counter of a tag to the additions its tasks have begun; `ObjectsInvariant`
that no object is begun before all fetches have ended, so that what an object was made of is what its proxy
still holds. `TestsServe` follows from both. That a global tag has no more payloads than the 400 slots the tool
makes for them is an assumption (`TagsAssumption`).

`CopiesSay` is about the tools on databases and credentials. Its invariant, `ToolsInv`, keeps databases in form: an IOV
sequence is finite, has one IOV for a since, and every IOV points at a payload that is stored
(`IsDatabase`). An import is then followed from its first since to its flush: the times it inserts at are the
begin and the sinces of the source after it, in ascending order (`AscendingLists`); of two insertions at a since the later
one counts (`FlushedIs`), so where an overlay meets a copy both must say the same; and between two
times of insertion neither the source nor the destination changes, so every time of the interval has the payload of
the source (`InsideSaysTheSource`). Without an override this is false for a tag that has IOVs, and the
property says so. For the exported file, `IsWritten` relates what is open to what the reader
will find there (the last connection and role, and whether it is inside a role); each element keeps it, and after the
last key the parameters written are those of all keys (`FileReadsBack`), in whatever order the keys of a connection
come. The assumptions: the databases at the start are in form, the store
has finitely many permissions, and command lines name databases that are there (`DatabasesAssumption`,
`StoreAssumption`, `ArgumentsAssumption`).

*`MixingProofs`*. `PileUpInvariant` is the invariant of three nested loops (bunches, sources, events): the
offsets in the crossing frame count the turns made (`FrameOK`), a turn being a product of
two variables, and every event piled up lies between the offset of its turn and the next (`Placed`),
with the adjusters that the first suitable event of the job has chosen (`AdjustersOK`). From it `PileUpStaysInItsBunch`.

*`TracksProofs`*. `TransportInvariant`: Hector's lists hold protons of this event in the order they were
generated, and the links lead back from each successor. `HistoryIsTyped`, `TracksHaveVertices` for all
tracks. `BranchesAreSaved` is the hard one: `std::lower_bound` is called on a container that is
sorted only in its new part. `BranchInv` says why it finds the parent all the same (the numbers of the old
part are below every parent of the new tracks), and `BranchesAreSaved` therefore has `~Decays` as its
hypothesis: with decays to primaries it is false, and TLC shows it (section 9).

`MothersAreNearest` is about the other half of `cleanTracksWithHistory`: a track with hits is mapped to the stored track
nearest to it, while `idsave` is forgotten at each primary and tracks are stored afterwards. `MotherInv` says why a
mother once found stays the nearest: with `~Decays` a clean-up happens when only primaries are left to be
tracked, so the tracks in `idsave` (`Family`) contain all their parents, those before them (`Past`) have no parent in it,
and no track of `Past` is stored any more. The proof also shows that the second place `idSavedTrack` looks
for a mother, `ancestorList`, then decides nothing.

For `TrackSteps`, `RulesInvariant` says what the current track and its products have of each other (the
products wait with the weight of their mother and are classified only when it ends), that a
track is on the stack once and no longer than until its first step, and that no step of
the current track was in a dead region or too late; `TracksFollowTheRules` is the
property. `HitsShowTheDeposits` rests on `PixelInv` and `TimingInv`: while an event goes on, the hits are those of
the steps so far, and what the detector remembers of the last hit (`tsID`, the unit, the
hit's place) describes a hit of this very event or nothing; that is why a
step may update the last hit without a look at its track. The switches of the timing detector are
exactly the tracks with a step in a bar of the box, until an exception skips the end of an event that
forgets them. `PlaceIsPlane`, on the way, is the round trip of an identifier: arm, station, pot and plane
are read back from the bits that the touchable's copy numbers were packed into. The assumption on
jobs (`IsG4Job`): energies and times are not negative, a probability is not above 1, and a step in a
pixel plane is inside one pot and one envelope with copy numbers that `CTPPSPixelDetId` accepts.

`FastSimulation` is about the last part of `TrackSteps`. `FastInv` says that the tables of
a job are those `ConstructProcess` made for its options, and carries the property itself through the steps. A shower is a loop over spots with one step object that all
spots share; `ShowerOK` relates, after each spot, the hits made so far to the spots read so far, so that
the energy of a hit is that of its own spot although the object still holds the last one's. What is assumed
(`FastSimulationAssumption`): a model is of one of the two kinds, a profile is a finite sequence of
spots, energies and the scale are natural numbers.

*`RootFileProofs`*. First `IndexIsRebuilt`, about `fillIndexIntoFile`: the lists of runs and blocks that its loops
make of three trees contain each of them once, the phids of blocks without events follow their
run's, and the sorted items are those of the trees. Then `FileInvariant`: the tree and both caches are in
order (`GoodTree`: a branch is in memory only for the entry the tree is at, training stops where it must),
every item from the iterator on can be read, and what each stream was given is the product of its event
(`StreamsAgree`). From it `StreamsRead`. `CopiesAreFaithful` adds `CopyInv`: while nothing speaks against
copying the trees (`whyNotFastClonable`) and the source has not jumped, nothing is passed over, the events
among the items ascend (`EntryOrder`: what `setIfFastClonable` compares is neighbours in a picked list) and
those before the position are the entries below the number of events given; at the end these are all
entries, since every one has an item (`HasEvent`). It assumes of the files (`JobsAssumption`) that each event of a new
file is in its index, in one order of events per block.

*`PixelProofs`*. `PixelInv` follows a detector through the three producers. The charges piled up are a
partial sum over its hits (`PartlyAdded`: so many are still to be added), and the digis
of every detector that is through are those of this event's total (`DigisInv`). While it is
clusterized, no pixel of a cluster is left in the set and no lit neighbour of one that is not full
(`DoneInv`); the growing cluster is connected, the pixels before `curr` have no neighbours left, and
what it shares with an earlier cluster is its own first pixel (`GrowsInv`): an absorbed seed
starts in a cluster with no neighbours left, so it stays alone unless that cluster was full. Seeds not yet
in a cluster are in the list still to be tried (`SeedsAreIn`). `ClustersAreConnected` and `EventIsShown` follow.
`HitsDescribe` needs `SpanIsHeld` (an offset that fits is stored as it is) and `RocOfPixel`
(the chip of a pixel and the pixels of a chip are inverse, for chips of any size); with longer clusters the offsets
saturate and nothing is claimed.

Recursion in these modules is written as recursive functions, so no theorem needs an induction principle
with an operator argument: that such a function exists, and what it computes, is proved from the least argument for which
it would fail (`LeastNat`, from the library's `WFMin`), once for each function.

Trying to prove found several flaws in the models, all repaired: guards of a CASE that overlapped
(`Answered`), a sort that left the order of equal keys open, functions applied outside their
domains (`LowerBound`, the branch of a track), a conjunct that operator precedence had swallowed in the
tree's state, and assumptions that jobs had tacitly met.

## 7 What is only model-checked

Liveness (`JobEnds`, the fairness part of `G4RunService`) and anything with ENABLED are outside the
prover's reach. Of the safety properties that the runs check, these have no theorem:

* *Inductions over data.* `MappingIsTheBlocks` and `OnlyFaultsStopTheJob` say what a tree of XML
  elements becomes, and `DAQMapping` has a RECURSIVE operator; `CorrectionsAreTheSum` and, over it,
  `GeometryFollowsAlignment` are about folds over the blocks of the files; `EventIsUnpacked` is about
  what a writer laid out and a reader takes apart, on words of fixed width; `MetaDataIsRead` about closures
  and a sort that are folds, and about the fault that each malformed file was given (it is half of
  `FilesAreReadAsWritten`; the other half, `IndexCoversTheTrees`, is proved).
* *Statements about the instance.* `LinesAreFound`: lines are grouped greedily in the order of their
  points, and with other widths of the groups or more hits a line may be taken apart. With it
  `TracksFollowTheirHits` and `PlotsShowTheTracks`, whose bins and folders are fixed numbers and whose
  sums are folds. `PixelsShowTheEvent`: how one hit is cut into charges is a table of the real sensor;
  what follows from the charges on is proved as `EventIsShown`.
* *Proofs that are not written.* `EveryPassReadsTheEvents` needs an invariant for the duplicate checker
  and the skips of `PoolSource`; `PlaybackRepeatsTheMixing` and `SourcesReadInOrder` need that what is
  recorded is what was piled up, for the rotation of random files as well.

## 8 What is not modelled

By choice: the physics and geometry in floating point (optics, showers, solids, energy loss), ROOT and
its caches beyond what `RootTree` decides, printing, and everything the repository only uses: Geant4,
CondCore/CondDB, the framework, the upload service and the drop boxes, which are external and modelled
as they are used.

Partly modelled:

* ROOT files and trees: closing a file, the search of an event in secondary files by file index, and a
  new run for each luminosity block (`PoolSource` has it on its level) are left out; so is the trigger
  cache, which the constructor disables.
* Mixing: frames mixed beforehand (`mixProdStep2`), and the mixing of heavy-ion generator events.
* DQM: plots of track positions and of the bunch crossing.

Not modelled at all, with the reason:

* optical properties, strip topology and particle masses: numbers without a protocol;
* consoles, reports and GDML: output only;
* event data: records with accessors, modelled where a component uses them;
* pixel calibration tests: analyzers that write or print one constant mapping;
* event-setup records, geometry data, job configuration: generated from one pattern, or data;
* parts without a caller: `RPAlignmentCorrectionsMethods::WriteXML`, `CreateNewHitEvo`, the diagonal
  plots; the metadata wizard and the Tier-0 function of `uploadConditions.py`, and `--testing`.

Inside the modelled parts: Geant4's event loop is a step that succeeds or throws for the run managers
and a sequence of tracks and steps for `TrackSteps`; `IndexIntoFile`, `EventSkipperByID` and `PileUp` are
external; links from pixel digis to simulated hits, and the position of a pixel hit, are left out. The
hash of a file's name is taken to be unique.

## 9 Met while modelling

Places where the code does something else than a comment, a description or its own neighbour says. The
models do as the code does; the properties are stated so that they hold.

*Simulation*

* `RunManager::abortRun` deletes the current run and then terminates it; `EndOfRunAction` reads it
  (`RunAction.cc:42`). A stop file found while a run is live kills the process: `Crash` in `RunManager`.
* `RunManagerMTWorker.cc:396`: `terminateRun` sets `runTerminated` and nothing clears it, although
  `:420` says "If previous run in this thread was not terminated via endRun() call, terminate it now": a
  thread's second run is begun without the end of the first being signalled. A second run
  is not signalled either (`:380`), and `m_hasWatchers` is read before it is initialised (`:177`); the model
  leaves its value open.
* `tracks_event` is checked without decays of primaries. "Saves a track and all its parents looping
  over the non ordered vector" (`SimTrackManager.cc:81`) is a binary search in a container that is only
  sorted piecewise; with `Decays = TRUE`, one primary and seven tracks TLC finds `BranchIsSaved` violated.
* `SimTrackManager::idSavedTrack` returns 0 past a decay (`:302`); a `SimVertex` records the track
  number of its parent where `G4SimEvent.cc:103` expects an index.
* `StackingAction.cc:374` compares `nRusRoWorld` twice: the roulette of gammas in the world works only
  with that of neutrons. `killInCalo` and `killInCaloEfH` need `savePDandCinCalo`.
* `CTPPSSD.cc:278`: the comparison of tracks is commented out, a step of another track in the same slice and unit
  joins the former track's hit. `setEnergyLoss` overwrites. The timing detector's lists of
  tracks are not cleared after an event that threw, and hits name Geant4's tracks even when these are not stored.
* Fast simulation: of the two limiters, the one registered for positrons is that of the electrons, a pointer that
  is not set if only positrons have a limit (`ParametrisedEMPhysics.cc:239` ff.); the step limit is kept in a
  `G4bool`; the cut-off of the electromagnetic model lacks its unit; watchers of its spots see the energy
  of the spot before, since only sensitive spots update the step; `isFirstInelasticInteraction` has no caller.
* Hector: with a transport but no length of the beam line, the protons are looked up in a map that
  was never filled (`HectorForCTPPS.cc:361`); `clear()` leaves the maps of positions at the pots.

*Input and mixing*

* `RootPrimaryFileSequence.cc:245` uses the open file after `nextFile()` found a bad one, although
  `PoolSource.cc:317` says "True: Ignore any missing or unopenable input file."
* `RunHelper.cc:132` keeps `fakeNewRun_` if two consecutive numbers are equal; `rewind_` with the
  first file open keeps the duplicate checker's keys; skipping backward over an empty file does
  not end (`RootPrimaryFileSequence.cc:246`).
* With secondary files `getNextItemType` announces `IsSynchronize` (`PoolSource.cc:266`) when the duplicate
  checker has already noted the event: asked again, it takes the event for a duplicate and drops it
  (`RootFile.cc:782`). So with secondary files and a duplicate check that has something to check, a pass
  does not read every event; `EveryPassReadsTheEvents` says that it loses exactly those (`LostBySync`).
  And a luminosity block it synchronised on no longer counts as the one that follows its run
  (`RunHelper.cc:113`) and takes the number after its own in `setRunNumberForEachLumi`: that blocks get
  the numbers of the list in turn is checked for the jobs that do not synchronise on one.
* With `setRunNumber` the secondary files are searched for the changed number (`PoolSource.cc:184`,
  `:208`, `:233`), under which files with the original ones have nothing.
* `RootFile.cc:1430` changes the run number of a cached event auxiliary again; `labelRawDataLikeMC` is forced off
  (`:384`); in the oldest format, reading the run of a last single event moves the iterator of histories to its end,
  which the event dereferences (`:1198`); `ProvenanceAdaptor` sorts with a relation that is no strict weak order.
* `RootTree.cc:304` to `330` repeat earlier branches and are never reached; a jump during training ends it early.
* `readOneRandomWithID` calls itself until it finds an event of the block, for ever if there is none
  (`RootEmbeddedFileSequence.cc:310`); `readOneSequentialWithID` uses `skipEvents` although its description says it is
  not used then (`:196`, `:332`); `readOneSpecified` ignores the file's name if a file it knows has the event.
* `CFWriter` looks for generated events under "generatorSmeared" but puts their frame under the label
  "generator": with the standard inputs it throws, with "generator" as input it writes nothing, and only with both
  it does what `mixObjects_cfi.py:221` expects; `useCurrentProcessOnly_` is never initialised.
* Adjusters are chosen from the first event that has any product; of a type it lacks, pile-up is left
  unshifted for the job. Each source numbers its events from 1 in a bunch, so `EncodedEventId`s
  of two sources are equal. In playback the lists of bunch crossings and interactions stay empty.

*Raw data and event setup*

* `RawToDigiConverter.cc:111` has an `if (verbosity > 0)` whose body was lost, so that it guards the action on
  a bad checksum, of which `totemVFATRawToDigi_cfi.py:26` promises "2: print an error message and do not
  process the frame". With the default configuration (`verbosity` 0, `testCRC` 2) corrupted frames are
  processed into digis. `EventIsUnpacked` is about what the code does: it expects the hits of such
  frames among the digis when `verbosity` is 0, and not otherwise.
* `PrintSummaries` of the converter is never called, and the fraction of a most frequent
  counter is accepted when equal although its description says "higher than".
* Channels of diamonds cannot be masked from XML; `CTPPSPixelFramePosition` shifts `FMCId` by itself
  (`CTPPSPixelFramePosition.h:39`); unknown attributes are never refused; a range from "R:min" covers the begin of
  its run only for run 1.
* `TotemRPGeometry.cc:170` inserts the arm into the stations of an arm; corrections from XML always carry
  identifiers of strips, so pixel sensors have none; in the real and misaligned geometries a pixel wafer
  does not follow its box; `WriteXMLBlock` writes identifiers that reading does not take; a second block of
  a file with the same interval is ignored by `LoadXMLFile`, so that `CorrectionsAreTheSum` does not count it.
* `TotemDAQTriggerDQMSource.cc:104`, `:189`: the difference titled LoneG.BX subtracts the orbit number.

*Reconstruction*

* A pixel seed that another cluster absorbed starts a cluster again (`RPixDetClusterizer.cc:67`);
  electrons above 65535 wrap in a cluster (`RPixDetClusterizer.h:98`); the random engine of the
  first event's stream is kept (`CTPPSPixelDigiProducer.cc:98`).
* `CTPPSPixelDigiAnalyzer` deletes its plots after the file that owns them was closed; its comment places the
  selected pixel ("1 1.1 -8.55 -8.4") on the other side of the sensor than the topology does.
* The pixel unpacker reads an address of a chip out of the mapping without looking whether it is there.
* The table of rows has 162 where the last pixel begins with 161, and `CTPPSPixelROC.h:47` says of a pixel
  outside a chip that it is not inside, which `toLocal` does not test.
* `TotemRPDQMSource.cc:595` looks a track up at its own z0 in every plane, not at the z of the plane: hits
  of a slanted track in the outer planes may not count as matching. "Planes contributing to fit" (`:285`) counts hits
  (`:802`), so that a plane which contributes twice counts twice and the plot of six bins (0 to 5) may
  overflow. Hit multiplicities above 5 (`:316`) and clusters of more than 5 strips (`:317`) overflow as well, and so
  would more than 10 patterns (`:282`); `BusyEventsOverflow` says when. The harvester's range of N_hits(320<strip<440) takes whole bins, strips 319.5 to 447.5
  (`TotemRPDQMHarvester.cc:78`, `:95`).
* Hits of dirty planes do not count in the decision to search a pot but take part in the search;
  a fit that fails leaves an invalid track in the product, and `operator<` of local tracks is not an
  ordering.

*Conditions*

* An answer that cannot be decoded ends an upload without closing its session; `url_query` tries five
  times where its messages say three, and does not empty its buffer between attempts; a failed upload
  leaves a directory that blocks the next one.
* `uploadConditions.py` counts a file as uploaded if one of its tags was, ignores `--hostname` when
  the metadata name a database, and its exit code is the number of failures modulo 256.
* `conddb_test_gt_perf` leaves six types out, one of them spelt with blanks that no type has, and lets one unknown
  type end all tasks; an L1TriggerKeyList is refused by the import.
* `conddb_test_gt_perf` has no default for `n_fetch` although its help names one, and adds to a shared
  counter under locks that differ by task; a payload that could not be loaded is not asked for again
  within its interval.
