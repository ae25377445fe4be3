# Verification of mpi-time-sync

TLA+ models of the clock synchronisation library `mpits`, the TLC configurations
that check them and TLAPS proofs of the main results.

## The system

`mpits` gives every MPI process a *global clock*: a model (an offset, or a slope
and an intercept) on top of the process's own time source, such that the clocks
of all processes agree. Processes exchange clock readings in pairs, and a
synchronisation algorithm decides which pairs, in which order.

| component | state it keeps | operations | used by |
|---|---|---|---|
| offset measurement (`clock_offset_algs/`) | bracket `td_min..td_max`, round counter; hashes of ping-pong times (SKaMPI) and of round-trip times (Pingpong) that outlive a call | `measure_offset` on both ranks of a pair | all algorithms |
| HCA3 / HCA3O (`HCA3ClockSync`, `HCA3OffsetClockSync`) | the clock under construction, the round | `synchronize_all_clocks`: rounds from the top of a binomial tree, no barriers | default algorithm; levels of Topo1/2 |
| HCA / HCA2 (`HCAClockSync`, `HCAAbstractClockSync`) | array `linear_models` on every rank | rounds from the leaves with barriers, gather, merge, scatter, measuring the intercepts again | |
| JK (`JKClockSync`) | fit points | rank 0 measures all others, round robin | |
| SKaMPI sync (`SKaMPIClockSync`) | `tds`, offsets to all ranks | rank 0 measures one rank after another between barriers, broadcast | |
| clock propagation (`ClockPropagationSync`, `flatten_clock` of the clocks) | byte buffer | rank 0 flattens its nest of clocks, broadcasts it, the others rebuild it | lowest level of Topo1/2 |
| two- and three-level sync (`TwoLevelClockSync`, `HierarchicalClockSync`) | communicators per level, created once | one algorithm per level, leaders first | Topo1/2 |
| clock models (`time_provider/clocks`) | offset / slope, intercept, the clock below | `get_time`, `convert_to_global_time`, flatten | everywhere |
| API and module table (`mpi_clock_sync.cpp`, adapters) | table of modules, statics `clock_sync`, `local_clock`, `global_clock` per adapter | `MPITS_Init`, `_sync`, `_get_time`, `_finalize` | applications |
| parameters (`clock_sync_loader.cpp`, `helpers/dict`, `compute_argc`) | global dictionary | split `MPITS_PARAMS`, build the algorithm it names | `MPITS_Init` |
| logging (`log/`), drift check tool (`test/`) | - | - | vendored / test programs |

Components talk through MPI messages (offset measurement), MPI collectives
(HCA's barriers, gather and scatter, the broadcasts) and plain calls
(algorithms call `measure_offset` with the clock they have built so far, the
levels of Topo1/2 hand each level's clock to the next). There are no threads, no
retries and no persistence: what is hard is the interleaving of processes with
no barrier between rounds, the order in which clocks are adopted and served,
state that outlives a synchronisation, process counts that are no power of two,
and hangs of blocking calls that do not match.

What makes each component correct:

* offset measurement: both sides do the same number of rounds, the bracket holds
  the true difference, no message of one measurement is read by the next, the call
  returns on both sides;
* HCA3/HCA3O, SKaMPI, JK: every rank measures with the rank that measures with it,
  takes its clock from one that is settled, and errors stay below a bound;
* HCA/HCA2: only models that have been learned travel, and what a rank is handed in
  the end is its own clock against rank 0's;
* propagation: what is read from the buffer is what was written into it;
* Topo1/2: splits match, every rank is attached to one that is settled, levels stay
  on their node and socket;
* API: parameters are not overruled by those of another initialisation, what runs is what
  they name or a default, and a handle reads a clock that exists.

## Modules

| module | models | state in the code |
|---|---|---|
| `SkampiOffset` | `SKaMPIClockOffsetAlg::measure_offset` of both roles, message by message, for a sequence of measurements of one pair | `own` = `s_now`/`t_now`/`s_last`/`t_last`, `tdMin`/`tdMax`, `i`, `ppmt` = `ping_pong_min_time`, `cache` = the hash; `net` = MPI's ordered channels, `now` = true time |
| `SkampiOffsetProofs` | - | proofs about it |
| `SyncTree` | abstract: what one synchronisation after another promises on a tree of ranks | `gen` = synchronisations taken part in, `err` = distance of a rank's clock from the root's |
| `HCATree` | who measures with whom in which round (operators) | `my_pow_2`, `my_rank % running_power`, `max_power_two` |
| `Topology` | the communicators the splits make (operators) | `node`, `socket` = what `MPI_Comm_split_type` and `get_socket_id` find |
| `ScheduleCheck` | runs both for all numbers of processes and placements | - |
| `ScheduleProofs` | - | proofs about all three, and the lemmas on the tree and the levels |
| `HCA3` | `HCA3OffsetClockSync` and `HCA3ClockSync` (setting `linear`), several synchronisations, over clocks that drift | `round`, `my_clock` = clock under construction, `fit` = the arrays of fit points, `answer` = offsets in flight; refines `SyncTree` |
| `HCA3Proofs` | - | proofs about it: its rounds, its clocks, and that it implements `SyncTree` |
| `SkampiSync` | `SKaMPIClockSync`, several synchronisations | `tds`, loop counter, barriers entered, the broadcast; refines `SyncTree` |
| `SkampiSyncProofs` | - | proofs about it: its barriers, and that it implements `SyncTree` |
| `HCA` | `HCAClockSync` and `HCA2ClockSync` (variable `remeasureAll`) | `linear_models` on each rank, messages, gather, scatter, `lm` |
| `HCAProofs` | - | proofs about it, and about `SyncTree` on every tree |
| `JKSync` | `JKClockSync` over `PingpongClockOffsetAlg` and `compute_rtt`, message by message, several synchronisations | `known`/`rtt` = `rankpair2rtt` and `rtt`; `rtts`, `delays` = `rtts` and `time_var`, kept in order as the code sorts them before it reads them |
| `JKSyncProofs` | - | proofs about it |
| `LinearModel` | applying, nesting and merging models | `LinModel`, `GlobalClock::convert_to_global_time` |
| `ClockPropagation` | `ClockPropagationSync` and `flatten_clock` | the clock as a nest of models, the buffer in cells of four bytes |
| `Hierarchy` | `TwoLevelClockSync`, `HierarchicalClockSync`: splits, levels, several synchronisations | level, `clock` = the nest of models handed to the next level, `given` = what leaders have offered |
| `HierarchyProofs` | - | proofs about it, and about merging models |
| `Params` | `MPITS_PARAMS`: words, options, keys and values, the loader (operators) | argv, the dictionary |
| `Lifecycle` | `MPITS_Init`, `_sync`, `_get_time`, `MPITS_Finalize` on one process; the adapters as a table: file, init function, entry | `table` = `sync_modules`, `store` = the dictionary, `algorithm` and `clock` = `clock_sync` and `global_clock` of each adapter, the clocks that exist |
| `LifecycleProofs` | - | proofs about it, and about `ClockPropagation` |

Modules ending in `MC` give constants their values. Definitions that begin with the
comment "Mutant:" are wrong forms of the definition after them: each property is
known to fail when one of them takes that definition's place.

How the modules stand to each other: `SkampiOffset` and the ping-pong part of
`JKSync` establish what a measurement returns (client minus reference, with a
bounded error); `HCA3` and `SkampiSync` use a measurement as one step with
such an error, and keep the promise of `SyncTree` (refinement, property
`TreePromise`); `Hierarchy` uses one level's algorithm as a step that keeps this
promise on the level's communicator, with the communicators of `Topology`, and builds
clocks as nests of the models of `LinearModel`, the ones `ClockPropagation` copies;
`HCA3` takes its calls from `HCATree` and its clocks from `LinearModel`. `LinearModel`
justifies `HCA`'s symbolic merging: there a coefficient is the pair of clocks it
relates, `LinearModel` says that merging two of them relates the outer ones.

## Runs

Every `pass` run explores all reachable states of its instance.

* **SkampiOffset**: one pair, three measurements, once with the roles swapped, all
  delays that fit into five time units. `BracketSound`: `td_min` and `td_max` hold
  the true difference on both sides at any time. `Lockstep`: both sides are in
  positions that go together, in the same measurement and round. `NoCrossTalk`: a
  waiting side never gets a message of another measurement, although all use the
  same tag. `RoundsAgree`: when both have left a measurement their counters fit together,
  within the limits of the code, also for a known pair. `OffsetAccurate` (a step
  property): what is returned is client minus reference, off by no more than half the bracket.
  `Termination`: every measurement returns.
* **SkampiOffsetHash** (violation): see the first finding below.
* **ScheduleCheck**: for 1 to 130 processes (every power of two below, and all
  numbers of ranks left over) `CallsMatch`, `LearnsOnceFromSettled`,
  `LogarithmicDepth`; for all placements of up to four ranks on three nodes, each rank
  bound to one of two sockets, to both or to unknown ones, `SettledLevelByLevel` and
  `StaysLocal`. Three levels can form no chain that needs more than four ranks.
* **SyncTree**: the promise itself on a tree of two levels: `Accurate`, `InStep`.
* **HCA3**: five ranks (a power of two and one left over), two synchronisations in a row,
  skews far apart so that an error of a skew shows. Three settings: HCA3O with errors of
  one; HCA3 with three fit points on clocks of different rates; HCA3 with two fit points
  and the intercept measured again, with an error. `MeetInSameRound` (who measures with
  whom, in the same synchronisation, round and measurement), `GlobalAccurate` (one error
  per level; for HCA3 at the present time and far in the future, so a wrong slope shows),
  `Termination`, `TreePromise`. The rates are chosen so that the slopes are integers.
* **HCA**: seven ranks, with three left over, HCA and HCA2. `OnlyLearnedModelsTravel`,
  `CollectsSubtree`, `AllAgainstMaster`, `Termination`.
* **JKSync**: three ranks, two synchronisations of two fit points (the pair is new once,
  then known, also in the second synchronisation), one warm-up, three round trips, two
  questions, delays of one to four: with these a round trip is cut off in some
  behaviours, the median leaves out a value, and rank 0 keeps clients waiting. `SamePhase`
  (a pair agrees on whether its round trip is measured), `OffsetWithinDelays` (there is
  an offset, of a measurement that matches the median, the mean that corrects it is of at
  least one round trip, and its error is bounded),
  `Termination`.
* **ClockPropagation**: three ranks, two propagations, every nest of one model or of a
  linear model over another. `BufferFits`, `SameAsRoot`, `Termination`.
* **ClockPropagationOffset** (violation): see the second finding below.
* **SkampiSync**: three ranks, two synchronisations. `OnePairAtATime`,
  `ReturnedTogether`, `Termination`, `TreePromise` (which gives the accuracy).
* **Hierarchy**: four ranks, two synchronisations, five settings: Topo1 with a chain of
  three measured levels and a rank that may run on either socket; Topo1 with the
  propagation on the last level and on the middle one, Topo2 with it on its last, HCA3 or
  HCA3O above. `GlobalAccurate` (one error per measured level), `SettledFromAbove` (a
  clock rests on clocks of the same synchronisation), `NestFits` (a clock that a
  leader hands to the propagation has one model from the first level and one for each
  later level its rank has measured at, none of an earlier synchronisation, and is of a
  shape the propagation can copy), `Termination` (splits and levels match).
* **Lifecycle**: two handles, three initialisations with any of fifteen values of
  `MPITS_PARAMS` (right, wrong, incomplete, with a space at the end, unset), three
  synchronisations and as many calls of `MPITS_Finalize` as of `MPITS_Init`, in any
  order. `ParametersHeeded` (the parameters that an initialisation found in argv are in
  force, not those of an earlier one with the same key, and each file runs the algorithms
  the dictionary names on every level, or its default on all), `ReadsCurrentClock`,
  `OneClockLeft`. Three initialisations are what it takes to replace a clock that replaced
  another. `ParametersHeeded` takes for right what the code does on purpose or cannot
  tell: a handle whose file another initialisation has taken over runs that one's
  algorithm, a key that is not given again keeps the value of an earlier initialisation,
  and a last word cut off by a space is not a parameter.

Bounds are constants of the modules: numbers of ranks, of synchronisations (two or
three, so that what one leaves behind meets the next), of rounds and fit points,
`MaxTime`, `MaxError`, `MaxInits`, `MaxSyncs`.

`CHECK_DEADLOCK FALSE` stands where the system really stops: `SyncTree` after its last
synchronisation, `ScheduleCheck` after the last number of processes, `Lifecycle` when
the process has ended or the calls are used up. Everywhere else the end is a step of
its own (`Stop`), so that a hang is found as a deadlock.

## Fairness

A rank that can go on does: weak fairness of each rank's steps, taken together. A
process of an MPI program is scheduled again and again, and a receive, barrier or
broadcast whose partners have come returns; messages are not lost, and MPI keeps the
order of messages between two ranks. In `SkampiOffset` time may stand still as long as
messages move; in `HCA3` it passes as long as a pair waits for its clocks to move on
between two fit points. Nothing else is assumed: ranks may be arbitrarily far apart in speed.

## Proofs

* `SkampiOffsetProofs`: for all skews, sequences of roles, numbers of rounds and bounds
  on time. The properties are not inductive: that the bracket stays sound needs to know
  when the reading in a message was taken, that needs to know which round both sides
  are in, and that needs to know all messages on their way. The inductive invariant
  `IInv` is the conjunction of `TypeOK`; `Past` (no reading is from the future);
  `InRole` (each side is in the half of the exchange its role gives it); `Lockstep` (the
  joint positions: which receive each side waits in, with the messages between them and
  how old their readings are); `HalfBracket` (the client's lower bound is right one
  exchange before the upper one); `BracketSound`.
  `Invariance` proves it step by step, one lemma per action; `BracketIsSound`,
  `NoStrayMessage`, `OffsetIsAccurate`, `TypeCorrect` and `StrictTurns` follow. For
  `RoundsAlwaysAgree`, `RoundInv` adds the round counters of both sides at each joint
  position, and that the ping-pong time a side looks up in this code is 0 or -1.
  The property itself leaves early stops open.
* `ScheduleProofs`: for any number of processes, and any number of ranks wherever they are
  placed. `CallsAlwaysMatch` goes back to remainders by powers of two. `RoundsMakeATree`
  says that a rank below the largest power of two learns in exactly one round, that of its
  lowest bit that is set (`OneRound` and `SomeRound`), and that its reference has that bit
  clear, so learns in an earlier one or is 0. `DepthIsLogarithmic` follows the levels of
  the tree with the rounds. Depths and powers are recursive functions; lemma `Recursion`
  shows once that such a function exists and has its values, and induction is by the
  least counterexample, as the library's induction rules take an operator as a
  parameter. `LevelsMakeATree` and `LevelsStayLocal` follow from what a leader is: the
  least rank of its communicator, a leader of all levels below.
* `HCA3Proofs`: for any number of ranks and synchronisations. There are no barriers, so no
  two ranks are ever known to be in the same round; what stays true is said of the two
  ends of one edge of the tree, which `RoundsMakeATree` makes the same edge for both.
  `Edge`: a client and its reference have been through the edge's round equally often,
  and have done as many measurements in it, but for one whose answer the client has not
  taken. `Own`: a rank counts measurements, and collects fit points, only where it has a
  call. `RanksMeetInSameRound` follows. `Accuracy` says of the clock of every rank that is
  past the round it learns in, and of every clock that is on its way, that it is off by
  the same amount at all times (`Shows`), at most one error per level; and `Exact` of the
  fit points a client holds, that they lie on one line, that of the difference to a
  reference's clock which is still the one its later children see. Lemmas on integers
  (`LineSlope`, `LineFits`) give that the line learned is that one: `ClocksAreAccurate`.
  `RoundsKeepTreePromise`: the last `Serve` of a round is the promise's `Adopt`, with the
  reference's clock of the same synchronisation and the error of that measurement; rank
  0's `Start` is `Lead`, whose guard is that all its clients have their clocks of the
  synchronisation before; every other step leaves counts and errors alone.
* `SkampiSyncProofs`: for any number of ranks and synchronisations. That two ranks never
  measure in different turns, and that nobody returns before all have measured, does not
  follow from what single ranks do; the invariant relates their counters of barriers.
  `InPlace`: a rank's place in the loop is a function of how many barriers it has
  entered, a synchronisation having `nprocs` of them. `Met`: who does not stand in a
  barrier has seen everybody enter it. `Answered`: an offset is left only for a client
  that is measuring. `TurnsApart` and `AllHaveMeasured` follow by counting.
  Then `SkampiSync` implements `SyncTree` (`KeepsTreePromise`). The invariant
  adds `Values` (rank 0 is its own reference, at most one offset is left for a rank) and
  `Behind` (no rank has a clock of a synchronisation rank 0 has not begun). `Start` of
  rank 0 is the promise's `Lead`, where `AllHaveMeasured` gives its guard; `Serve` is
  `Adopt`, where `TurnsApart` gives it; there is one lemma for each other step, which
  shows that nothing the promise speaks of changes. With `AccuracyByLevel`
  (`HCAProofs`) it gives one measurement's error for any number of ranks.
* `HCAProofs`: for any number of ranks, HCA and HCA2. `InPlace` and `Met` count barriers as
  in `SkampiSyncProofs`, so that two ranks that are not in a barrier are in the same
  round (`Together`). `Measured`: a rank that receives has a client at the other end of
  its edge of this round, which has sent it `Sent` and waits in the barrier, or has not
  sent anything yet; a client its reference is done with is still in the call (`Waited`).
  `Collected` is what makes the array sound: after m barriers a rank that is divisible by
  2^m has models of the 2^m - 1 ranks after it, against its own clock. A reference's
  new entries are merged from its client's, `Merge` composing them (`MergedModel`), and
  a group that starts below the largest power of two ends there (`GroupInside`), so that
  no index is out of the array and none of its entries is left unset. `HandedOut` follows
  the models through gather, scatter and the last measurement. `OnlyLearnedTravel`,
  `SubtreesCollected` and `AllModelsAgainstMaster` follow.
  At the end of the module, what `SyncTree` promises on every tree: `StaysInStep` is
  inductive with the types, as a rank adopts only when its children have its present
  count. `AccuracyByLevel` adds one error at each level by `DepthAssumption`.
* `JKSyncProofs`: for any number of ranks, fit points, round trips and questions.
  `SamePhase` speaks of a pair that exchanges messages; the invariant says of every client
  where it stands to rank 0: `Between` (rank 0 is not measuring with it; the client may
  have gone on into its next measurement and asked), or, when it is its turn, `Awaited`,
  `RoundTrip` or `Exchange`, each with the one message that may be on its way and the
  counters of both sides. `InDue` says which synchronisation and fit point a client that
  rank 0 has not come to yet is in: the two sides count them for themselves.
  For `OffsetsAreWithinDelays`, `DataInv` follows the values: rank 0 has a round trip for
  each pass after the warm-ups (`Trips`), what it sends is a mean of at least one of them
  (`MeanSent`), and a client that asks corrects its answers by such a mean, or by nothing
  in its first measurement, which is when its map does not hold the pair (`Collected`).
  The lemmas before that are on arrays of any length: a value put into its place leaves
  them in order (`InsertedInOrder`), the shortest round trip is below the cut-off
  (`SomeKept`), a sum is between k of the shortest and k of the longest (`SumBounded`),
  the median of an odd number is one of them (`MedianIsMeasured`). They are inductions, made
  by the least counterexample (`LeastNumber`).
* `HierarchyProofs`: for any number of ranks, placements and sound settings. `ClockInv`: a
  rank past the level it takes its clock at has an accurate one, and comes to each level
  with a nest of one model from the first level and one for each later level it has
  measured at. `GivenInv`: the same of all that leaders
  have offered, in this or an earlier synchronisation. `SettledInv`: a rank has taken no
  more clocks at a level than were given there. How many measured levels are above a
  rank, and what a nest of models shows, are recursive in the model; with at most three
  levels both are written out first (`HopsTo`, `Shown`). `SettledFirst`,
  `PropagatedClocksFit` and `AccurateOverLevels` follow. `Merging`: for all integer
  coefficients and readings the merged model is the composition, in this order of
  arguments. The code's numbers are floating point, for which it holds up to rounding.
* `LifecycleProofs`: for any handles, any values of `MPITS_PARAMS` and any order of the
  calls. `IInv` says of every file that its clock exists and is of its algorithm
  (`OwnClock`), that no handle and no clock is more recent than the algorithm (`NotOlder`,
  `NoneNewer`), and of the families that delete their clocks that they have no other one
  of this initialisation (`NoOther`), which is what makes `OneClockLeft` inductive.
  `TimeFromCurrentClock` and `NoClockPilesUp` follow. For `ParametersAlwaysHeeded` the
  lemmas say what the loader makes of the keys of each module (`LoadedRuns`), that an
  initialisation the parser does not end puts all its pairs into the dictionary
  (`StoreHeeds`), and that both stay so, as the dictionary only grows (`RunsOn`,
  `HeededOn`).
  At the end of the module, `ClockPropagation` for any number of ranks, any coefficients
  and any number of propagations rank 0 may be ahead by. The theorems have the hypothesis
  `AllFlat`: rank 0's clocks are of one model, or a linear model over another, which is
  what `PropagatedClocksFit` proves of the levels. `WrittenOnce`: every cell behind the
  header is one model's. `CopyInv`: the log has two broadcasts for each clock
  (`Broadcasts`), how many of them a rank has taken tells where it is, and what it has
  rebuilt so far are the innermost models of that clock (`Taker`). `ClockFitsBuffer` and
  `ClocksAreCopies` follow. With other nests both fail: see the second finding.

Assumed are the `ASSUME`s of the modules, named there: among them that clocks are not
negative (`SkewAssumption`; a negative message is the stop sign), that the rates of
`HCA3`'s clocks are multiples of rank 0's and its fit points exact (`Sound`, so that
slopes are integers), and that a level measures before one propagates (`Sound` of
`Hierarchy`).

Every safety invariant and every action property that a passing run checks is proved.
Only model-checked is liveness, the `Termination` of seven modules, which the prover does
not do.

## Findings

1. `SKaMPIClockOffsetAlg.cpp:60`: the two branches after the look-up in the hash of
   ping-pong times are the wrong way round for what the comment in lines 45-47 wants: a
   time that is found is replaced by -1, one that is not is 0. The early stop cannot
   happen, and every measurement does all its rounds (`ReMeasureStopsEarly`).
2. `GlobalClockOffset.cpp:50`: an offset clock over a linear model writes the inner model
   in front of its place in the buffer, and receivers rebuild another clock
   (`PropagatesModel`). Topo1 with HCA3O or SKaMPI above the propagation reaches it.

Also seen while reading, without a run of their own:

* `PingpongClockOffsetAlg.cpp:49`: the same twist: a pair that is new is not corrected for
  its round trip (an entry of zero is made), a known pair is measured again every time.
  `OffsetWithinDelays` says what follows for the error.
* `SKaMPIClockSync.cpp:67`: the other entries of `tds` on a client are the sum of two
  offsets of the same direction; the header (`SKaMPIClockSync.hpp:13-14`) wants the offset
  to each process. Only entry 0 is used.
* `HierarchicalClockSync.cpp:70-75`: where the socket is not known only this rank goes to
  socket 0; the comment says all processes do. `SettledLevelByLevel` holds all the same.
* `mpi_clock_sync.cpp:46-68`: a space at the end of `MPITS_PARAMS`, or a last word of one
  character, makes the last option disappear without a word; with one option only, the
  library then runs `None`, and the option is written past the end of the new argv, which
  has room for one pointer (lines 87 and 97). `Overruns` models the write as going
  unnoticed or ending the process.
* `cli_param_parser.cpp:65-75`: keys outlive `MPITS_Finalize`: a second `MPITS_Init` with
  the same, or the default, parameters ends the program.
* `README.md` of the repository names the modules `SKAMPI`, `TOPO1`, `TOPO2`, `NONE`; the
  table has `SKaMPI`, `Topo1`, `Topo2`, `None` and compares case.

## Not modelled

* The regression (`LinearModelFitterStandard`, `gsl_fit_linear`) over points that are not on
  a line, and floating point: numbers are integers, the error of a measurement is bounded,
  fit points are exact. How far a measurement's error bends a slope is therefore out of
  reach; that the slope and the intercept are taken, applied and measured again the right
  way round is what `HCA3` checks.
* `LinearModelFitterDebug`, `MPIClock` and `GettimeClock`, which the library does not use; the
  system's time sources; hwloc (what it finds is an input); builds without hwloc.
* Destructors and `cleanup_module`, which nothing calls; printing; logging (`log/` is
  vendored); `MPITS_Clocksync_init` and `_finalize`, which do nothing in any module; the
  programs under `test/`.
* One process in `ClockPropagation`: it returns the clock it was given, and NULL for a base
  clock (`ClockPropagationSync.cpp:39-47`), which `prop` on the first level would reach;
  `Hierarchy` assumes a measured first level (`Sound`).
* A base clock that reads below zero in `SkampiOffset` (`SKaMPIClockOffsetAlg.cpp:100` would
  take it for the stop sign): base clocks count from boot or from the epoch.
* What a second `MPITS_Finalize` leads to (`mpi_clock_sync.cpp:274` frees the table again):
  `Lifecycle` lets the process end there.
* Unusual words: abbreviated options and words of one character.

Each hazard named in `PROJECT.json` without a property is one of these. Faults are not
modelled because the code handles none: a rank that stops, or a message that is lost,
stops a synchronisation for good.
