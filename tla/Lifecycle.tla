----------------------------- MODULE Lifecycle ------------------------------
(***************************************************************************)
(* The interface of the library on one process: MPITS_Init with the value  *)
(* MPITS_PARAMS has at the time, synchronisations with the handles it has  *)
(* given out, reading the time, MPITS_Finalize.  The adapters keep the     *)
(* algorithm and the clock in variables of their source file: there is one *)
(* of each for a family of modules, not for a handle, and the four HCA     *)
(* modules are one family.  A synchronisation is one step here.            *)
(***************************************************************************)
EXTENDS Params, FiniteSets

CONSTANTS
  Envs,        \* the values of MPITS_PARAMS
  Handle,      \* the caller's mpits_clocksync_t
  MaxInits, MaxSyncs   \* bounds on the calls

ASSUME EnvsAssumption == Envs \subseteq Value
ASSUME LifecycleAssumption == MaxInits \in Nat /\ MaxSyncs \in Nat

VARIABLES
  process,   \* "running", "exited" or "crashed"
  table,     \* sync_modules: "none", "allocated" or "freed"
  store,     \* the dictionary of parameters
  inits,     \* calls of MPITS_Init
  finals,    \* calls of MPITS_Finalize
  handles,   \* handles[h]: what MPITS_Init has made of h
  algorithm, \* algorithm[f]: clock_sync of the source file
  clock,     \* clock[f]: global_clock of the source file, 0 for NULL
  clocks,    \* the clocks that have been made, in their order
  live       \* those that have not been deleted

vars == <<process, table, store, inits, finals, handles, algorithm, clock, clocks, live>>

-----------------------------------------------------------------------------
(* The adapters.  A source file has one set of variables, a function that  *)
(* synchronises and one that reads the time; a module is one init function *)
(* of a file.                                                              *)

File(name, sync_clocks, get_global_time) ==
  [name |-> name, sync_clocks |-> sync_clocks, get_global_time |-> get_global_time]

HcaFile   == File("hca_sync", "delete first", "global")
JkFile    == File("jk_sync", "replace", "global")
SkFile    == File("sk_sync", "replace", "global")
Topo1File == File("topo_aware_sync", "replace", "global")
Topo2File == File("topo_aware_2l_sync", "delete first", "global")
NoFile    == File("no_sync", "empty", "local")

\* The keys that are loaded, in this order, the class the result must be of, and the
\* algorithms used when a key gives none.
InitFunction(keys, class, default) == [keys |-> keys, class |-> class, default |-> default]

HcaInit   == InitFunction(<<"alg">>, "HCA", <<"HCA">>)
Hca2Init  == InitFunction(<<"alg">>, "HCA2", <<"HCA2">>)
Hca3Init  == InitFunction(<<"alg">>, "HCA3", <<"HCA3">>)
Hca3OInit == InitFunction(<<"alg">>, "HCA3O", <<"HCA3O">>)
JkInit    == InitFunction(<<"alg">>, "JK", <<"JK">>)
SkInit    == InitFunction(<<"alg">>, "SKaMPI", <<"SKaMPI">>)
Topo1Init == InitFunction(<<"topoalg1", "topoalg2", "topoalg3">>, "any",
                          <<"HCA3", "HCA3", "prop">>)
Topo2Init == InitFunction(<<"topoalg1", "topoalg2">>, "any", <<"HCA3", "prop">>)
EmptyInit == InitFunction(<<>>, "any", <<>>)

Entry(type, file, init_module) ==
  [clocksync |-> type, file |-> file, init_module |-> init_module]

RegisterHca   == Entry("HCA", HcaFile, HcaInit)
RegisterHca2  == Entry("HCA2", HcaFile, Hca2Init)
RegisterHca3  == Entry("HCA3", HcaFile, Hca3Init)
RegisterHca3O == Entry("HCA3_OFFSET", HcaFile, Hca3OInit)
RegisterJk    == Entry("JK", JkFile, JkInit)
RegisterSk    == Entry("SKAMPI", SkFile, SkInit)
RegisterTopo1 == Entry("TOPO1", Topo1File, Topo1Init)
RegisterTopo2 == Entry("TOPO2", Topo2File, Topo2Init)
RegisterNone  == Entry("NONE", NoFile, EmptyInit)

\* MPITS_register_sync_modules.
SyncModules ==
  <<RegisterNone, RegisterSk, RegisterJk, RegisterHca, RegisterHca2, RegisterHca3,
    RegisterHca3O, RegisterTopo1, RegisterTopo2>>

\* clock_sync_options, from names to types.
SyncOptions ==
  [HCA |-> "HCA", HCA2 |-> "HCA2", HCA3 |-> "HCA3", HCA3O |-> "HCA3_OFFSET",
   JK |-> "JK", SKaMPI |-> "SKAMPI", Topo1 |-> "TOPO1", Topo2 |-> "TOPO2",
   None |-> "NONE"]

\* get_sync_type, which compares case.
SyncType(name) == IF name \in DOMAIN SyncOptions THEN SyncOptions[name] ELSE "unknown"

\* get_sync_module_index; none for an unknown name.
ModuleIndex(name) ==
  {i \in DOMAIN SyncModules : SyncModules[i].clocksync = SyncType(name)}

Files == {entry.file.name : entry \in Range(SyncModules)}

-----------------------------------------------------------------------------
(* Initialisation.                                                         *)

\* env, the value an initialisation has found, is for the properties only.
Unset == [init |-> 0, module |-> RegisterNone, env |-> DefaultEnv]
NoAlgorithm == [init |-> 0, algs |-> <<>>]

Init ==
  /\ process = "running"
  /\ table = "none"
  /\ store = <<>>
  /\ inits = 0
  /\ finals = 0
  /\ handles = [h \in Handle |-> Unset]
  /\ algorithm = [f \in Files |-> NoAlgorithm]
  /\ clock = [f \in Files |-> 0]
  /\ clocks = <<>>
  /\ live = {}

\* Mutant: no check that the algorithm is one of the module's.
InstanceOfAny(alg, class) == TRUE

\* The dynamic_casts; HCA2ClockSync is an HCAClockSync.
InstanceOf(alg, class) ==
  class = "any" \/ alg = class \/ (alg = "HCA2" /\ class = "HCA")

Ends == {"exit", "crash"}

\* What an init function may come to: a sequence of algorithms, or one of Ends.  It
\* gives up at the first key that yields no algorithm.
Loaded(init_module, parameters) ==
  LET keys == init_module.keys
      results == [k \in DOMAIN keys |-> Instantiate(parameters, keys[k])]
      outcomes == {f \in [DOMAIN keys -> UNION Range(results)] :
                     \A k \in DOMAIN keys : f[k] \in results[k]}
      Stops(f, k) == f[k] \in Ends \cup {"NULL"} \/ ~InstanceOf(f[k], init_module.class)
      Result(f) ==
        IF \E k \in DOMAIN f : Stops(f, k)
        THEN LET k == CHOOSE k \in DOMAIN f :
                        Stops(f, k) /\ \A j \in 1..(k - 1) : ~Stops(f, j)
             IN  CASE f[k] = "NULL" -> init_module.default
                   [] f[k] \in Ends -> <<f[k]>>
                   [] OTHER         -> <<"exit">>
        ELSE f
  IN  {Result(f) : f \in outcomes}

\* Mutant: the clock of an earlier initialisation stays.
InitModuleKeepsClock(h, module, env, algs) ==
  /\ handles' = [handles EXCEPT ![h] =
                   [init |-> inits + 1, module |-> module, env |-> env]]
  /\ algorithm' = [algorithm EXCEPT ![module.file.name] =
                     [init |-> inits + 1, algs |-> algs]]
  /\ UNCHANGED <<process, clock, clocks, live>>

\* The handle becomes a copy of the table's entry, and the variables of its file are
\* set, whoever has used them before.
InitModule(h, module, env, algs) ==
  /\ handles' = [handles EXCEPT ![h] =
                   [init |-> inits + 1, module |-> module, env |-> env]]
  /\ algorithm' = [algorithm EXCEPT ![module.file.name] =
                     [init |-> inits + 1, algs |-> algs]]
  /\ clock' = [clock EXCEPT ![module.file.name] = 0]
  /\ UNCHANGED <<process, clocks, live>>

EndProcess(how) ==
  /\ process' = IF how = "crash" THEN "crashed" ELSE "exited"
  /\ UNCHANGED <<handles, algorithm, clock, clocks, live>>

\* The parser ends the program (the pairs before the bad one do not matter any more),
\* or the loader does; an unknown module makes MPITS_Init return -1 with the parameters
\* kept.
Configure(h, env) ==
  LET argv == Argv(env)
      index == ModuleIndex(SelectedName(argv))
      parameters == StoreWith(store, argv)
  IN  \/ /\ PairsFail(store, argv)
         /\ UNCHANGED store /\ EndProcess("exit")
      \/ /\ ~PairsFail(store, argv)
         /\ store' = parameters
         /\ IF index = {}
            THEN UNCHANGED <<process, handles, algorithm, clock, clocks, live>>
            ELSE \E i \in index : \E algs \in Loaded(SyncModules[i].init_module, parameters) :
                   IF algs # <<>> /\ algs[1] \in Ends
                   THEN EndProcess(algs[1])
                   ELSE InitModule(h, SyncModules[i], env, algs)

\* MPITS_Init with a value of MPITS_PARAMS.  Writing past the end of argv may crash or
\* go unnoticed.
InitLibrary(h, env) ==
  /\ process = "running" /\ inits < MaxInits
  /\ inits' = inits + 1
  /\ table' = "allocated"
  /\ UNCHANGED finals
  /\ \/ Overruns(env) /\ UNCHANGED store /\ EndProcess("crash")
     \/ Configure(h, env)

-----------------------------------------------------------------------------
(* Use of a handle.                                                        *)

NewClock(f, lives) ==
  /\ clocks' = Append(clocks, [file |-> f, init |-> algorithm[f].init])
  /\ live' = lives \cup {Len(clocks')}
  /\ clock' = [clock EXCEPT ![f] = Len(clocks')]

EmptyWithComm == UNCHANGED <<clocks, live, clock>>

Replace(f) == NewClock(f, live)

\* Mutant: the old clock is not deleted.
DeleteNothing(f) == NewClock(f, live)

\* The old clock is deleted, then the new one is made.
DeleteFirst(f) == NewClock(f, live \ {clock[f]})

\* MPITS_Clocksync_sync and MPITS_Clocksync_resync.
Sync(h) ==
  /\ process = "running" /\ handles[h] # Unset /\ Len(clocks) < MaxSyncs
  /\ LET file == handles[h].module.file IN
       \/ file.sync_clocks = "empty" /\ EmptyWithComm
       \/ file.sync_clocks = "replace" /\ Replace(file.name)
       \/ file.sync_clocks = "delete first" /\ DeleteFirst(file.name)
  /\ UNCHANGED <<process, table, store, inits, finals, handles, algorithm>>

\* What MPITS_Clocksync_get_time reads through a handle: a clock, the local clock, or
\* none yet (it prints an error and returns 0).
GetTime(h) ==
  LET file == handles[h].module.file
  IN  CASE file.get_global_time = "local" -> "local"
        [] clock[file.name] = 0           -> "error"
        [] OTHER                          -> "clock"

\* MPITS_Finalize, at most once for every initialisation.  It keeps the pointer: the
\* second call after two initialisations frees the table again ("crashed" stands for
\* whatever that leads to).
FinalizeLibrary ==
  /\ process = "running" /\ finals < inits
  /\ finals' = finals + 1
  /\ IF table = "freed" THEN process' = "crashed" ELSE UNCHANGED process
  /\ table' = "freed"
  /\ UNCHANGED <<store, inits, handles, algorithm, clock, clocks, live>>

Next ==
  \/ \E h \in Handle, env \in Envs : InitLibrary(h, env)
  \/ \E h \in Handle : Sync(h)
  \/ FinalizeLibrary

Spec == Init /\ [][Next]_vars

-----------------------------------------------------------------------------
(* Properties                                                              *)

InUse == {h \in Handle : handles[h] # Unset}

\* The classes an algorithm of each type may have.
OwnKind(type) ==
  CASE type = "HCA"         -> {"HCA", "HCA2"}
    [] type = "HCA3_OFFSET" -> {"HCA3O"}
    [] type = "SKAMPI"      -> {"SKaMPI"}
    [] type = "NONE"        -> {}
    [] OTHER                -> {type}

\* For each key of the module the dictionary names the algorithm that runs, or the
\* module runs its default on all levels; either is of the module's own kind.
Runs(module, algs) ==
  LET keys == module.init_module.keys
      Named(k) == keys[k] \in DOMAIN store /\ Head(store[keys[k]]) = algs[k]
  IN  /\ algs = module.init_module.default \/ \A k \in DOMAIN algs : Named(k)
      /\ \/ module.clocksync \in {"TOPO1", "TOPO2"}
         \/ ToSet(algs) \subseteq OwnKind(module.clocksync)

\* The dictionary holds every pair of argv.
Heeded(argv) ==
  \A pair \in Range(Pairs(argv)) : pair.key \in DOMAIN store /\ store[pair.key] = pair.val

\* The parameters of an initialisation that succeeded stay in force, none of them is
\* overruled by what earlier ones have left in the dictionary or later ones put there;
\* those are meant that are left in argv, without the last word when a space follows
\* it.  The handle's module runs what the dictionary names, on every level, or its
\* default on all.  When another initialisation has replaced the algorithm of the source
\* file, this holds of some module of that file, not of the handle's own.
ParametersHeeded ==
  \A h \in InUse :
    LET module == handles[h].module
        running == algorithm[module.file.name]
    IN  /\ Heeded(Argv(handles[h].env))
        /\ \E other \in Range(SyncModules) :
             /\ other.file = module.file /\ Runs(other, running.algs)
             /\ running.init = handles[h].init => other = module

\* Through every handle the time is read from a clock that still exists, also after
\* MPITS_Finalize, and that was made by the algorithm its file runs now, not by one
\* that a later initialisation has replaced.
ReadsCurrentClock ==
  \A h \in InUse :
    LET f == handles[h].module.file.name IN
    /\ algorithm[f].init >= handles[h].init
    /\ GetTime(h) = "clock" =>
         /\ clock[f] \in live
         /\ clocks[clock[f]].init = algorithm[f].init

\* Synchronising again and again leaves one clock for each initialisation with an HCA
\* module or Topo2; the other files keep them all.
OneClockLeft ==
  \A c, d \in live :
    clocks[c] = clocks[d] /\ clocks[c].file \in {"hca_sync", "topo_aware_2l_sync"} => c = d
=============================================================================
