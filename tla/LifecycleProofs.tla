-------------------------- MODULE LifecycleProofs ---------------------------
(***************************************************************************)
(* Whatever values MPITS_PARAMS takes, for any number of handles and calls *)
(* of the interface: parameters stay in force and decide what is run, the  *)
(* time is read from a clock that exists and that the present algorithm    *)
(* has made, and the families that delete their clocks keep one for each   *)
(* initialisation.                                                         *)
(* At the end: a clock of a level is copied as it is by ClockPropagation,  *)
(* for any number of ranks and any number of clocks in a row.              *)
(***************************************************************************)
EXTENDS Lifecycle, ClockPropagation, SequenceTheorems, TLAPS

\* The families that delete the old clock when they make a new one.
Deleting == {"hca_sync", "topo_aware_2l_sync"}

Modules == Range(SyncModules)

Types ==
  /\ inits \in Nat
  /\ handles = [h \in Handle |-> handles[h]]
  /\ \A h \in Handle : handles[h].init \in 0..inits /\ handles[h].module \in Modules
  /\ algorithm = [f \in Files |-> algorithm[f]]
  /\ \A f \in Files : algorithm[f].init \in 0..inits
  /\ clock \in [Files -> Nat]
  /\ clocks \in Seq([file : Files, init : Nat])
  /\ live \subseteq 1..Len(clocks)

\* A file's initialisation is at least as recent as that of any handle of its modules.
NotOlder ==
  \A h \in Handle : algorithm[handles[h].module.file.name].init >= handles[h].init

\* The clock of a file has been made by its algorithm and not been deleted.
OwnClock ==
  \A f \in Files : clock[f] # 0 =>
    /\ clock[f] \in live
    /\ clocks[clock[f]] = [file |-> f, init |-> algorithm[f].init]

\* No clock is more recent than its file's algorithm.
NoneNewer == \A c \in live : clocks[c].init =< algorithm[clocks[c].file].init

\* A deleting family has none but its own of this initialisation.
NoOther ==
  \A c \in live :
    /\ clocks[c].file \in Deleting
    /\ clocks[c].init = algorithm[clocks[c].file].init
    => c = clock[clocks[c].file]

IInv == Types /\ NotOlder /\ OwnClock /\ NoneNewer /\ NoOther /\ OneClockLeft

-----------------------------------------------------------------------------
(* The table.                                                              *)

\* Every module's file is one of the files.
LEMMA FileOfModule ==
  ASSUME NEW module \in Modules
  PROVE  module.file.name \in Files
  BY DEF Modules, Files

\* RegisterNone, the value of a fresh handle, is in the table.
LEMMA NoneIsModule == RegisterNone \in Modules
<1>1. SyncModules[1] = RegisterNone /\ 1 \in DOMAIN SyncModules
  BY DEF SyncModules
<1> QED
  BY <1>1 DEF Modules, Range

\* Modules of files with one name have one file.
LEMMA SameFile ==
  ASSUME NEW a \in Modules, NEW b \in Modules, a.file.name = b.file.name
  PROVE  a.file = b.file
<1>1. \A m \in Modules :
        m \in {RegisterNone, RegisterSk, RegisterJk, RegisterHca, RegisterHca2,
               RegisterHca3, RegisterHca3O, RegisterTopo1, RegisterTopo2}
  <2>1. DOMAIN SyncModules = 1..9
    BY DEF SyncModules
  <2> QED
    BY <2>1 DEF Modules, Range, SyncModules
<1>2. \A m \in Modules :
        m.file \in {NoFile, SkFile, JkFile, HcaFile, Topo1File, Topo2File}
  BY <1>1 DEF RegisterNone, RegisterSk, RegisterJk, RegisterHca, RegisterHca2,
              RegisterHca3, RegisterHca3O, RegisterTopo1, RegisterTopo2, Entry
<1>3. /\ NoFile.name = "no_sync" /\ SkFile.name = "sk_sync" /\ JkFile.name = "jk_sync"
      /\ HcaFile.name = "hca_sync" /\ Topo1File.name = "topo_aware_sync"
      /\ Topo2File.name = "topo_aware_2l_sync"
  BY DEF NoFile, SkFile, JkFile, HcaFile, Topo1File, Topo2File, File
<1> QED
  BY <1>2, <1>3

\* Whoever registers in a deleting family synchronises as that family does.
LEMMA DeletingDeletes ==
  ASSUME NEW module \in Modules, module.file.name \in Deleting
  PROVE  module.file.sync_clocks = "delete first"
<1>1. PICK i \in DOMAIN SyncModules : module = SyncModules[i]
  BY DEF Modules, Range
<1>2. DOMAIN SyncModules = 1..9
  BY DEF SyncModules
<1>3. module \in {RegisterNone, RegisterSk, RegisterJk, RegisterHca, RegisterHca2,
                  RegisterHca3, RegisterHca3O, RegisterTopo1, RegisterTopo2}
  BY <1>1, <1>2 DEF SyncModules
<1>4. \A e \in {RegisterHca, RegisterHca2, RegisterHca3, RegisterHca3O, RegisterTopo2} :
        e.file.sync_clocks = "delete first"
  <2>1. \A e \in {RegisterHca, RegisterHca2, RegisterHca3, RegisterHca3O} : e.file = HcaFile
    BY DEF RegisterHca, RegisterHca2, RegisterHca3, RegisterHca3O, Entry
  <2>2. RegisterTopo2.file = Topo2File
    BY DEF RegisterTopo2, Entry
  <2>3. HcaFile.sync_clocks = "delete first" /\ Topo2File.sync_clocks = "delete first"
    BY DEF HcaFile, Topo2File, File
  <2> QED
    BY <2>1, <2>2, <2>3
<1>5. \A e \in {RegisterNone, RegisterSk, RegisterJk, RegisterTopo1} :
        e.file.name \notin Deleting
  <2>1. /\ RegisterNone.file = NoFile /\ RegisterSk.file = SkFile
        /\ RegisterJk.file = JkFile /\ RegisterTopo1.file = Topo1File
    BY DEF RegisterNone, RegisterSk, RegisterJk, RegisterTopo1, Entry
  <2>2. \A file \in {NoFile, SkFile, JkFile, Topo1File} : file.name \notin Deleting
    BY DEF NoFile, SkFile, JkFile, Topo1File, File, Deleting
  <2> QED
    BY <2>1, <2>2
<1> QED
  BY <1>3, <1>4, <1>5

\* Every clock there is has been made by one of the files.
LEMMA MadeByFiles ==
  ASSUME Types, NEW c \in live
  PROVE  clocks[c].file \in Files /\ clocks[c].init \in Nat /\ c \in 1..Len(clocks)
<1>1. clocks \in Seq([file : Files, init : Nat]) /\ c \in 1..Len(clocks)
  BY DEF Types
<1>2. clocks[c] \in [file : Files, init : Nat]
  BY <1>1, ElementOfSeq
<1> QED
  BY <1>1, <1>2

\* What OwnClock says of the fields.
LEMMA OwnClockFacts ==
  ASSUME OwnClock, NEW f \in Files, clock[f] # 0
  PROVE  /\ clock[f] \in live
         /\ clocks[clock[f]].file = f /\ clocks[clock[f]].init = algorithm[f].init
<1>1. clock[f] \in live /\ clocks[clock[f]] = [file |-> f, init |-> algorithm[f].init]
  BY DEF OwnClock
<1> QED
  BY <1>1

-----------------------------------------------------------------------------
(* The operations, reduced to what the invariant sees of them.             *)

\* MPITS_Init counts itself; it sets one module up or leaves everything in place.
LEMMA InitLibraryEffect ==
  ASSUME NEW h \in Handle, NEW env \in Envs, InitLibrary(h, env)
  PROVE  /\ inits' = inits + 1
         /\ \/ UNCHANGED <<handles, algorithm, clock, clocks, live>>
            \/ \E module \in Modules : \E algs : InitModule(h, module, env, algs)
<1> DEFINE argv == Argv(env)
           index == ModuleIndex(SelectedName(argv))
           parameters == StoreWith(store, argv)
<1>1. inits' = inits + 1
  BY DEF InitLibrary
<1>2. ASSUME NEW how, EndProcess(how)
      PROVE  UNCHANGED <<handles, algorithm, clock, clocks, live>>
  BY <1>2 DEF EndProcess
<1>3. CASE Overruns(env) /\ EndProcess("crash")
  BY <1>1, <1>2, <1>3
<1>4. CASE Configure(h, env)
  <2>1. CASE PairsFail(store, argv)
    <3>1. EndProcess("exit")
      BY <1>4, <2>1 DEF Configure
    <3> QED
      BY <1>1, <1>2, <3>1
  <2>2. CASE ~PairsFail(store, argv) /\ index = {}
    BY <1>1, <1>4, <2>2 DEF Configure
  <2>3. CASE ~PairsFail(store, argv) /\ index # {}
    <3>1. PICK i \in index : \E algs \in Loaded(SyncModules[i].init_module, parameters) :
            IF algs # <<>> /\ algs[1] \in Ends
            THEN EndProcess(algs[1])
            ELSE InitModule(h, SyncModules[i], env, algs)
      BY <1>4, <2>3 DEF Configure
    <3>2. SyncModules[i] \in Modules
      BY DEF ModuleIndex, Modules, Range
    <3> QED
      BY <1>1, <1>2, <3>1, <3>2
  <2> QED
    BY <2>1, <2>2, <2>3
<1> QED
  BY <1>3, <1>4 DEF InitLibrary

\* A new clock is put after the others, which stay what they are.
LEMMA NewClockEffect ==
  ASSUME Types, NEW f \in Files, NEW lives \in SUBSET live, NewClock(f, lives)
  PROVE  /\ Len(clocks') = Len(clocks) + 1 /\ Len(clocks) \in Nat
         /\ \A c \in 1..Len(clocks) : clocks'[c] = clocks[c]
         /\ clocks'[Len(clocks) + 1] = [file |-> f, init |-> algorithm[f].init]
         /\ clocks' \in Seq([file : Files, init : Nat])
         /\ live' = lives \cup {Len(clocks) + 1}
         /\ clock' = [clock EXCEPT ![f] = Len(clocks) + 1]
<1> DEFINE new == [file |-> f, init |-> algorithm[f].init]
<1>1. new \in [file : Files, init : Nat]
  BY DEF Types
<1>2. clocks' = Append(clocks, new) /\ clocks \in Seq([file : Files, init : Nat])
  BY DEF NewClock, Types
<1> QED
  BY <1>1, <1>2 DEF NewClock

-----------------------------------------------------------------------------
(* The invariant holds from the start.                                     *)

LEMMA Initially == Init => IInv
<1> SUFFICES ASSUME Init PROVE IInv
  OBVIOUS
<1>1. Types
  <2>1. \A h \in Handle : handles[h].init = 0 /\ handles[h].module \in Modules
    BY NoneIsModule DEF Init, Unset
  <2>2. \A f \in Files : algorithm[f].init = 0
    BY DEF Init, NoAlgorithm
  <2>3. /\ handles = [h \in Handle |-> handles[h]]
        /\ algorithm = [f \in Files |-> algorithm[f]]
    BY DEF Init
  <2>4. inits = 0 /\ clock \in [Files -> Nat] /\ clocks = <<>> /\ live = {}
    BY DEF Init
  <2>5. clocks \in Seq([file : Files, init : Nat])
    BY <2>4
  <2> QED
    BY <2>1, <2>2, <2>3, <2>4, <2>5 DEF Types
<1>2. NotOlder
  <2> SUFFICES ASSUME NEW h \in Handle
               PROVE  algorithm[handles[h].module.file.name].init >= handles[h].init
    BY DEF NotOlder
  <2>1. handles[h].module.file.name \in Files
    BY <1>1, FileOfModule DEF Types
  <2>2. handles[h].init = 0 /\ algorithm[handles[h].module.file.name].init = 0
    BY <2>1 DEF Init, Unset, NoAlgorithm
  <2> QED
    BY <2>2
<1>3. OwnClock
  BY DEF Init, OwnClock
<1>4. NoneNewer /\ NoOther /\ OneClockLeft
  BY DEF Init, NoneNewer, NoOther, OneClockLeft
<1> QED
  BY <1>1, <1>2, <1>3, <1>4 DEF IInv

-----------------------------------------------------------------------------
(* Every step keeps it.                                                    *)

\* What the library does without touching handles and clocks.
LEMMA StutterKeeps ==
  ASSUME IInv, inits' \in Nat, inits' >= inits,
         UNCHANGED <<handles, algorithm, clock, clocks, live>>
  PROVE  IInv'
<1>1. Types'
  <2>1. \A h \in Handle : handles'[h].init \in 0..inits' /\ handles'[h].module \in Modules
    BY DEF IInv, Types
  <2>2. \A f \in Files : algorithm'[f].init \in 0..inits'
    BY DEF IInv, Types
  <2> QED
    BY <2>1, <2>2 DEF IInv, Types
<1>2. NotOlder' /\ OwnClock' /\ NoneNewer' /\ NoOther' /\ OneClockLeft'
  BY DEF IInv, NotOlder, OwnClock, NoneNewer, NoOther, OneClockLeft
<1> QED
  BY <1>1, <1>2 DEF IInv

\* A family that is set up anew has no clock; its earlier ones are older than it.
LEMMA InitModuleKeeps ==
  ASSUME IInv, NEW h \in Handle, NEW module \in Modules, NEW env, NEW algs,
         InitModule(h, module, env, algs), inits' = inits + 1
  PROVE  IInv'
<1> DEFINE f == module.file.name
<1>1. f \in Files
  BY FileOfModule
<1>2. inits \in Nat /\ inits' \in Nat
  BY DEF IInv, Types
<1>3. /\ handles'[h].init = inits + 1 /\ handles'[h].module = module
      /\ \A g \in Handle \ {h} : handles'[g] = handles[g]
      /\ handles' = [g \in Handle |-> handles'[g]]
  <2>1. handles = [g \in Handle |-> handles[g]]
    BY DEF IInv, Types
  <2> QED
    BY <2>1 DEF InitModule
<1>4. /\ algorithm'[f].init = inits + 1
      /\ \A g \in Files \ {f} : algorithm'[g] = algorithm[g]
      /\ algorithm' = [g \in Files |-> algorithm'[g]]
  <2>1. algorithm = [g \in Files |-> algorithm[g]]
    BY DEF IInv, Types
  <2> QED
    BY <2>1, <1>1 DEF InitModule
<1>5. /\ clock' \in [Files -> Nat] /\ clock'[f] = 0
      /\ \A g \in Files \ {f} : clock'[g] = clock[g]
      /\ clocks' = clocks /\ live' = live
  BY <1>1 DEF InitModule, IInv, Types
<1>6. \A c \in live : clocks[c].file \in Files /\ clocks[c].init \in Nat
  BY MadeByFiles DEF IInv
<1>7. \A g \in Files : algorithm[g].init \in 0..inits
  BY DEF IInv, Types
<1>8. Types'
  <2>1. \A g \in Handle : handles'[g].init \in 0..inits' /\ handles'[g].module \in Modules
    BY <1>2, <1>3 DEF IInv, Types
  <2>2. \A g \in Files : algorithm'[g].init \in 0..inits'
    BY <1>2, <1>4, <1>7
  <2> QED
    BY <1>2, <1>3, <1>4, <1>5, <2>1, <2>2 DEF IInv, Types
<1>9. NotOlder'
  <2> SUFFICES ASSUME NEW g \in Handle
               PROVE  algorithm'[handles'[g].module.file.name].init >= handles'[g].init
    BY DEF NotOlder
  <2>1. CASE g = h
    BY <2>1, <1>2, <1>3, <1>4
  <2>2. CASE g # h
    <3>1. handles[g].module.file.name \in Files
      BY FileOfModule DEF IInv, Types
    <3>2. handles[g].init \in 0..inits
      BY DEF IInv, Types
    <3>3. algorithm[handles[g].module.file.name].init >= handles[g].init
      BY DEF IInv, NotOlder
    <3> QED
      BY <2>2, <1>2, <1>3, <1>4, <3>1, <3>2, <3>3
  <2> QED
    BY <2>1, <2>2
<1>10. OwnClock'
  BY <1>4, <1>5 DEF IInv, OwnClock
<1>11. NoneNewer'
  BY <1>2, <1>4, <1>5, <1>6, <1>7 DEF IInv, NoneNewer
<1>12. NoOther'
  <2> SUFFICES ASSUME NEW c \in live, clocks[c].file \in Deleting,
                      clocks[c].init = algorithm'[clocks[c].file].init
               PROVE  c = clock'[clocks[c].file]
    BY <1>5 DEF NoOther
  <2>1. clocks[c].file # f
    BY <1>2, <1>4, <1>6, <1>7 DEF IInv, NoneNewer
  <2> QED
    BY <2>1, <1>4, <1>5, <1>6 DEF IInv, NoOther
<1>13. OneClockLeft'
  BY <1>5 DEF IInv, OneClockLeft
<1> QED
  BY <1>8, <1>9, <1>10, <1>11, <1>12, <1>13 DEF IInv

\* A new clock is its family's; in a deleting one it takes the place of the one before.
LEMMA NewClockKeeps ==
  ASSUME IInv, NEW f \in Files, NEW lives \in SUBSET live, NewClock(f, lives),
         f \in Deleting => clock[f] \notin lives,
         \A g \in Files : g # f /\ clock[g] # 0 => clock[g] \in lives,
         UNCHANGED <<inits, handles, algorithm>>
  PROVE  IInv'
<1> DEFINE n == Len(clocks) + 1
           new == [file |-> f, init |-> algorithm[f].init]
<1>1. /\ n \in Nat \ {0}
      /\ \A c \in live : clocks'[c] = clocks[c] /\ c # n
      /\ clocks'[n] = new /\ live' = lives \cup {n}
      /\ clock' = [clock EXCEPT ![f] = n]
      /\ clocks' \in Seq([file : Files, init : Nat]) /\ Len(clocks') = n
  <2>1. Types
    BY DEF IInv
  <2>2. /\ Len(clocks') = n /\ Len(clocks) \in Nat
        /\ \A c \in 1..Len(clocks) : clocks'[c] = clocks[c]
        /\ clocks'[n] = new
        /\ clocks' \in Seq([file : Files, init : Nat])
        /\ live' = lives \cup {n}
        /\ clock' = [clock EXCEPT ![f] = n]
    BY <2>1, NewClockEffect
  <2>3. live \subseteq 1..Len(clocks)
    BY <2>1 DEF Types
  <2>4. \A c \in live : clocks'[c] = clocks[c]
    BY <2>2, <2>3
  <2>5. n \in Nat \ {0} /\ \A c \in live : c # n
    BY <2>2, <2>3
  <2> HIDE DEF new, n
  <2> QED
    BY <2>2, <2>4, <2>5
<1>2. /\ clock' \in [Files -> Nat] /\ clock'[f] = n
      /\ \A g \in Files \ {f} : clock'[g] = clock[g]
  BY <1>1 DEF IInv, Types
<1>3. \A c \in live : clocks[c].file \in Files /\ clocks[c].init \in Nat
  BY MadeByFiles DEF IInv
<1>4. \A g \in Files : algorithm[g].init \in Nat
  BY DEF IInv, Types
<1>5. Types'
  <2>1. live' \subseteq 1..Len(clocks')
    BY <1>1 DEF IInv, Types
  <2> QED
    BY <1>1, <1>2, <2>1 DEF IInv, Types
<1>6. NotOlder'
  BY DEF IInv, NotOlder
<1>7. OwnClock'
  <2> SUFFICES ASSUME NEW g \in Files, clock'[g] # 0
               PROVE  /\ clock'[g] \in live'
                      /\ clocks'[clock'[g]] = [file |-> g, init |-> algorithm[g].init]
    BY DEF OwnClock
  <2>1. CASE g = f
    BY <2>1, <1>1, <1>2
  <2>2. CASE g # f
    <3>1. clock'[g] = clock[g] /\ clock[g] \in lives /\ clock[g] \in live
      BY <2>2, <1>2
    <3> QED
      BY <3>1, <1>1 DEF IInv, OwnClock
  <2> QED
    BY <2>1, <2>2
<1>8. NoneNewer'
  <2> SUFFICES ASSUME NEW c \in live'
               PROVE  clocks'[c].init =< algorithm[clocks'[c].file].init
    BY DEF NoneNewer
  <2>1. CASE c = n
    BY <2>1, <1>1, <1>4
  <2>2. CASE c \in live
    BY <2>2, <1>1 DEF IInv, NoneNewer
  <2> QED
    BY <2>1, <2>2, <1>1
<1>9. NoOther'
  <2> SUFFICES ASSUME NEW c \in live', clocks'[c].file \in Deleting,
                      clocks'[c].init = algorithm[clocks'[c].file].init
               PROVE  c = clock'[clocks'[c].file]
    BY DEF NoOther
  <2>1. CASE c = n
    BY <2>1, <1>1, <1>2
  <2>2. CASE c \in lives
    <3>1. c \in live /\ clocks'[c] = clocks[c]
      BY <2>2, <1>1
    <3>2. c = clock[clocks[c].file]
      BY <3>1 DEF IInv, NoOther
    <3>3. clocks[c].file # f
      BY <2>2, <3>1, <3>2
    <3> QED
      BY <3>1, <3>2, <3>3, <1>2, <1>3
  <2> QED
    BY <2>1, <2>2, <1>1
<1>10. OneClockLeft'
  <2> SUFFICES ASSUME NEW c \in live', NEW d \in live', clocks'[c] = clocks'[d],
                      clocks'[c].file \in Deleting
               PROVE  c = d
    BY DEF OneClockLeft, Deleting
  <2>1. CASE c = n \/ d = n
    <3>1. clocks'[c] = new /\ clocks'[d] = new
      BY <2>1, <1>1
    <3>2. c = clock'[f] /\ d = clock'[f]
      BY <3>1, <1>9 DEF NoOther
    <3> QED
      BY <3>2
  <2>2. CASE c \in lives /\ d \in lives
    <3>1. c \in live /\ d \in live /\ clocks[c] = clocks[d] /\ clocks[c].file \in Deleting
      BY <2>2, <1>1
    <3> QED
      BY <3>1 DEF IInv, OneClockLeft, Deleting
  <2> QED
    BY <2>1, <2>2, <1>1
<1> QED
  BY <1>5, <1>6, <1>7, <1>8, <1>9, <1>10 DEF IInv

\* A synchronisation makes a clock, after deleting the last one or not, or does nothing.
LEMMA SyncKeeps ==
  ASSUME IInv, NEW h \in Handle, Sync(h)
  PROVE  IInv'
<1> DEFINE module == handles[h].module
           f == module.file.name
<1>1. module \in Modules /\ f \in Files
  BY FileOfModule DEF IInv, Types
<1>2. UNCHANGED <<inits, handles, algorithm>>
  BY DEF Sync
<1>3. \/ module.file.sync_clocks = "empty" /\ EmptyWithComm
      \/ module.file.sync_clocks = "replace" /\ Replace(f)
      \/ module.file.sync_clocks = "delete first" /\ DeleteFirst(f)
  BY DEF Sync
<1>4. CASE EmptyWithComm
  <2>1. inits \in Nat
    BY DEF IInv, Types
  <2> QED
    BY <1>2, <1>4, <2>1, StutterKeeps DEF EmptyWithComm
<1>5. CASE module.file.sync_clocks = "replace" /\ Replace(f)
  <2>1. f \notin Deleting
    BY <1>1, <1>5, DeletingDeletes
  <2>2. NewClock(f, live)
    BY <1>5 DEF Replace
  <2>3. \A g \in Files : clock[g] # 0 => clock[g] \in live
    BY DEF IInv, OwnClock
  <2> QED
    BY <1>1, <1>2, <2>1, <2>2, <2>3, NewClockKeeps
<1>6. CASE DeleteFirst(f)
  <2>1. NewClock(f, live \ {clock[f]})
    BY <1>6 DEF DeleteFirst
  <2>2. ASSUME NEW g \in Files, g # f, clock[g] # 0
        PROVE  clock[g] \in live \ {clock[f]}
    <3>1. clock[g] \in live /\ clocks[clock[g]].file = g
      BY <2>2, OwnClockFacts DEF IInv
    <3>2. clock[f] # 0 => clocks[clock[f]].file = f
      BY <1>1, OwnClockFacts DEF IInv
    <3> QED
      BY <2>2, <3>1, <3>2
  <2> QED
    BY <1>1, <1>2, <2>1, <2>2, NewClockKeeps
<1> QED
  BY <1>3, <1>4, <1>5, <1>6

\* The invariant is inductive.
LEMMA Invariance == IInv /\ [Next]_vars => IInv'
<1> SUFFICES ASSUME IInv, [Next]_vars PROVE IInv'
  OBVIOUS
<1>0. inits \in Nat
  BY DEF IInv, Types
<1>1. ASSUME NEW h \in Handle, NEW env \in Envs, InitLibrary(h, env) PROVE IInv'
  <2>1. inits' = inits + 1 /\ inits' \in Nat /\ inits' >= inits
    BY <1>0, <1>1, InitLibraryEffect
  <2>2. CASE UNCHANGED <<handles, algorithm, clock, clocks, live>>
    BY <2>1, <2>2, StutterKeeps
  <2>3. ASSUME NEW module \in Modules, NEW algs, InitModule(h, module, env, algs)
        PROVE  IInv'
    BY <2>1, <2>3, InitModuleKeeps
  <2> QED
    BY <1>1, <2>2, <2>3, InitLibraryEffect
<1>2. ASSUME NEW h \in Handle, Sync(h) PROVE IInv'
  BY <1>2, SyncKeeps
<1>3. CASE FinalizeLibrary
  BY <1>0, <1>3, StutterKeeps DEF FinalizeLibrary
<1>4. CASE UNCHANGED vars
  BY <1>0, <1>4, StutterKeeps DEF vars
<1> QED
  BY <1>1, <1>2, <1>3, <1>4 DEF Next

-----------------------------------------------------------------------------
(* What a module runs.                                                     *)

\* An algorithm that a key yields is the one its value names first.
LEMMA InstantiatedName ==
  ASSUME NEW alg, NEW tokens, NEW x \in Instantiated(alg, tokens),
         x \notin Ends \cup {"NULL"}
  PROVE  x = alg
<1>1. ASSUME NEW ts PROVE OffsetAlg(ts) \subseteq {"crash", "NULL", "offset"}
  BY DEF OffsetAlg
<1>2. ASSUME NEW n, x \in Algorithm(alg, tokens, n)
      PROVE  x = alg
  BY <1>1, <1>2 DEF Algorithm, Ends
<1>3. ASSUME alg = "prop", x \in {Propagation(tokens[1])}
      PROVE  x = alg
  BY <1>3 DEF Propagation, Ends
<1>4. \/ \E n \in {0, 1, 2} : x \in Algorithm(alg, tokens, n)
      \/ alg = "prop" /\ x \in {Propagation(tokens[1])}
      \/ x = "NULL"
  BY DEF Instantiated
<1> QED
  BY <1>2, <1>3, <1>4

\* An init function ends the program, falls back on the default, or has an algorithm
\* for each of its keys, all of the class the module wants.
LEMMA LoadedAlgorithms ==
  ASSUME NEW init_module, NEW parameters, NEW algs \in Loaded(init_module, parameters)
  PROVE  \/ algs # <<>> /\ algs[1] \in Ends
         \/ algs = init_module.default
         \/ /\ DOMAIN algs = DOMAIN init_module.keys
            /\ \A k \in DOMAIN algs :
                 /\ algs[k] \in Instantiate(parameters, init_module.keys[k])
                 /\ algs[k] \notin Ends \cup {"NULL"}
                 /\ InstanceOf(algs[k], init_module.class)
<1> DEFINE keys == init_module.keys
           results == [k \in DOMAIN keys |-> Instantiate(parameters, keys[k])]
           outcomes == {f \in [DOMAIN keys -> UNION Range(results)] :
                          \A k \in DOMAIN keys : f[k] \in results[k]}
           Stops(f, k) == f[k] \in Ends \cup {"NULL"} \/ ~InstanceOf(f[k], init_module.class)
           First(f) == CHOOSE k \in DOMAIN f :
                         Stops(f, k) /\ \A j \in 1..(k - 1) : ~Stops(f, j)
           Stopped(x) == CASE x = "NULL" -> init_module.default
                           [] x \in Ends -> <<x>>
                           [] OTHER      -> <<"exit">>
<1>1. PICK f \in outcomes :
        algs = IF \E k \in DOMAIN f : Stops(f, k) THEN Stopped(f[First(f)]) ELSE f
  BY Zenon DEF Loaded
<1>2. ASSUME NEW x PROVE Stopped(x) = init_module.default \/ \E e \in Ends : Stopped(x) = <<e>>
  <2>1. CASE x = "NULL"
    BY <2>1, Zenon DEF Ends
  <2>2. CASE x # "NULL" /\ x \in Ends
    BY <2>2, Zenon
  <2>3. CASE x # "NULL" /\ x \notin Ends
    <3>1. Stopped(x) = <<"exit">>
      BY <2>3, Zenon
    <3> QED
      BY <3>1 DEF Ends
  <2> QED
    BY <2>1, <2>2, <2>3
<1>3. CASE \E k \in DOMAIN f : Stops(f, k)
  <2>1. algs = Stopped(f[First(f)])
    BY <1>1, <1>3
  <2>2. ASSUME NEW e \in Ends, algs = <<e>> PROVE algs # <<>> /\ algs[1] \in Ends
    BY <2>2
  <2> HIDE DEF Stopped, First
  <2> QED
    BY <1>2, <2>1, <2>2
<1>4. CASE ~\E k \in DOMAIN f : Stops(f, k)
  <2>1. algs = f
    BY <1>1, <1>4
  <2>2. DOMAIN f = DOMAIN keys /\ \A k \in DOMAIN keys : f[k] \in Instantiate(parameters, keys[k])
    OBVIOUS
  <2> QED
    BY <1>4, <2>1, <2>2
<1> QED
  BY <1>3, <1>4

\* The modules for several levels take algorithms of any class, the others those of
\* one.
LEMMA KindOfModule ==
  ASSUME NEW module \in Modules, module.clocksync \notin {"TOPO1", "TOPO2"}
  PROVE  /\ ToSet(module.init_module.default) \subseteq OwnKind(module.clocksync)
         /\ \A x : InstanceOf(x, module.init_module.class) /\ module.init_module.keys # <<>>
              => x \in OwnKind(module.clocksync)
<1> DEFINE Own(m) ==
      /\ ToSet(m.init_module.default) \subseteq OwnKind(m.clocksync)
      /\ \A x : InstanceOf(x, m.init_module.class) /\ m.init_module.keys # <<>>
           => x \in OwnKind(m.clocksync)
<1>1. module \in {RegisterNone, RegisterSk, RegisterJk, RegisterHca, RegisterHca2,
                  RegisterHca3, RegisterHca3O, RegisterTopo1, RegisterTopo2}
  <2>1. DOMAIN SyncModules = 1..9
    BY DEF SyncModules
  <2> QED
    BY <2>1 DEF Modules, Range, SyncModules
<1>2. module # RegisterTopo1 /\ module # RegisterTopo2
  BY DEF RegisterTopo1, RegisterTopo2, Entry
<1>3. ASSUME NEW a \in {"SKaMPI", "JK", "HCA2", "HCA3", "HCA3O"}, NEW kind, NEW m,
             m.clocksync = kind, m.init_module.default = <<a>>, m.init_module.class = a,
             OwnKind(kind) = {a}
      PROVE  Own(m)
  <2>1. \A x : InstanceOf(x, a) => x = a
    BY DEF InstanceOf
  <2>2. ToSet(<<a>>) = {a}
    BY DEF ToSet
  <2> QED
    BY <1>3, <2>1, <2>2
<1>5. Own(RegisterNone)
  BY DEF RegisterNone, Entry, EmptyInit, InitFunction, ToSet
<1>6. Own(RegisterSk)
  <2>1. OwnKind("SKAMPI") = {"SKaMPI"}
    BY Zenon DEF OwnKind
  <2>2. RegisterSk.clocksync = "SKAMPI" /\ RegisterSk.init_module = SkInit
    BY DEF RegisterSk, Entry
  <2>3. SkInit.class = "SKaMPI" /\ SkInit.default = <<"SKaMPI">>
    BY DEF SkInit, InitFunction
  <2> QED
    BY <1>3, <2>1, <2>2, <2>3
<1>7. Own(RegisterJk)
  <2>1. OwnKind("JK") = {"JK"}
    BY Zenon DEF OwnKind
  <2>2. RegisterJk.clocksync = "JK" /\ RegisterJk.init_module = JkInit
    BY DEF RegisterJk, Entry
  <2>3. JkInit.class = "JK" /\ JkInit.default = <<"JK">>
    BY DEF JkInit, InitFunction
  <2> QED
    BY <1>3, <2>1, <2>2, <2>3
<1>8. Own(RegisterHca)
  <2>1. OwnKind("HCA") = {"HCA", "HCA2"}
    BY Zenon DEF OwnKind
  <2>2. RegisterHca.clocksync = "HCA" /\ RegisterHca.init_module = HcaInit
    BY DEF RegisterHca, Entry
  <2>3. HcaInit.class = "HCA" /\ HcaInit.default = <<"HCA">>
    BY DEF HcaInit, InitFunction
  <2>4. ToSet(<<"HCA">>) = {"HCA"} /\ \A x : InstanceOf(x, "HCA") => x \in {"HCA", "HCA2"}
    BY DEF InstanceOf, ToSet
  <2> QED
    BY <2>1, <2>2, <2>3, <2>4
<1>9. Own(RegisterHca2)
  <2>1. OwnKind("HCA2") = {"HCA2"}
    BY Zenon DEF OwnKind
  <2>2. RegisterHca2.clocksync = "HCA2" /\ RegisterHca2.init_module = Hca2Init
    BY DEF RegisterHca2, Entry
  <2>3. Hca2Init.class = "HCA2" /\ Hca2Init.default = <<"HCA2">>
    BY DEF Hca2Init, InitFunction
  <2> QED
    BY <1>3, <2>1, <2>2, <2>3
<1>10. Own(RegisterHca3)
  <2>1. OwnKind("HCA3") = {"HCA3"}
    BY Zenon DEF OwnKind
  <2>2. RegisterHca3.clocksync = "HCA3" /\ RegisterHca3.init_module = Hca3Init
    BY DEF RegisterHca3, Entry
  <2>3. Hca3Init.class = "HCA3" /\ Hca3Init.default = <<"HCA3">>
    BY DEF Hca3Init, InitFunction
  <2> QED
    BY <1>3, <2>1, <2>2, <2>3
<1>11. Own(RegisterHca3O)
  <2>1. OwnKind("HCA3_OFFSET") = {"HCA3O"}
    BY Zenon DEF OwnKind
  <2>2. RegisterHca3O.clocksync = "HCA3_OFFSET" /\ RegisterHca3O.init_module = Hca3OInit
    BY DEF RegisterHca3O, Entry
  <2>3. Hca3OInit.class = "HCA3O" /\ Hca3OInit.default = <<"HCA3O">>
    BY DEF Hca3OInit, InitFunction
  <2> QED
    BY <1>3, <2>1, <2>2, <2>3
<1> QED
  BY <1>1, <1>2, <1>5, <1>6, <1>7, <1>8, <1>9, <1>10, <1>11

\* The algorithm of key k is the one the dictionary st gives for it.
Named(st, module, algs, k) ==
  LET keys == module.init_module.keys
  IN  keys[k] \in DOMAIN st /\ Head(st[keys[k]]) = algs[k]

\* What Runs says, with the dictionary st.
RunsWith(st, module, algs) ==
  /\ algs = module.init_module.default \/ \A k \in DOMAIN algs : Named(st, module, algs, k)
  /\ \/ module.clocksync \in {"TOPO1", "TOPO2"}
     \/ ToSet(algs) \subseteq OwnKind(module.clocksync)

\* What Heeded says, with the dictionary st.
HeededIn(st, argv) ==
  \A pair \in Range(Pairs(argv)) : pair.key \in DOMAIN st /\ st[pair.key] = pair.val

\* What has been loaded with a dictionary is what it names, or the default.
LEMMA LoadedRuns ==
  ASSUME NEW st, NEW module \in Modules, NEW algs \in Loaded(module.init_module, st),
         ~(algs # <<>> /\ algs[1] \in Ends)
  PROVE  RunsWith(st, module, algs)
<1> DEFINE keys == module.init_module.keys
<1>1. \/ algs = module.init_module.default
      \/ /\ DOMAIN algs = DOMAIN keys
         /\ \A k \in DOMAIN algs :
              /\ algs[k] \in Instantiate(st, keys[k])
              /\ algs[k] \notin Ends \cup {"NULL"}
              /\ InstanceOf(algs[k], module.init_module.class)
  BY LoadedAlgorithms
<1>2. CASE algs = module.init_module.default
  BY <1>2, KindOfModule DEF RunsWith
<1>3. CASE algs # module.init_module.default
  <2>1. ASSUME NEW k \in DOMAIN algs PROVE Named(st, module, algs, k)
    <3>1. algs[k] \in Instantiate(st, keys[k]) /\ algs[k] \notin Ends \cup {"NULL"}
      BY <1>1, <1>3
    <3>2. keys[k] \in DOMAIN st
      BY <3>1 DEF Instantiate
    <3>3. algs[k] \in Instantiated(Head(st[keys[k]]), Tail(st[keys[k]]))
      BY <3>1, <3>2 DEF Instantiate
    <3>4. algs[k] = Head(st[keys[k]])
      BY <3>1, <3>3, InstantiatedName
    <3> QED
      BY <3>2, <3>4 DEF Named
  <2>2. CASE module.clocksync \notin {"TOPO1", "TOPO2"}
    <3>1. \A k \in DOMAIN algs : algs[k] \in OwnKind(module.clocksync)
      <4> SUFFICES ASSUME NEW k \in DOMAIN algs
                   PROVE  algs[k] \in OwnKind(module.clocksync)
        OBVIOUS
      <4>1. InstanceOf(algs[k], module.init_module.class) /\ k \in DOMAIN keys
        BY <1>1, <1>3
      <4>2. keys # <<>>
        BY <4>1
      <4> QED
        BY <2>2, <4>1, <4>2, KindOfModule
    <3> QED
      BY <2>1, <2>2, <3>1 DEF RunsWith, ToSet
  <2> QED
    BY <2>1, <2>2 DEF RunsWith
<1> QED
  BY <1>2, <1>3

\* What the dictionary holds stays in it, whatever is put into it.
Grows ==
  /\ DOMAIN store \subseteq DOMAIN store'
  /\ \A key \in DOMAIN store : store'[key] = store[key]

\* So what a module runs stays what the dictionary names, and what it heeds it heeds on.
LEMMA RunsOn ==
  ASSUME NEW module, NEW algs, RunsWith(store, module, algs), Grows
  PROVE  RunsWith(store', module, algs)
  BY DEF RunsWith, Named, Grows

LEMMA HeededOn ==
  ASSUME NEW argv, HeededIn(store, argv), Grows
  PROVE  HeededIn(store', argv)
  BY DEF HeededIn, Grows

\* Unless the parser stops, all pairs are put into the dictionary as they are.
LEMMA StoreHeeds ==
  ASSUME NEW st, NEW argv, ~PairsFail(st, argv)
  PROVE  HeededIn(StoreWith(st, argv), argv)
<1> DEFINE pairs == Pairs(argv)
           given == {pairs[k].key : k \in DOMAIN pairs}
<1> SUFFICES ASSUME NEW n \in DOMAIN pairs
             PROVE  /\ pairs[n].key \in DOMAIN StoreWith(st, argv)
                    /\ StoreWith(st, argv)[pairs[n].key] = pairs[n].val
  BY DEF HeededIn, Range
<1>1. /\ pairs[n].key \notin DOMAIN st
      /\ \A k \in DOMAIN pairs : pairs[k].key = pairs[n].key => k = n
  BY DEF PairsFail
<1>2. n = CHOOSE k \in DOMAIN pairs : pairs[k].key = pairs[n].key
  BY <1>1
<1>3. StoreWith(st, argv) =
        [key \in DOMAIN st \cup given |->
           IF key \in DOMAIN st THEN st[key]
           ELSE pairs[CHOOSE k \in DOMAIN pairs : pairs[k].key = key].val]
  BY DEF StoreWith
<1>4. pairs[n].key \in given
  OBVIOUS
<1> HIDE DEF pairs, given
<1> QED
  BY <1>1, <1>2, <1>3, <1>4

\* MPITS_Init only adds to the dictionary; when it sets a module up, the dictionary
\* holds what argv says, and the module runs what the dictionary names.
LEMMA InitLibraryRuns ==
  ASSUME NEW h \in Handle, NEW env \in Envs, InitLibrary(h, env)
  PROVE  /\ Grows
         /\ \/ UNCHANGED <<handles, algorithm>>
            \/ \E module \in Modules : \E algs :
                 /\ InitModule(h, module, env, algs)
                 /\ HeededIn(store', Argv(env))
                 /\ RunsWith(store', module, algs)
<1> DEFINE argv == Argv(env)
           index == ModuleIndex(SelectedName(argv))
           parameters == StoreWith(store, argv)
<1>1. ASSUME NEW how, EndProcess(how)
      PROVE  UNCHANGED <<handles, algorithm>>
  BY <1>1 DEF EndProcess
<1>2. CASE UNCHANGED store /\ \E how : EndProcess(how)
  BY <1>1, <1>2 DEF Grows
<1>3. CASE Configure(h, env) /\ ~PairsFail(store, argv)
  <2>1. store' = parameters
    BY <1>3 DEF Configure
  <2>2. Grows
    <3>1. ASSUME NEW s PROVE /\ DOMAIN s \subseteq DOMAIN StoreWith(s, argv)
                             /\ \A key \in DOMAIN s : StoreWith(s, argv)[key] = s[key]
      BY DEF StoreWith
    <3> QED
      BY <2>1, <3>1 DEF Grows
  <2>3. CASE index = {}
    BY <1>3, <2>2, <2>3 DEF Configure
  <2>4. CASE index # {}
    <3>1. PICK i \in index : \E algs \in Loaded(SyncModules[i].init_module, parameters) :
            IF algs # <<>> /\ algs[1] \in Ends
            THEN EndProcess(algs[1])
            ELSE InitModule(h, SyncModules[i], env, algs)
      BY <1>3, <2>4 DEF Configure
    <3>2. PICK algs \in Loaded(SyncModules[i].init_module, parameters) :
            IF algs # <<>> /\ algs[1] \in Ends
            THEN EndProcess(algs[1])
            ELSE InitModule(h, SyncModules[i], env, algs)
      BY <3>1
    <3>3. PICK module \in Modules : module = SyncModules[i]
      BY DEF ModuleIndex, Modules, Range
    <3>4. CASE algs # <<>> /\ algs[1] \in Ends
      BY <1>1, <2>2, <3>2, <3>4
    <3>5. CASE ~(algs # <<>> /\ algs[1] \in Ends)
      <4>1. InitModule(h, module, env, algs)
        BY <3>2, <3>3, <3>5
      <4>2. HeededIn(store', argv)
        BY <1>3, <2>1, StoreHeeds
      <4>3. RunsWith(store', module, algs)
        BY <2>1, <3>3, <3>5, LoadedRuns
      <4> QED
        BY <2>2, <4>1, <4>2, <4>3
    <3> QED
      BY <3>4, <3>5
  <2> QED
    BY <2>3, <2>4
<1>4. CASE Configure(h, env) /\ PairsFail(store, argv)
  <2>1. UNCHANGED store /\ EndProcess("exit")
    BY <1>4 DEF Configure
  <2> QED
    BY <1>2, <2>1
<1>5. CASE Overruns(env) /\ UNCHANGED store /\ EndProcess("crash")
  BY <1>2, <1>5
<1> QED
  BY <1>3, <1>4, <1>5 DEF InitLibrary

\* Every step leaves every handle with the parameters of its initialisation, and every
\* file with a module of its own that runs what the dictionary names.
LEMMA RunsStep == IInv /\ ParametersHeeded /\ [Next]_vars => ParametersHeeded'
<1> SUFFICES ASSUME IInv, ParametersHeeded, [Next]_vars PROVE ParametersHeeded'
  OBVIOUS
<1> DEFINE Good(handle, running, st) ==
      /\ HeededIn(st, Argv(handle.env))
      /\ \E other \in Modules :
           /\ other.file = handle.module.file /\ RunsWith(st, other, running.algs)
           /\ running.init = handle.init => other = handle.module
<1> DEFINE Of(handle, alg) == alg[handle.module.file.name]
<1>0. /\ \A g \in InUse : Good(handles[g], Of(handles[g], algorithm), store)
      /\ (\A g \in InUse' : Good(handles'[g], Of(handles'[g], algorithm'), store'))
         => ParametersHeeded'
  BY DEF ParametersHeeded, Runs, RunsWith, Named, Heeded, HeededIn, Modules
<1>1. ASSUME NEW handle, NEW running, Good(handle, running, store), Grows
      PROVE  Good(handle, running, store')
  <2>1. HeededIn(store', Argv(handle.env))
    BY <1>1, HeededOn
  <2>2. PICK other \in Modules :
          /\ other.file = handle.module.file /\ RunsWith(store, other, running.algs)
          /\ running.init = handle.init => other = handle.module
    BY <1>1
  <2>3. RunsWith(store', other, running.algs)
    BY <1>1, <2>2, RunsOn
  <2> QED
    BY <2>1, <2>2, <2>3
<1>2. ASSUME Grows, UNCHANGED <<handles, algorithm>>
      PROVE  ParametersHeeded'
  <2>1. InUse' = InUse /\ handles' = handles /\ algorithm' = algorithm
    BY <1>2 DEF InUse
  <2>2. ASSUME NEW g \in InUse PROVE Good(handles[g], Of(handles[g], algorithm), store')
    <3> HIDE DEF Good, Of
    <3> QED
      BY <1>0, <1>1, <1>2
  <2> HIDE DEF Good
  <2> QED
    BY <1>0, <2>1, <2>2
<1>3. ASSUME NEW h \in Handle, NEW env \in Envs, InitLibrary(h, env)
      PROVE  ParametersHeeded'
  <2>1. Grows /\ inits' = inits + 1
    BY <1>3, InitLibraryRuns, InitLibraryEffect
  <2>2. CASE UNCHANGED <<handles, algorithm>>
    BY <1>2, <2>1, <2>2
  <2>3. CASE ~UNCHANGED <<handles, algorithm>>
    <3>1. PICK module \in Modules : \E algs :
            /\ InitModule(h, module, env, algs)
            /\ HeededIn(store', Argv(env))
            /\ RunsWith(store', module, algs)
      BY <1>3, <2>3, InitLibraryRuns
    <3>2. PICK algs :
            /\ InitModule(h, module, env, algs)
            /\ HeededIn(store', Argv(env))
            /\ RunsWith(store', module, algs)
      BY <3>1
    <3> DEFINE f == module.file.name
    <3>3. f \in Files
      BY FileOfModule
    <3>4. handles'[h] = [init |-> inits + 1, module |-> module, env |-> env]
          /\ \A g \in Handle \ {h} : handles'[g] = handles[g]
      BY <3>2 DEF InitModule, IInv, Types
    <3>5. algorithm'[f] = [init |-> inits + 1, algs |-> algs]
          /\ \A e \in Files \ {f} : algorithm'[e] = algorithm[e]
      BY <3>2, <3>3 DEF InitModule, IInv, Types
    <3>6. Good(handles'[h], Of(handles'[h], algorithm'), store')
      BY <3>2, <3>4, <3>5
    <3>7. ASSUME NEW g \in InUse', g # h
          PROVE  Good(handles'[g], Of(handles'[g], algorithm'), store')
      <4>1. g \in InUse /\ handles'[g] = handles[g]
        BY <3>4, <3>7 DEF InUse
      <4>2. handles[g].module \in Modules /\ handles[g].init \in 0..inits /\ inits \in Nat
        BY <4>1 DEF InUse, IInv, Types
      <4>3. Good(handles[g], Of(handles[g], algorithm), store')
        <5> HIDE DEF Good, Of
        <5> QED
          BY <1>0, <1>1, <2>1, <4>1
      <4>4. CASE handles[g].module.file.name = f
        <5>1. handles[g].module.file = module.file
          BY <4>2, <4>4, SameFile
        <5>2. Of(handles'[g], algorithm') = [init |-> inits + 1, algs |-> algs]
          BY <3>5, <4>1, <4>4
        <5>3. inits + 1 # handles[g].init
          BY <4>2
        <5> QED
          BY <3>2, <4>1, <4>3, <5>1, <5>2, <5>3
      <4>5. CASE handles[g].module.file.name # f
        <5>1. Of(handles'[g], algorithm') = Of(handles[g], algorithm)
          BY <3>5, <4>1, <4>2, <4>5, FileOfModule
        <5> QED
          BY <4>1, <4>3, <5>1
      <4> QED
        BY <4>4, <4>5
    <3> HIDE DEF Good
    <3> QED
      BY <1>0, <3>6, <3>7
  <2> QED
    BY <2>2, <2>3
<1>4. CASE UNCHANGED <<store, handles, algorithm>>
  BY <1>2, <1>4 DEF Grows
<1> QED
  BY <1>3, <1>4 DEF Next, Sync, FinalizeLibrary, vars

-----------------------------------------------------------------------------
(* Results.                                                                *)

\* Whatever has been initialised, synchronised and finalised before: the time that
\* MPITS_Clocksync_get_time gives through a handle comes from a clock that has not
\* been deleted and that the algorithm its file runs now has made.
THEOREM TimeFromCurrentClock == Spec => []ReadsCurrentClock
<1>1. IInv => ReadsCurrentClock
  <2> SUFFICES ASSUME IInv, NEW h \in InUse
               PROVE  LET f == handles[h].module.file.name IN
                      /\ algorithm[f].init >= handles[h].init
                      /\ GetTime(h) = "clock" =>
                           /\ clock[f] \in live
                           /\ clocks[clock[f]].init = algorithm[f].init
    BY DEF ReadsCurrentClock
  <2> DEFINE f == handles[h].module.file.name
  <2>1. h \in Handle /\ f \in Files
    BY FileOfModule DEF InUse, IInv, Types
  <2>2. algorithm[f].init >= handles[h].init
    BY <2>1 DEF IInv, NotOlder
  <2>3. GetTime(h) = "clock" => clock[f] # 0
    <3> SUFFICES ASSUME clock[f] = 0 PROVE GetTime(h) # "clock"
      OBVIOUS
    <3>1. CASE handles[h].module.file.get_global_time = "local"
      BY <3>1 DEF GetTime
    <3>2. CASE handles[h].module.file.get_global_time # "local"
      <4>1. GetTime(h) = "error"
        BY <3>2 DEF GetTime
      <4> QED
        BY <4>1
    <3> QED
      BY <3>1, <3>2
  <2>4. clock[f] # 0 => clock[f] \in live /\ clocks[clock[f]].init = algorithm[f].init
    BY <2>1, OwnClockFacts DEF IInv
  <2> QED
    BY <2>2, <2>3, <2>4
<1> QED
  BY <1>1, Initially, Invariance, PTL DEF Spec

\* However often an HCA module or Topo2 synchronises, with whatever other modules of
\* its file have been initialised in between: of the clocks of one initialisation one
\* is left.
THEOREM NoClockPilesUp == Spec => []OneClockLeft
<1>1. IInv => OneClockLeft
  BY DEF IInv
<1> QED
  BY <1>1, Initially, Invariance, PTL DEF Spec

\* Whatever has been initialised before, with whatever dictionary is left of it: all
\* parameters left in argv by an initialisation that succeeds are and stay in the
\* dictionary, and every file of a handle has a module of its own, the handle's unless
\* it has been taken over, that runs what the dictionary names or its default.
THEOREM ParametersAlwaysHeeded == Spec => []ParametersHeeded
<1>1. Init => ParametersHeeded
  BY DEF Init, ParametersHeeded, InUse
<1> QED
  BY <1>1, RunsStep, Initially, Invariance, PTL DEF Spec

-----------------------------------------------------------------------------
(* Copied clocks.                                                          *)

\* The coefficients of a model: any values.
CONSTANT Coefficients

Model == {m \in [kind : Kinds, coefs : Seq(Coefficients)] : Len(m.coefs) = NCoefs(m.kind)}

\* The clocks that survive flattening: one model, or a linear model over another one.
Flat(nest) ==
  /\ nest \in Seq(Model)
  /\ Len(nest) = 1 \/ (Len(nest) = 2 /\ nest[1].kind = "LM")

LEMMA SizeOfModel ==
  ASSUME NEW m \in Model
  PROVE  /\ m.kind \in Kinds /\ m.coefs \in Seq(Coefficients)
         /\ Len(m.coefs) = NCoefs(m.kind)
         /\ m.kind = "LM" => ThisSize(m) = 5 /\ Len(m.coefs) = 2
         /\ m.kind = "Offset" => ThisSize(m) = 3 /\ Len(m.coefs) = 1
         /\ ThisSize(m) \in {3, 5}
<1>1. /\ m.kind \in {"Offset", "LM"} /\ m.coefs \in Seq(Coefficients)
      /\ Len(m.coefs) = NCoefs(m.kind)
  BY DEF Model, Kinds
<1>2. NCoefs(m.kind) = IF m.kind = "LM" THEN 2 ELSE 1
  BY DEF NCoefs
<1>3. ThisSize(m) = 1 + 2 * Len(m.coefs)
  BY DEF ThisSize
<1> QED BY <1>1, <1>2, <1>3 DEF Kinds

\* The function by which Place goes through a nest.
Down(end, nest, n) ==
  end = [j \in 0..n |-> IF j = 0 THEN BufferSize(nest)
                        ELSE end[j - 1] - MoveBack(SubSeq(nest, j, Len(nest)))]

LEMMA PlaceDown ==
  ASSUME NEW nest, NEW n, NEW end, Down(end, nest, n)
  PROVE  \E g : Down(g, nest, n) /\ Place(nest, n) = g[n]
<1> DEFINE g == CHOOSE f : Down(f, nest, n)
<1>1. Down(g, nest, n)
  OBVIOUS
<1>2. Place(nest, n) = g[n]
  BY DEF Place, Down
<1> HIDE DEF g
<1> QED BY <1>1, <1>2

LEMMA PlaceSingle ==
  ASSUME NEW nest, Flat(nest), Len(nest) = 1
  PROVE  /\ nest[1] \in Model /\ BufferSize(nest) = 1 + ThisSize(nest[1])
         /\ Place(nest, 1) = 1
<1>1. nest[1] \in Model
  BY DEF Flat
<1>2. /\ FlattenedSize(nest) = ThisSize(nest[1]) /\ BufferSize(nest) = 1 + ThisSize(nest[1])
      /\ ThisSize(nest[1]) \in Nat
  BY <1>1, SizeOfModel DEF FlattenedSize, BufferSize
<1>3. SubSeq(nest, 1, Len(nest)) = nest
  BY DEF Flat
<1>4. MoveBack(SubSeq(nest, 1, Len(nest))) = ThisSize(nest[1])
  BY <1>2, <1>3 DEF MoveBack
<1> DEFINE moved(j) == MoveBack(SubSeq(nest, j, Len(nest)))
<1>8. moved(1) = ThisSize(nest[1])
  BY <1>4
<1> HIDE DEF moved
<1> DEFINE e == [j \in 0..1 |-> IF j = 0 THEN BufferSize(nest) ELSE 1]
<1>5. Down(e, nest, 1)
  <2>1. \A j \in 0..1 : e[j] = IF j = 0 THEN BufferSize(nest)
                        ELSE e[j - 1] - moved(j)
    BY <1>2, <1>8
  <2> QED BY <2>1 DEF Down, moved
<1> HIDE DEF e
<1>6. PICK g : Down(g, nest, 1) /\ Place(nest, 1) = g[1]
  BY <1>5, PlaceDown
<1>7. g[0] = BufferSize(nest) /\ g[1] = g[0] - moved(1)
  BY <1>6 DEF Down, moved
<1> QED BY <1>1, <1>2, <1>6, <1>7, <1>8

LEMMA PlaceDouble ==
  ASSUME NEW nest, Flat(nest), Len(nest) = 2
  PROVE  /\ nest[1] \in Model /\ nest[2] \in Model /\ nest[1].kind = "LM"
         /\ BufferSize(nest) = 1 + ThisSize(nest[1]) + ThisSize(nest[2])
         /\ Place(nest, 2) = 1 /\ Place(nest, 1) = 1 + ThisSize(nest[2])
<1>1. nest[1] \in Model /\ nest[2] \in Model /\ nest[1].kind = "LM" /\ nest \in Seq(Model)
  BY DEF Flat
<1> DEFINE a == ThisSize(nest[1])
           b == ThisSize(nest[2])
           below == SubSeq(nest, 2, Len(nest))
<1>2. a \in Nat /\ b \in Nat
  BY <1>1, SizeOfModel
<1>3. SubSeq(nest, 1, Len(nest)) = nest
  BY <1>1, SubSeqFull
<1>4. below[1] = nest[2] /\ Len(below) = 1
  BY <1>1
<1>5. BufferSize(nest) = 1 + a + b
  BY <1>2 DEF FlattenedSize, BufferSize
<1> DEFINE moved(j) == MoveBack(SubSeq(nest, j, Len(nest)))
<1>6. moved(1) = a
  BY <1>1, <1>3 DEF MoveBack
<1>7. moved(2) = b
  BY <1>2, <1>4 DEF MoveBack, FlattenedSize
<1> HIDE DEF a, b, below, moved
<1> DEFINE e(n) == [j \in 0..n |-> IF j = 0 THEN 1 + a + b ELSE IF j = 1 THEN 1 + b ELSE 1]
<1>8. ASSUME NEW n \in 1..2 PROVE Down(e(n), nest, n)
  <2>1. \A j \in 0..n : j = 0 \/ j = 1 \/ j = 2
    OBVIOUS
  <2>2. e(n)[0] = 1 + a + b /\ e(n)[1] = 1 + b
    OBVIOUS
  <2>3. e(n)[0] - moved(1) = 1 + b
    BY <1>2, <1>6, <2>2
  <2>4. e(n)[1] - moved(2) = 1
    BY <1>2, <1>7, <2>2
  <2>5. \A j \in 0..n : e(n)[j] = IF j = 0 THEN BufferSize(nest)
                        ELSE e(n)[j - 1] - moved(j)
    BY <1>5, <2>1, <2>3, <2>4
  <2> QED BY <2>5 DEF Down, moved
<1> HIDE DEF e
<1>9. ASSUME NEW n \in 1..2, NEW g, Down(g, nest, n)
      PROVE  g[1] = 1 + b /\ (n = 2 => g[2] = 1)
  <2>1. g[0] = 1 + a + b /\ g[1] = g[0] - moved(1)
    BY <1>5, <1>9 DEF Down, moved
  <2>2. g[1] = 1 + b
    BY <1>2, <1>6, <2>1
  <2>3. n = 2 => g[2] = g[1] - moved(2)
    BY <1>9 DEF Down, moved
  <2> QED BY <1>2, <1>7, <2>2, <2>3
<1>10. ASSUME NEW n \in 1..2 PROVE \E g : Down(g, nest, n) /\ Place(nest, n) = g[n]
  BY <1>8, PlaceDown
<1>11. Place(nest, 1) = 1 + b
  <2>1. PICK g : Down(g, nest, 1) /\ Place(nest, 1) = g[1]
    BY <1>10
  <2> QED BY <1>9, <2>1
<1>12. Place(nest, 2) = 1
  <2>1. PICK g : Down(g, nest, 2) /\ Place(nest, 2) = g[2]
    BY <1>10
  <2> QED BY <1>9, <2>1
<1> QED BY <1>1, <1>5, <1>11, <1>12 DEF a, b

LEMMA CellsOf ==
  ASSUME NEW m \in Model
  PROVE  /\ DOMAIN Cells(m) = 0..(ThisSize(m) - 1) /\ Cells(m)[0] = Type(m.kind)
         /\ Cells(m)[1] = Half(m.coefs[1], "low") /\ Cells(m)[2] = Half(m.coefs[1], "high")
         /\ m.kind = "LM" => /\ Cells(m)[3] = Half(m.coefs[2], "low")
                             /\ Cells(m)[4] = Half(m.coefs[2], "high")
<1>1. ThisSize(m) \in {3, 5} /\ (m.kind = "LM" => ThisSize(m) = 5)
  BY SizeOfModel
<1>2. (1 + 1) \div 2 = 1 /\ (2 + 1) \div 2 = 1 /\ (3 + 1) \div 2 = 2 /\ (4 + 1) \div 2 = 2
  OBVIOUS
<1>3. 1 % 2 = 1 /\ 2 % 2 = 0 /\ 3 % 2 = 1 /\ 4 % 2 = 0
  OBVIOUS
<1> QED BY <1>1, <1>2, <1>3 DEF Cells

\* Every cell behind the header is one model's.
WrittenOnce(nest) ==
  \A n \in 1..Len(nest) :
    /\ nest[n] \in Model /\ Place(nest, n) \in Nat /\ Place(nest, n) >= 1
    /\ Place(nest, n) + ThisSize(nest[n]) <= BufferSize(nest)
    /\ \A cell \in Nat : cell - Place(nest, n) \in DOMAIN Cells(nest[n]) =>
         Writers(nest, cell) = {n}

LEMMA AllWrittenOnce ==
  ASSUME NEW nest, Flat(nest)
  PROVE  /\ WrittenOnce(nest) /\ BufferSize(nest) \in Nat /\ BufferSize(nest) > 1
         /\ \A cell \in 1..(BufferSize(nest) - 1) : \E n \in 1..Len(nest) :
              Writers(nest, cell) = {n}
<1>1. CASE Len(nest) = 1
  <2> DEFINE a == ThisSize(nest[1])
  <2>1. /\ nest[1] \in Model /\ BufferSize(nest) = 1 + a /\ Place(nest, 1) = 1
        /\ DOMAIN Cells(nest[1]) = 0..(a - 1) /\ a \in Nat /\ a > 0
    BY <1>1, PlaceSingle, CellsOf, SizeOfModel
  <2> HIDE DEF a
  <2>2. ASSUME NEW cell \in Nat PROVE Writers(nest, cell) = IF cell \in 1..a THEN {1} ELSE {}
    BY <1>1, <2>1 DEF Writers
  <2>3. WrittenOnce(nest)
    BY <1>1, <2>1, <2>2 DEF WrittenOnce, a
  <2> QED BY <1>1, <2>1, <2>2, <2>3
<1>2. CASE Len(nest) = 2
  <2> DEFINE a == ThisSize(nest[1])
             b == ThisSize(nest[2])
  <2>1. /\ nest[1] \in Model /\ nest[2] \in Model /\ BufferSize(nest) = 1 + a + b
        /\ Place(nest, 1) = 1 + b /\ Place(nest, 2) = 1
    BY <1>2, PlaceDouble
  <2>2. /\ DOMAIN Cells(nest[1]) = 0..(a - 1) /\ a \in Nat /\ a > 0
        /\ DOMAIN Cells(nest[2]) = 0..(b - 1) /\ b \in Nat /\ b > 0
    BY <2>1, CellsOf, SizeOfModel
  <2>3. a = ThisSize(nest[1]) /\ b = ThisSize(nest[2])
    OBVIOUS
  <2> HIDE DEF a, b
  <2>4. ASSUME NEW cell \in Nat
        PROVE  Writers(nest, cell) = IF cell \in 1..b THEN {2}
                                     ELSE IF cell \in (1 + b)..(a + b) THEN {1} ELSE {}
    <3>1. \A n \in 1..2 : n = 1 \/ n = 2
      OBVIOUS
    <3>2. cell - Place(nest, 1) \in DOMAIN Cells(nest[1]) <=> cell \in (1 + b)..(a + b)
      BY <2>1, <2>2
    <3>3. cell - Place(nest, 2) \in DOMAIN Cells(nest[2]) <=> cell \in 1..b
      BY <2>1, <2>2
    <3>4. ~(cell \in 1..b /\ cell \in (1 + b)..(a + b))
      BY <2>2
    <3> QED BY <1>2, <3>1, <3>2, <3>3, <3>4 DEF Writers
  <2>7. ASSUME NEW cell \in Nat, cell - Place(nest, 1) \in DOMAIN Cells(nest[1])
        PROVE  Writers(nest, cell) = {1}
    <3>1. cell \in (1 + b)..(a + b) /\ cell \notin 1..b
      BY <2>1, <2>2, <2>7
    <3> QED BY <2>4, <3>1
  <2>8. ASSUME NEW cell \in Nat, cell - Place(nest, 2) \in DOMAIN Cells(nest[2])
        PROVE  Writers(nest, cell) = {2}
    <3>1. cell \in 1..b
      BY <2>1, <2>2, <2>8
    <3> QED BY <2>4, <3>1
  <2>9. /\ Place(nest, 1) \in Nat /\ Place(nest, 1) >= 1 /\ Place(nest, 1) + a <= BufferSize(nest)
        /\ Place(nest, 2) \in Nat /\ Place(nest, 2) >= 1 /\ Place(nest, 2) + b <= BufferSize(nest)
    BY <2>1, <2>2
  <2>5. ASSUME NEW n \in 1..Len(nest)
        PROVE  /\ nest[n] \in Model /\ Place(nest, n) \in Nat /\ Place(nest, n) >= 1
               /\ Place(nest, n) + ThisSize(nest[n]) <= BufferSize(nest)
               /\ \A cell \in Nat : cell - Place(nest, n) \in DOMAIN Cells(nest[n]) =>
                    Writers(nest, cell) = {n}
    <3>1. CASE n = 1
      BY <2>1, <2>3, <2>7, <2>9, <3>1
    <3>2. CASE n = 2
      BY <2>1, <2>3, <2>8, <2>9, <3>2
    <3> QED BY <1>2, <3>1, <3>2
  <2>6. WrittenOnce(nest)
    BY <2>5 DEF WrittenOnce
  <2> QED BY <1>2, <2>1, <2>2, <2>4, <2>6
<1> QED BY <1>1, <1>2 DEF Flat

LEMMA FlattenedAt ==
  ASSUME NEW nest, Flat(nest)
  PROVE  /\ DOMAIN Flattened(nest) = 0..(BufferSize(nest) - 1)
         /\ Flattened(nest)[0] = Header(Len(nest))
         /\ \A n \in 1..Len(nest) : \A j \in 0..(ThisSize(nest[n]) - 1) :
              /\ Place(nest, n) + j \in DOMAIN Flattened(nest)
              /\ Flattened(nest)[Place(nest, n) + j] = Cells(nest[n])[j]
<1>1. /\ WrittenOnce(nest) /\ BufferSize(nest) \in Nat /\ BufferSize(nest) > 1
  BY AllWrittenOnce
<1>2. DOMAIN Flattened(nest) = 0..(BufferSize(nest) - 1)
  BY DEF Flattened
<1>3. Flattened(nest)[0] = Header(Len(nest))
  BY <1>1 DEF Flattened
<1>4. ASSUME NEW n \in 1..Len(nest), NEW j \in 0..(ThisSize(nest[n]) - 1)
      PROVE  /\ Place(nest, n) + j \in DOMAIN Flattened(nest)
             /\ Flattened(nest)[Place(nest, n) + j] = Cells(nest[n])[j]
  <2> DEFINE cell == Place(nest, n) + j
  <2>1. /\ nest[n] \in Model /\ Place(nest, n) \in Nat /\ Place(nest, n) >= 1
        /\ Place(nest, n) + ThisSize(nest[n]) <= BufferSize(nest)
    BY <1>1 DEF WrittenOnce
  <2>2. ThisSize(nest[n]) \in Nat /\ DOMAIN Cells(nest[n]) = 0..(ThisSize(nest[n]) - 1)
    BY <2>1, SizeOfModel, CellsOf
  <2>3. cell \in Nat /\ cell - Place(nest, n) = j /\ cell # 0 /\ cell \in 0..(BufferSize(nest) - 1)
    BY <1>1, <2>1, <2>2
  <2>4. Writers(nest, cell) = {n}
    BY <1>1, <2>2, <2>3 DEF WrittenOnce
  <2> HIDE DEF cell
  <2>5. Flattened(nest)[cell] =
          LET writers == Writers(nest, cell) IN
          IF cell = 0 THEN Header(Len(nest))
          ELSE IF writers = {} THEN Unwritten
          ELSE LET m == CHOOSE w \in writers : \A v \in writers : v <= w
               IN  Cells(nest[m])[cell - Place(nest, m)]
    BY <2>3 DEF Flattened
  <2>6. (CHOOSE w \in {n} : \A v \in {n} : v <= w) = n
    <3>1. \A v \in {n} : v <= n
      OBVIOUS
    <3> QED BY <3>1
  <2> QED BY <1>2, <2>3, <2>4, <2>5, <2>6 DEF cell
<1> QED BY <1>2, <1>3, <1>4

LEMMA ReadBack ==
  ASSUME NEW m \in Model, NEW buffer, NEW c \in Nat,
         \A j \in 0..(ThisSize(m) - 1) :
           c + j \in DOMAIN buffer /\ buffer[c + j] = Cells(m)[j]
  PROVE  /\ ReadKinds(buffer, c) = {m.kind}
         /\ Decoded(buffer, c, m.kind) = m
         /\ 1 + 2 * NCoefs(m.kind) = ThisSize(m)
<1>1. /\ m.kind \in {"Offset", "LM"} /\ m.coefs \in Seq(Coefficients)
      /\ Len(m.coefs) = NCoefs(m.kind) /\ ThisSize(m) = 1 + 2 * NCoefs(m.kind)
      /\ NCoefs(m.kind) = IF m.kind = "LM" THEN 2 ELSE 1
  BY SizeOfModel DEF Kinds, NCoefs
<1>2. ASSUME NEW j \in 1..NCoefs(m.kind)
      PROVE  ReadCoef(buffer, c + 2 * j - 1) = m.coefs[j]
  <2>1. CASE j = 1
    <3>1. /\ c + 2 * j - 1 = c + 1 /\ (c + 1) + 1 = c + 2
          /\ 1 \in 0..(ThisSize(m) - 1) /\ 2 \in 0..(ThisSize(m) - 1)
      BY <1>1, <2>1
    <3>2. /\ c + 1 \in DOMAIN buffer /\ buffer[c + 1] = Half(m.coefs[1], "low")
          /\ c + 2 \in DOMAIN buffer /\ buffer[c + 2] = Half(m.coefs[1], "high")
      BY <3>1, CellsOf
    <3> QED BY <2>1, <3>1, <3>2 DEF ReadCoef, Half
  <2>2. CASE j = 2
    <3>1. /\ c + 2 * j - 1 = c + 3 /\ (c + 3) + 1 = c + 4 /\ m.kind = "LM"
          /\ 3 \in 0..(ThisSize(m) - 1) /\ 4 \in 0..(ThisSize(m) - 1)
      BY <1>1, <2>2
    <3>2. /\ c + 3 \in DOMAIN buffer /\ buffer[c + 3] = Half(m.coefs[2], "low")
          /\ c + 4 \in DOMAIN buffer /\ buffer[c + 4] = Half(m.coefs[2], "high")
      BY <3>1, CellsOf
    <3> QED BY <2>2, <3>1, <3>2 DEF ReadCoef, Half
  <2> QED BY <1>1, <2>1, <2>2
<1>3. [j \in 1..NCoefs(m.kind) |-> ReadCoef(buffer, c + 2 * j - 1)] = m.coefs
  <2>1. m.coefs = [j \in 1..NCoefs(m.kind) |-> m.coefs[j]]
    BY <1>1
  <2> QED BY <1>2, <2>1
<1>4. Decoded(buffer, c, m.kind) = m
  BY <1>3 DEF Decoded, Model
<1>5. ReadKinds(buffer, c) = {m.kind}
  <2>1. 0 \in 0..(ThisSize(m) - 1) /\ c + 0 = c
    BY <1>1
  <2>2. c \in DOMAIN buffer /\ buffer[c] = Type(m.kind)
    BY <2>1, CellsOf
  <2> QED BY <2>2 DEF ReadKinds, Type
<1> QED BY <1>1, <1>4, <1>5

\* The inner models come first.
LEMMA PlaceAbove ==
  ASSUME NEW nest, Flat(nest)
  PROVE  /\ Len(nest) \in Nat /\ Len(nest) >= 1 /\ Place(nest, Len(nest)) = 1
         /\ \A n \in 2..Len(nest) : Place(nest, n - 1) = Place(nest, n) + ThisSize(nest[n])
<1>1. CASE Len(nest) = 1
  BY <1>1, PlaceSingle
<1>2. CASE Len(nest) = 2
  <2>1. Place(nest, 2) = 1 /\ Place(nest, 1) = 1 + ThisSize(nest[2])
    BY <1>2, PlaceDouble
  <2>2. \A n \in 2..Len(nest) : n = 2 /\ n - 1 = 1
    BY <1>2
  <2> QED BY <1>2, <2>1, <2>2
<1> QED BY <1>1, <1>2 DEF Flat

-----------------------------------------------------------------------------
(* Broadcasts taken in turn.                                               *)

Logged == Nat \cup {Flattened(nest) : nest \in Nests}

\* Two broadcasts for every clock rank 0 has come with.
Broadcasts ==
  /\ origin \in Seq(Nests) /\ log \in Seq(Logged) /\ Len(log) = 2 * Len(origin)
  /\ \A s \in 1..Len(origin) : /\ log[2 * s - 1] = BufferSize(origin[s])
                               /\ log[2 * s] = Flattened(origin[s])

\* Rank 0 has all of them behind it.
Source ==
  /\ pc[0] = "idle" /\ syncs[0] = Len(origin)
  /\ syncs[0] > 0 => built[0] = origin[syncs[0]]

\* How many broadcasts a rank has taken tells where it is; the models it has rebuilt
\* are the innermost ones.
Taker(r) ==
  LET s == syncs[r]
      nest == origin[s]
  IN  /\ pc[r] = "idle" => /\ taken[r] = 2 * s
                           /\ s > 0 => s <= Len(origin) /\ built[r] = nest
      /\ pc[r] = "size" => s > 0 /\ taken[r] = 2 * s - 2
      /\ pc[r] = "buffer" => /\ s > 0 /\ s <= Len(origin) /\ taken[r] = 2 * s - 1
                             /\ DOMAIN buf[r] = 0..(BufferSize(nest) - 1)
      /\ pc[r] = "rebuild" =>
           /\ s > 0 /\ s <= Len(origin) /\ taken[r] = 2 * s
           /\ buf[r] = Flattened(nest)
           /\ level[r] <= Len(nest)
           /\ built[r] = SubSeq(nest, Len(nest) - level[r] + 1, Len(nest))
           /\ level[r] < Len(nest) => at[r] = Place(nest, Len(nest) - level[r])

CopyTypes ==
  /\ syncs \in [Rank -> Nat] /\ taken \in [Rank -> Nat]
  /\ level \in [Rank -> Nat] /\ at \in [Rank -> Nat]
  /\ pc \in [Rank -> {"idle", "size", "buffer", "rebuild"}]
  /\ buf = [r \in Rank |-> buf[r]] /\ built = [r \in Rank |-> built[r]]

CopyInv == CopyTypes /\ Broadcasts /\ Source /\ \A r \in Rank \ {0} : Taker(r)

AllFlat == \A nest \in Nests : Flat(nest)

LEMMA CopyRanks == 0 \in Rank /\ Rank \subseteq Nat
BY nprocsAssumption DEF Rank

LEMMA PropagateInv ==
  ASSUME AllFlat, CopyInv, Propagate
  PROVE  CopyInv'
<1>1. PICK nest \in Nests :
        /\ origin' = Append(origin, nest)
        /\ log' = log \o <<BufferSize(nest), Flattened(nest)>>
        /\ built' = [built EXCEPT ![0] = nest]
  BY DEF Propagate
<1>2. /\ syncs' = [syncs EXCEPT ![0] = @ + 1] /\ UNCHANGED <<taken, pc, buf, level, at>>
      /\ 0 \in Rank
  BY CopyRanks DEF Propagate
<1>3. BufferSize(nest) \in Nat
  BY AllWrittenOnce DEF AllFlat
<1>4. /\ origin \in Seq(Nests) /\ Len(origin) \in Nat
      /\ origin' \in Seq(Nests) /\ Len(origin') = Len(origin) + 1
      /\ \A s \in 1..Len(origin) : origin'[s] = origin[s]
      /\ origin'[Len(origin) + 1] = nest
  BY <1>1 DEF CopyInv, Broadcasts
<1>5. /\ log' \in Seq(Logged) /\ Len(log') = Len(log) + 2 /\ Len(log) \in Nat
      /\ \A k \in 1..Len(log) : log'[k] = log[k]
      /\ log'[Len(log) + 1] = BufferSize(nest) /\ log'[Len(log) + 2] = Flattened(nest)
  <2>1. <<BufferSize(nest), Flattened(nest)>> \in Seq(Logged) /\ log \in Seq(Logged)
    BY <1>3 DEF Logged, CopyInv, Broadcasts
  <2> HIDE DEF Logged
  <2>2. log' \in Seq(Logged)
    BY <1>1, <2>1
  <2> QED BY <1>1, <2>1, <2>2
<1>6. Broadcasts'
  <2>1. Len(log') = 2 * Len(origin')
    BY <1>4, <1>5 DEF CopyInv, Broadcasts
  <2>2. ASSUME NEW s \in 1..Len(origin')
        PROVE  /\ log'[2 * s - 1] = BufferSize(origin'[s])
               /\ log'[2 * s] = Flattened(origin'[s])
    <3>1. CASE s \in 1..Len(origin)
      <4>1. 2 * s - 1 \in 1..Len(log) /\ 2 * s \in 1..Len(log)
        BY <1>4, <3>1 DEF CopyInv, Broadcasts
      <4> QED BY <1>4, <1>5, <3>1, <4>1 DEF CopyInv, Broadcasts
    <3>2. CASE s = Len(origin) + 1
      <4>1. 2 * s - 1 = Len(log) + 1 /\ 2 * s = Len(log) + 2
        BY <1>4, <3>2 DEF CopyInv, Broadcasts
      <4> QED BY <1>4, <1>5, <3>2, <4>1
    <3> QED BY <1>4, <3>1, <3>2
  <2> QED BY <1>4, <1>5, <2>1, <2>2 DEF Broadcasts, Logged
<1>7. Source'
  BY <1>1, <1>2, <1>4 DEF CopyInv, CopyTypes, Source
<1>8. ASSUME NEW r \in Rank \ {0} PROVE Taker(r)'
  <2>1. /\ syncs'[r] = syncs[r] /\ built'[r] = built[r] /\ syncs[r] \in Nat
        /\ syncs[r] > 0 /\ syncs[r] <= Len(origin) => origin'[syncs[r]] = origin[syncs[r]]
    BY <1>1, <1>2, <1>4 DEF CopyInv, CopyTypes
  <2> QED BY <1>2, <1>4, <2>1 DEF CopyInv, Taker
<1>9. CopyTypes'
  <2>1. syncs' \in [Rank -> Nat]
    BY <1>2 DEF CopyInv, CopyTypes
  <2>2. built' = [r \in Rank |-> built'[r]]
    BY <1>1 DEF CopyInv, CopyTypes
  <2> QED BY <1>2, <2>1, <2>2 DEF CopyInv, CopyTypes
<1> QED BY <1>6, <1>7, <1>8, <1>9 DEF CopyInv

\* The step of one rank is nothing to the others.
LEMMA OthersStay ==
  ASSUME CopyInv, NEW r \in Rank \ {0}, UNCHANGED <<origin, log>>, CopyTypes', Taker(r)',
         \A q \in Rank \ {r} :
           /\ syncs'[q] = syncs[q] /\ taken'[q] = taken[q] /\ pc'[q] = pc[q]
           /\ buf'[q] = buf[q] /\ level'[q] = level[q] /\ at'[q] = at[q]
           /\ built'[q] = built[q]
  PROVE  CopyInv'
<1>1. Broadcasts'
  BY DEF CopyInv, Broadcasts
<1>2. Source'
  <2>1. 0 \in Rank \ {r}
    BY CopyRanks
  <2> QED BY <2>1 DEF CopyInv, Source
<1>3. ASSUME NEW q \in Rank \ {0} PROVE Taker(q)'
  <2>1. CASE q # r
    <3>1. q \in Rank \ {r} /\ Taker(q)
      BY <2>1 DEF CopyInv
    <3> QED BY <3>1 DEF Taker
  <2> QED BY <2>1
<1> QED BY <1>1, <1>2, <1>3 DEF CopyInv

LEMMA EnterInv ==
  ASSUME CopyInv, NEW r \in Rank, Enter(r)
  PROVE  CopyInv'
<1>1. /\ r \in Rank \ {0} /\ Taker(r) /\ pc[r] = "idle" /\ syncs[r] \in Nat
      /\ syncs' = [syncs EXCEPT ![r] = @ + 1] /\ pc' = [pc EXCEPT ![r] = "size"]
      /\ UNCHANGED <<origin, log, taken, buf, level, at, built>>
  BY DEF CopyInv, CopyTypes, Enter
<1>2. syncs'[r] = syncs[r] + 1 /\ pc'[r] = "size"
  BY <1>1 DEF CopyInv, CopyTypes
<1>3. CopyTypes'
  BY <1>1 DEF CopyInv, CopyTypes
<1>4. Taker(r)'
  BY <1>1, <1>2 DEF Taker
<1> QED BY <1>1, <1>3, <1>4, OthersStay DEF CopyInv, CopyTypes

LEMMA TakeSizeInv ==
  ASSUME CopyInv, NEW r \in Rank, TakeSize(r)
  PROVE  CopyInv'
<1>1. /\ r \in Rank \ {0} /\ pc[r] = "size" /\ taken[r] < Len(log) /\ syncs[r] \in Nat
      /\ taken[r] \in Nat
  BY DEF CopyInv, CopyTypes, Source, TakeSize
<1>2. /\ taken' = [taken EXCEPT ![r] = @ + 1] /\ pc' = [pc EXCEPT ![r] = "buffer"]
      /\ buf' = [buf EXCEPT ![r] = [cell \in 0..(log[taken'[r]] - 1) |-> Unwritten]]
      /\ UNCHANGED <<syncs, origin, log, level, at, built>>
  BY DEF TakeSize
<1>3. taken'[r] = taken[r] + 1 /\ pc'[r] = "buffer" /\ DOMAIN buf'[r] = 0..(log[taken'[r]] - 1)
  BY <1>1, <1>2 DEF CopyInv, CopyTypes
<1>4. syncs[r] > 0 /\ taken[r] = 2 * syncs[r] - 2
  BY <1>1 DEF CopyInv, Taker
<1>5. Len(log) = 2 * Len(origin) /\ Len(origin) \in Nat
  BY DEF CopyInv, Broadcasts
<1>6. syncs[r] \in 1..Len(origin)
  BY <1>1, <1>4, <1>5
<1>7. log[taken'[r]] = BufferSize(origin[syncs[r]])
  BY <1>1, <1>3, <1>4, <1>6 DEF CopyInv, Broadcasts
<1>8. CopyTypes'
  <2>1. taken' \in [Rank -> Nat]
    BY <1>1, <1>2 DEF CopyInv, CopyTypes
  <2>2. buf' = [q \in Rank |-> buf'[q]]
    BY <1>2 DEF CopyInv, CopyTypes
  <2> QED BY <1>2, <2>1, <2>2 DEF CopyInv, CopyTypes
<1>9. Taker(r)'
  <2>1. syncs'[r] = syncs[r] /\ origin' = origin /\ taken'[r] = 2 * syncs[r] - 1
    BY <1>1, <1>2, <1>3, <1>4
  <2> QED BY <1>3, <1>4, <1>6, <1>7, <2>1 DEF Taker
<1> QED BY <1>1, <1>2, <1>8, <1>9, OthersStay DEF CopyInv, CopyTypes

LEMMA TakeBufferInv ==
  ASSUME AllFlat, CopyInv, NEW r \in Rank, TakeBuffer(r)
  PROVE  CopyInv'
<1>1. /\ r \in Rank \ {0} /\ pc[r] = "buffer" /\ syncs[r] \in Nat /\ taken[r] \in Nat
  BY DEF CopyInv, CopyTypes, Source, TakeBuffer
<1>2. /\ taken' = [taken EXCEPT ![r] = @ + 1] /\ pc' = [pc EXCEPT ![r] = "rebuild"]
      /\ buf' = [buf EXCEPT ![r] = [cell \in DOMAIN @ |-> log[taken'[r]][cell]]]
      /\ level' = [level EXCEPT ![r] = 0] /\ at' = [at EXCEPT ![r] = 1]
      /\ built' = [built EXCEPT ![r] = <<>>]
      /\ UNCHANGED <<syncs, origin, log>>
  BY DEF TakeBuffer
<1>3. /\ taken'[r] = taken[r] + 1 /\ pc'[r] = "rebuild" /\ level'[r] = 0 /\ at'[r] = 1
      /\ built'[r] = <<>>
      /\ buf'[r] = [cell \in DOMAIN buf[r] |-> log[taken'[r]][cell]]
  BY <1>1, <1>2 DEF CopyInv, CopyTypes
<1> DEFINE nest == origin[syncs[r]]
<1>4. /\ syncs[r] > 0 /\ syncs[r] <= Len(origin) /\ taken[r] = 2 * syncs[r] - 1
      /\ DOMAIN buf[r] = 0..(BufferSize(nest) - 1)
  BY <1>1 DEF CopyInv, Taker
<1>5. syncs[r] \in 1..Len(origin) /\ nest \in Nests /\ taken'[r] = 2 * syncs[r]
  BY <1>1, <1>3, <1>4 DEF CopyInv, Broadcasts
<1>6. log[taken'[r]] = Flattened(nest)
  BY <1>5 DEF CopyInv, Broadcasts
<1>7. Flat(nest)
  BY <1>5 DEF AllFlat
<1>8. buf'[r] = Flattened(nest)
  <2>1. DOMAIN Flattened(nest) = DOMAIN buf[r]
    BY <1>4, <1>7, FlattenedAt
  <2>2. Flattened(nest) = [cell \in DOMAIN Flattened(nest) |-> Flattened(nest)[cell]]
    BY DEF Flattened
  <2> QED BY <1>3, <1>6, <2>1, <2>2
<1>9. CopyTypes'
  <2>1. taken' \in [Rank -> Nat] /\ level' \in [Rank -> Nat] /\ at' \in [Rank -> Nat]
    BY <1>1, <1>2 DEF CopyInv, CopyTypes
  <2>2. buf' = [q \in Rank |-> buf'[q]] /\ built' = [q \in Rank |-> built'[q]]
    BY <1>2 DEF CopyInv, CopyTypes
  <2> QED BY <1>2, <2>1, <2>2 DEF CopyInv, CopyTypes
<1>10. Taker(r)'
  <2>1. syncs'[r] = syncs[r] /\ origin'[syncs[r]] = nest /\ Len(origin') = Len(origin)
    BY <1>2
  <2>2. /\ Len(nest) \in Nat /\ Len(nest) >= 1 /\ Place(nest, Len(nest)) = 1
        /\ Len(nest) - 0 = Len(nest) /\ nest \in Seq(Model)
    BY <1>7, PlaceAbove DEF Flat
  <2> HIDE DEF nest
  <2>3. SubSeq(nest, Len(nest) + 1, Len(nest)) = <<>>
    BY <2>2
  <2>4. SubSeq(nest, Len(nest) - 0 + 1, Len(nest)) = <<>>
    BY <2>2, <2>3
  <2> QED BY <1>3, <1>4, <1>5, <1>8, <2>1, <2>2, <2>4 DEF Taker
<1> QED BY <1>1, <1>2, <1>9, <1>10, OthersStay DEF CopyInv, CopyTypes

LEMMA RebuildInv ==
  ASSUME AllFlat, CopyInv, NEW r \in Rank, Rebuild(r)
  PROVE  CopyInv'
<1>1. /\ r \in Rank \ {0} /\ pc[r] = "rebuild" /\ syncs[r] \in Nat /\ level[r] \in Nat
      /\ level[r] < buf[r][0].value
  BY DEF CopyInv, CopyTypes, Source, Rebuild
<1> DEFINE nest == origin[syncs[r]]
           n == Len(nest) - level[r]
<1>2. /\ syncs[r] > 0 /\ syncs[r] <= Len(origin) /\ taken[r] = 2 * syncs[r]
      /\ buf[r] = Flattened(nest) /\ level[r] <= Len(nest)
      /\ built[r] = SubSeq(nest, Len(nest) - level[r] + 1, Len(nest))
      /\ level[r] < Len(nest) => at[r] = Place(nest, n)
  BY <1>1 DEF CopyInv, Taker
<1>3. nest \in Nests /\ Flat(nest)
  <2>1. syncs[r] \in 1..Len(origin)
    BY <1>1, <1>2
  <2> QED BY <2>1 DEF CopyInv, Broadcasts, AllFlat
<1>4. /\ nest \in Seq(Model) /\ Len(nest) \in Nat
      /\ Flattened(nest)[0].value = Len(nest)
  <2>1. nest \in Seq(Model)
    BY <1>3 DEF Flat
  <2>2. Flattened(nest)[0] = Header(Len(nest))
    BY <1>3, FlattenedAt
  <2> QED BY <2>1, <2>2 DEF Header
<1>5. level[r] < Len(nest) /\ n \in 1..Len(nest) /\ at[r] = Place(nest, n)
  BY <1>1, <1>2, <1>4
<1>6. nest[n] \in Model /\ Place(nest, n) \in Nat
  BY <1>3, <1>5, AllWrittenOnce DEF WrittenOnce
<1>7. /\ ReadKinds(buf[r], at[r]) = {nest[n].kind}
      /\ Decoded(buf[r], at[r], nest[n].kind) = nest[n]
      /\ 1 + 2 * NCoefs(nest[n].kind) = ThisSize(nest[n])
      /\ nest[n].kind # "invalid"
  <2>1. \A j \in 0..(ThisSize(nest[n]) - 1) :
          at[r] + j \in DOMAIN buf[r] /\ buf[r][at[r] + j] = Cells(nest[n])[j]
    BY <1>2, <1>3, <1>5, FlattenedAt
  <2>2. nest[n].kind # "invalid" /\ at[r] \in Nat
    BY <1>5, <1>6 DEF Model, Kinds
  <2>3. ASSUME NEW m \in Model, NEW buffer, NEW c \in Nat,
               m = nest[n], buffer = buf[r], c = at[r]
        PROVE  /\ ReadKinds(buffer, c) = {m.kind}
               /\ Decoded(buffer, c, m.kind) = m
               /\ 1 + 2 * NCoefs(m.kind) = ThisSize(m)
    <3>1. \A j \in 0..(ThisSize(m) - 1) :
            c + j \in DOMAIN buffer /\ buffer[c + j] = Cells(m)[j]
      BY <2>1, <2>3
    <3> QED BY <3>1, ReadBack
  <2> HIDE DEF nest, n
  <2> QED BY <1>6, <2>2, <2>3
<1>8. /\ level' = [level EXCEPT ![r] = @ + 1]
      /\ at' = [at EXCEPT ![r] = @ + 1 + 2 * NCoefs(nest[n].kind)]
      /\ built' = [built EXCEPT ![r] = <<nest[n]>> \o @]
      /\ UNCHANGED <<syncs, origin, log, taken, pc, buf>>
  BY <1>7 DEF Rebuild
<1>9. /\ level'[r] = level[r] + 1
      /\ at'[r] = at[r] + ThisSize(nest[n])
      /\ built'[r] = <<nest[n]>> \o built[r]
  <2>1. NCoefs(nest[n].kind) \in Nat
    BY DEF NCoefs
  <2>2. at[r] \in Nat
    BY <1>5, <1>6
  <2>3. at'[r] = at[r] + 1 + 2 * NCoefs(nest[n].kind)
    BY <1>1, <1>8 DEF CopyInv, CopyTypes
  <2>4. at'[r] = at[r] + ThisSize(nest[n])
    BY <1>7, <2>1, <2>2, <2>3
  <2> QED BY <1>1, <1>8, <2>4 DEF CopyInv, CopyTypes
<1>10. CopyTypes'
  <2>1. level' \in [Rank -> Nat]
    BY <1>1, <1>8 DEF CopyInv, CopyTypes
  <2>2. at' \in [Rank -> Nat]
    <3>1. at[r] + 1 + 2 * NCoefs(nest[n].kind) \in Nat
      BY <1>5, <1>6 DEF NCoefs
    <3> QED BY <1>8, <3>1 DEF CopyInv, CopyTypes
  <2>3. built' = [q \in Rank |-> built'[q]]
    BY <1>8 DEF CopyInv, CopyTypes
  <2> QED BY <1>8, <2>1, <2>2, <2>3 DEF CopyInv, CopyTypes
<1>11. Taker(r)'
  <2>1. /\ syncs'[r] = syncs[r] /\ origin' = origin /\ taken'[r] = taken[r]
        /\ pc'[r] = "rebuild" /\ buf'[r] = buf[r]
    BY <1>1, <1>8
  <2>2. level'[r] <= Len(nest) /\ Len(nest) - level'[r] + 1 = n /\ Len(nest) - level'[r] = n - 1
    BY <1>1, <1>4, <1>5, <1>9
  <2>3. built'[r] = SubSeq(nest, n, Len(nest))
    <3>1. built[r] = SubSeq(nest, n + 1, Len(nest))
      BY <1>1, <1>2, <1>4
    <3>2. SubSeq(nest, n, Len(nest)) = <<nest[n]>> \o SubSeq(nest, n + 1, Len(nest))
      <4> HIDE DEF nest, n
      <4> QED BY <1>4, <1>5, SubSeqRecursiveFirst
    <3> QED BY <1>9, <3>1, <3>2
  <2>4. level'[r] < Len(nest) => at'[r] = Place(nest, n - 1)
    <3>1. level'[r] < Len(nest) => n \in 2..Len(nest)
      BY <1>1, <1>4, <1>5, <1>9
    <3> QED BY <1>3, <1>5, <1>9, <3>1, PlaceAbove
  <2> HIDE DEF n
  <2> QED BY <1>2, <2>1, <2>2, <2>3, <2>4 DEF Taker
<1> QED BY <1>1, <1>8, <1>10, <1>11, OthersStay DEF CopyInv, CopyTypes

LEMMA ReturnInv ==
  ASSUME AllFlat, CopyInv, NEW r \in Rank, Return(r)
  PROVE  CopyInv'
<1>1. /\ r \in Rank \ {0} /\ pc[r] = "rebuild" /\ syncs[r] \in Nat
      /\ level[r] = buf[r][0].value
      /\ pc' = [pc EXCEPT ![r] = "idle"]
      /\ UNCHANGED <<syncs, origin, log, taken, buf, level, at, built>>
  BY DEF CopyInv, CopyTypes, Source, Return
<1> DEFINE nest == origin[syncs[r]]
<1>2. /\ syncs[r] > 0 /\ syncs[r] <= Len(origin) /\ taken[r] = 2 * syncs[r]
      /\ buf[r] = Flattened(nest)
      /\ built[r] = SubSeq(nest, Len(nest) - level[r] + 1, Len(nest))
  BY <1>1 DEF CopyInv, Taker
<1>3. Flat(nest)
  <2>1. syncs[r] \in 1..Len(origin)
    BY <1>1, <1>2
  <2> QED BY <2>1 DEF CopyInv, Broadcasts, AllFlat
<1>4. level[r] = Len(nest) /\ Len(nest) \in Nat /\ nest \in Seq(Model)
  <2>1. nest \in Seq(Model)
    BY <1>3 DEF Flat
  <2>2. Flattened(nest)[0] = Header(Len(nest))
    BY <1>3, FlattenedAt
  <2> QED BY <1>1, <1>2, <2>1, <2>2 DEF Header
<1>5. built[r] = nest
  <2>1. Len(nest) - level[r] + 1 = 1
    BY <1>4
  <2> HIDE DEF nest
  <2> QED BY <1>2, <1>4, <2>1, SubSeqFull
<1>6. CopyTypes'
  BY <1>1 DEF CopyInv, CopyTypes
<1>7. Taker(r)'
  <2>1. pc'[r] = "idle"
    BY <1>1 DEF CopyInv, CopyTypes
  <2> QED BY <1>1, <1>2, <1>5, <2>1 DEF Taker
<1> QED BY <1>1, <1>6, <1>7, OthersStay DEF CopyInv, CopyTypes

LEMMA CopyInductive ==
  ASSUME AllFlat
  PROVE  CopySpec => []CopyInv
<1>1. CopyInit => CopyInv
  <2> SUFFICES ASSUME CopyInit PROVE CopyInv
    OBVIOUS
  <2>1. CopyTypes
    BY DEF CopyInit, CopyTypes
  <2>2. Broadcasts
    BY DEF CopyInit, Broadcasts
  <2>3. Source
    BY CopyRanks DEF CopyInit, Source
  <2>4. \A r \in Rank \ {0} : Taker(r)
    BY DEF CopyInit, Taker
  <2> QED BY <2>1, <2>2, <2>3, <2>4 DEF CopyInv
<1>2. CopyInv /\ [CopyNext]_copyVars => CopyInv'
  <2> SUFFICES ASSUME CopyInv, [CopyNext]_copyVars PROVE CopyInv'
    OBVIOUS
  <2>1. CASE UNCHANGED copyVars
    BY <2>1 DEF copyVars, CopyInv, CopyTypes, Broadcasts, Source, Taker
  <2>2. CASE Propagate
    BY <2>2, PropagateInv
  <2>3. ASSUME NEW r \in Rank, Step(r) PROVE CopyInv'
    BY <2>3, EnterInv, TakeSizeInv, TakeBufferInv, RebuildInv, ReturnInv DEF Step
  <2> QED BY <2>1, <2>2, <2>3 DEF CopyNext, Stop
<1> QED BY <1>1, <1>2, PTL DEF CopySpec

\* Whatever the coefficients: all that rank 0 writes of a clock is inside the buffer, and
\* nothing is written over.  AllFlat is what NestFits promises of every clock that the
\* levels hand to a propagation (PropagatedClocksFit in HierarchyProofs).
THEOREM ClockFitsBuffer ==
  ASSUME AllFlat
  PROVE  CopySpec => []BufferFits
<1>1. CopyInv => BufferFits
  <2> SUFFICES ASSUME CopyInv, NEW s \in 1..Len(origin), NEW nest, nest = origin[s]
               PROVE  /\ \A n \in 1..Len(nest) :
                           /\ Place(nest, n) >= 1
                           /\ Place(nest, n) + ThisSize(nest[n]) <= BufferSize(nest)
                      /\ \A cell \in 1..(BufferSize(nest) - 1) : \E n \in 1..Len(nest) :
                           Writers(nest, cell) = {n}
    BY DEF BufferFits
  <2>1. Flat(nest)
    BY DEF CopyInv, Broadcasts, AllFlat
  <2> QED BY <2>1, AllWrittenOnce DEF WrittenOnce
<1> QED BY <1>1, CopyInductive, PTL

\* On any number of ranks, however far rank 0 is ahead: every rank is returned the clock
\* rank 0 had in the same synchronisation.
THEOREM ClocksAreCopies ==
  ASSUME AllFlat
  PROVE  CopySpec => []SameAsRoot
<1>1. CopyInv => SameAsRoot
  <2> SUFFICES ASSUME CopyInv, NEW r \in Rank, pc[r] = "idle", syncs[r] > 0
               PROVE  built[r] = origin[syncs[r]]
    BY DEF SameAsRoot
  <2>1. CASE r = 0
    BY <2>1 DEF CopyInv, Source
  <2>2. CASE r # 0
    BY <2>2 DEF CopyInv, Taker
  <2> QED BY <2>1, <2>2
<1> QED BY <1>1, CopyInductive, PTL
=============================================================================
