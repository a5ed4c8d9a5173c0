---------------------------- MODULE MC_Utilities ----------------------------
(***************************************************************************)
(* Small instances of the thread pool, the eager iterator, the shared      *)
(* snapshot of a file, the creation of directories, configuration files,   *)
(* and of object lookups that wait for each other.  They have nothing in   *)
(* common, so a behaviour is one of one of them while the others are idle, *)
(* in a state in which all is done.                                        *)
(***************************************************************************)
EXTENDS Naturals, Sequences, TLC

CONSTANTS t1, t2, Absent,
          A, B, C, x, y, z, Midx   \* of the object database

VARIABLES given, fed, input, results, feeder, worker, main, reduced,
          next_chunk, store, yielded,
          iter, pos, out, thread, channel, owner, chunk, got,
          file, state, writer, reader, floor, history,
          fs, process, removals, setup,
          config, status, edits, disk,
          odb, objects, index, slots, write, stable, th

----------------------------------------------------------------------------
(* Calls of the thread pool *)

Pool(items, threads) ==
  [how |-> "in_parallel", items |-> items, threads |-> threads, fails |-> {},
   panics |-> {}, in_order |-> FALSE, drops |-> FALSE]

Calls ==
  {Pool(5, 2), Pool(0, 2),
   [Pool(8, 2) EXCEPT !.fails = {1}],
   [Pool(4, 2) EXCEPT !.panics = {1}],
   [Pool(4, 2) EXCEPT !.panics = {2, 3}],
   [Pool(3, 2) EXCEPT !.how = "with_finalize"],
   [Pool(3, 2) EXCEPT !.how = "with_finalize", !.fails = {1}],
   [Pool(5, 2) EXCEPT !.in_order = TRUE, !.drops = TRUE],
   [Pool(5, 2) EXCEPT !.in_order = TRUE, !.fails = {2}],
   [Pool(3, 3) EXCEPT !.in_order = TRUE]}

P == INSTANCE Parallel WITH Scenario <- Calls

IdlePool ==
  /\ given = Pool(0, 0) /\ fed = 0 /\ input = <<>> /\ results = <<>>
  /\ feeder = "done" /\ worker = <<>>
  /\ main = [pc |-> "returned", res |-> "Ok"] /\ reduced = <<>>
  /\ next_chunk = 1 /\ store = {} /\ yielded = <<>>

----------------------------------------------------------------------------
(* Iterators: some with an incomplete last chunk, some handing over directly *)

Eager(items, chunk_size, in_flight, drops) ==
  [items |-> items, chunk_size |-> chunk_size, chunks_in_flight |-> in_flight,
   drops |-> drops]

E == INSTANCE EagerIter WITH
       Iters <- {Eager(5, 2, 1, FALSE), Eager(6, 2, 2, TRUE), Eager(3, 1, 0, TRUE),
                 Eager(3, 2, 0, FALSE), Eager(0, 1, 1, FALSE)}

IdleIter ==
  /\ iter = Eager(0, 1, 0, FALSE) /\ pos = 0 /\ out = <<>> /\ thread = "done"
  /\ channel = <<>> /\ owner = "end" /\ chunk = <<>> /\ got = <<>>

----------------------------------------------------------------------------
(* Files that are replaced, removed and created again while two threads read.
   Modification times are too coarse in some. *)

File(states, precise, calls1, calls2) ==
  [states |-> states, precise |-> precise, calls |-> t1 :> calls1 @@ t2 :> calls2]

read    == "recent_snapshot"
refresh == "force_refresh"

Files ==
  {File(<<1, 2, 3>>, TRUE, <<read, read>>, <<read>>),
   File(<<Absent, 1, Absent, 2, Absent>>, TRUE, <<read>>, <<read, read>>),
   File(<<1, 1, 2>>, FALSE, <<read, refresh, read>>, <<read>>),
   File(<<1, Absent, 1, 2>>, FALSE, <<refresh, read>>, <<refresh>>)}

S == INSTANCE FileSnapshot WITH Reader <- {t1, t2}, Histories <- Files

IdleFile ==
  /\ history = File(<<1>>, TRUE, <<>>, <<>>) /\ file = 1 /\ state = Absent
  /\ writer = Absent /\ floor = 0 /\ reader = [t \in {t1, t2} |-> S!Fresh(0)]

----------------------------------------------------------------------------
(* Directories that are created while others create, remove or are in the way *)

NoDirs   == <<"none", "none", "none">>
TwoDirs  == <<"dir", "dir", "none">>
AllDirs  == <<"dir", "dir", "dir">>
FileIn   == <<"dir", "file", "none">>

Create(dir, entire, failure) ==
  [does |-> "create", dir |-> dir, boundary |-> 0, on_interrupt |-> 3,
   to_create_entire_directory |-> entire, on_create_directory_failure |-> failure]

Remove(how, dir, boundary) ==
  [does |-> how, dir |-> dir, boundary |-> boundary, on_interrupt |-> 0,
   to_create_entire_directory |-> 0, on_create_directory_failure |-> 0]

Tasks(dirs, task1, task2, disturbed) ==
  [fs |-> dirs, tasks |-> t1 :> task1 @@ t2 :> task2, disturbed |-> disturbed]

D == INSTANCE Directories WITH
       Depth <- 3, Process <- {t1, t2}, MaxCount <- 3,
       Setups <- {Tasks(NoDirs, Create(3, 2, 3), Create(2, 2, 2), TRUE),
                  Tasks(TwoDirs, Create(3, 2, 3), Remove("upward_new", 3, 0), FALSE),
                  Tasks(AllDirs, Create(3, 3, 3), Remove("upward_new", 3, 1), TRUE),
                  Tasks(AllDirs, Create(3, 2, 2), Remove("depth_first_new", 1, 0), TRUE),
                  Tasks(FileIn, Create(3, 2, 2), Create(2, 2, 2), TRUE),
                  Tasks(FileIn, Create(2, 2, 2), Remove("depth_first_new", 1, 0), FALSE)}

IdleDirs ==
  /\ setup = Tasks(NoDirs, Remove("upward_new", 1, 1), Remove("upward_new", 1, 1), FALSE)
  /\ fs = NoDirs /\ removals = 0
  /\ process = [p \in {t1, t2} |-> [D!StartOf(setup.tasks[p]) EXCEPT !.pc = "Ok"]]

----------------------------------------------------------------------------
(* Configuration files that include each other, or themselves.  A section has a value
   or paths to include. *)

Core == <<"core", "">>
CoreB == <<"core", "b">>
Value(header, value) == [header |-> header, value |-> value, include |-> <<>>]
Include(paths) == [header |-> <<"include", "">>, value |-> Absent, include |-> paths]
Source(path, source) == [path |-> path, source |-> source]

ConfigFiles ==
  "sys" :> <<Value(Core, "s"), Include(<<"x">>), Value(Core, "t")>> @@
  "usr" :> <<Include(<<"x">>), Value(CoreB, "u")>> @@
  "x" :> <<Value(Core, "x1"), Include(<<"y">>), Value(CoreB, "x2")>> @@
  "y" :> <<Value(Core, "y")>> @@
  "loop" :> <<Value(Core, "l"), Include(<<"loop">>), Value(Core, Absent)>>

Disk(files, sources) ==
  [files |-> files, sources |-> sources, extra |-> {}, headers |-> {Core, CoreB},
   max_depth |-> 3, err_on_max_depth |-> FALSE, err_on_non_existing_paths |-> FALSE,
   ignore_io_errors |-> FALSE]

ConfigDisks ==
  {Disk(ConfigFiles, <<Source("sys", "system"), Source("usr", "local"), Source("sys", "local")>>),
   Disk(ConfigFiles, <<Source("gone", "system"), Source("loop", "local")>>),
   Disk("two" :> <<Include(<<"x", "y">>), Value(Core, "t")>> @@ ConfigFiles,
        <<Source("two", "local")>>),
   [Disk(ConfigFiles, <<Source("loop", "local")>>) EXCEPT !.err_on_max_depth = TRUE],
   [Disk(ConfigFiles, <<Source("y", "system"), Source("gone", "local")>>)
      EXCEPT !.err_on_non_existing_paths = TRUE],
   [Disk(ConfigFiles, <<Source("y", "system"), Source("usr", "local")>>) EXCEPT !.extra = {"y"}]}

Config == INSTANCE ConfigFile WITH Disks <- ConfigDisks, MaxEdits <- 3, None <- Absent

IdleConfig ==
  /\ disk = Disk(ConfigFiles, <<>>) /\ config = Config!NewFile /\ status = "error" /\ edits = <<>>

----------------------------------------------------------------------------
(* Lookups that wait for an index another thread loads *)

Odb(Scenario) == INSTANCE MC_OdbStore WITH
       given <- odb, disk <- objects, Thread <- {t1, t2}, Pack <- {A, B, C},
       BySize <- <<Midx, C, A, B>>, Holds <- A :> {x} @@ B :> {y} @@ C :> {x, y},
       None <- Absent

(* Nothing is asked. *)
QuietOdb == Odb({})!Given(<<Odb({})!Packs({A})>>, <<>>, <<>>, {})
Lookups  == Odb({})!Waiting \union {QuietOdb}

IdleOdb == Odb({QuietOdb})!Init

----------------------------------------------------------------------------

Init ==
  \/ P!Init   /\ IdleIter /\ IdleFile /\ IdleDirs /\ IdleConfig  /\ IdleOdb
  \/ IdlePool /\ E!Init   /\ IdleFile /\ IdleDirs /\ IdleConfig  /\ IdleOdb
  \/ IdlePool /\ IdleIter /\ S!Init   /\ IdleDirs /\ IdleConfig  /\ IdleOdb
  \/ IdlePool /\ IdleIter /\ IdleFile /\ D!Init   /\ IdleConfig  /\ IdleOdb
  \/ IdlePool /\ IdleIter /\ IdleFile /\ IdleDirs /\ Config!Init /\ IdleOdb
  \/ IdlePool /\ IdleIter /\ IdleFile /\ IdleDirs /\ IdleConfig  /\ Odb(Lookups)!Init

pool_vars == <<given, fed, input, results, feeder, worker, main, reduced,
               next_chunk, store, yielded>>
iter_vars == <<iter, pos, out, thread, channel, owner, chunk, got>>
file_vars == <<file, state, writer, reader, floor, history>>
dirs_vars == <<fs, process, removals, setup>>
config_vars == <<config, status, edits, disk>>
odb_vars  == <<odb, objects, index, slots, write, stable, th>>
vars      == <<pool_vars, iter_vars, file_vars, dirs_vars, config_vars, odb_vars>>

Next ==
  \/ P!Next /\ UNCHANGED <<iter_vars, file_vars, dirs_vars, config_vars, odb_vars>>
  \/ E!Next /\ UNCHANGED <<pool_vars, file_vars, dirs_vars, config_vars, odb_vars>>
  \/ S!Next /\ UNCHANGED <<pool_vars, iter_vars, dirs_vars, config_vars, odb_vars>>
  \/ D!Next /\ UNCHANGED <<pool_vars, iter_vars, file_vars, config_vars, odb_vars>>
  \/ Config!Next /\ UNCHANGED <<pool_vars, iter_vars, file_vars, dirs_vars, odb_vars>>
  \/ Odb(Lookups)!Next /\ UNCHANGED <<pool_vars, iter_vars, file_vars, dirs_vars, config_vars>>

(* Threads that run keep running. *)
Fairness ==
  /\ P!Fairness /\ E!Fairness /\ D!Fairness
  /\ \A t \in {t1, t2} : WF_odb_vars(Odb(Lookups)!Step(t))

Spec == Init /\ [][Next]_vars /\ Fairness

----------------------------------------------------------------------------
(* Properties: those of the modules *)

(* The type invariants of all. *)
TypesOK == P!TypeOK /\ E!TypeOK /\ S!TypeOK /\ D!TypeOK /\ Config!TypeOK

(* in_parallel, EagerIter: what goes in comes out, once, and an end that looks
   like success is one. *)
NothingIsLost == P!EveryItemIsSomewhere /\ P!SuccessIsComplete /\ E!SameAsIterator

(* InOrderIter: the order is that of the input. *)
InInputOrder == P!InInputOrder

(* recent_snapshot: the result was on disk during the call; a forced refresh is
   seen by all later calls; a file that was there all the time is found. *)
SnapshotIsRecent == S!SnapshotIsRecent /\ S!RefreshIsSeen /\ S!AbsentOnlyIfRemoved

(* create::all: success means that there was a directory; creation is not given up
   for the lack of a parent before its retries are used up, nor for something in the
   way unless that is a file or, once, a directory removed before it is looked at. *)
CreationWins == D!SuccessIsADirectory /\ D!CreationWins

(* gix_config::File: lookups by header see the sections in the order of the file. *)
LookupsFollowTheFile == Config!LookupsFollowTheFile

(* resolve_includes: what is included follows the section that includes it. *)
IncludesInPlace == Config!IncludesInPlace

(* in_parallel and Stepwise return with all threads joined, the thread of an
   EagerIter ends on its own, creation and removal of directories end, and
   object lookups return, whoever waits for an index that another thread loads
   or for the mutexes of the store. *)
AllTerminate ==
  /\ P!Terminates /\ E!ThreadEnds /\ D!Terminates
  /\ Odb(Lookups)!Terminates
=============================================================================
