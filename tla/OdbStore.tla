------------------------------ MODULE OdbStore ------------------------------
(***************************************************************************)
(* The dynamic object store of gix-odb: a slot map of pack indices that    *)
(* the threads of one process share and load lazily, while other processes *)
(* add, repack and remove packs.                                           *)
(*                                                                         *)
(* A thread looks objects up in its own snapshot of the loaded indices.    *)
(* If that fails it asks the store for more: first to load another known   *)
(* index, and when there is none to compare the slot map with the disk.    *)
(* Slots are written under their own mutex, and read without it.           *)
(***************************************************************************)
EXTENDS Naturals, Sequences, FiniteSets

CONSTANTS Thread,    \* threads, each with a handle of its own
          Pack,      \* the names of packs, and of their indices
          Midx,      \* the path of the multi-pack index
          BySize,    \* all paths, the biggest file first
          Holds,     \* Holds[p]: the objects in pack p
          None,      \* no file, no thread, no pack
          Scenario   \* what happens on disk, and what the threads ask for

VARIABLES disk,      \* which of the states given.disks the disk is in
          index,     \* every SlotMapIndex there was, newest last
          slots,     \* the slots: files, generation, and who holds the mutex
          write,     \* who holds the mutex of the store
          stable,    \* the threads whose handles need stable pack ids
          th,        \* the state of each thread
          given      \* the scenario, which never changes

vars == <<disk, index, slots, write, stable, th, given>>

Path == Pack \union {Midx}

(* OnDiskFileState.  The value of a loaded pack is the pack it was read from. *)
FileState == {"Unloaded", "Loaded", "Garbage", "Missing"}

OdbStoreAssumption ==
  /\ \A g \in Scenario : g.slots \in Nat \ {0}
  /\ Midx \notin Pack /\ None \notin Path \union Thread

ASSUME OdbStoreAssumption

----------------------------------------------------------------------------
(* The disk *)

Disk == given.disks[disk]

(* As many slots as the store was made with *)
N == given.slots

Slot == 1..N

OnDisk(path) == IF path = Midx THEN Disk.midx # None ELSE path \in Disk.packs

Listed(midx) == {midx.packs[i] : i \in 1..Len(midx.packs)}

(* Indices of packs that the multi-pack index covers are left out. *)
collect_indices_and_mtime_sorted_by_size ==
  LET info(path) == IF path = Midx
                      THEN [path |-> Midx, mtime |-> Disk.midx.mtime,
                            packs |-> Disk.midx.packs]
                      ELSE [path |-> path, mtime |-> 0, packs |-> <<path>>]
      paths == SelectSeq(BySize, LAMBDA path :
                 /\ OnDisk(path)
                 /\ Disk.midx # None => path \notin Listed(Disk.midx))
  IN  [i \in 1..Len(paths) |-> info(paths[i])]

ObjectsOn(d) == d.loose \union UNION {Holds[p] : p \in d.packs}

----------------------------------------------------------------------------
(* Files in a slot: an index and its pack, or a multi-pack index and the packs
   it lists.  A pack that is loaded was read from the file packs[i]. *)

put_back(state) ==
  CASE state = "Garbage" -> "Loaded" [] state = "Missing" -> "Unloaded"
    [] OTHER -> state

trash(state) == IF state = "Loaded" THEN "Garbage" ELSE state

is_loaded(state)     == state \in {"Loaded", "Garbage"}
is_disposable(state) == state \in {"Garbage", "Missing"}

Disposable(files) ==
  is_disposable(files.index)
    \/ \E i \in 1..Len(files.data) : is_disposable(files.data[i])

Each(files, op(_)) ==
  [files EXCEPT !.index = op(@),
                !.data = [i \in 1..Len(files.data) |-> op(files.data[i])]]

PutBack(files) == Each(files, put_back)
Trash(files)   == Each(files, trash)

(* A multi-pack index is opened while the disk is read, others are not. *)
into_index_and_packs(info) ==
  [path |-> info.path, mtime |-> info.mtime, packs |-> info.packs,
   index |-> IF info.path = Midx THEN "Loaded" ELSE "Unloaded",
   data  |-> [i \in 1..Len(info.packs) |-> "Unloaded"]]

(* load_strict of the index.  For a multi-pack index, which is always loaded,
   the packs are forgotten. *)
load_index(files) ==
  IF files.path = Midx
    THEN [files EXCEPT !.data = [i \in 1..Len(files.packs) |-> "Unloaded"]]
    ELSE [files EXCEPT !.index = IF is_loaded(@) THEN @
                                 ELSE IF OnDisk(files.path) THEN "Loaded"
                                 ELSE "Missing"]

(* load_with_recovery of a pack *)
load_with_recovery(files, i) ==
  [files EXCEPT !.data[i] = IF @ # "Unloaded" THEN @
                            ELSE IF files.packs[i] \in Disk.packs THEN "Loaded"
                            ELSE "Missing"]

----------------------------------------------------------------------------
(* The slot map index and snapshots of it *)

uninitialized == [slot_indices |-> <<>>, initialized |-> FALSE,
                  generation |-> 0, next_index_to_load |-> 1,
                  loaded_indices |-> 0, being_loaded |-> 0]

current == Len(index)

(* A hash of the address of the index and of its count of loaded indices. *)
state_id(i) == <<i, index[i].loaded_indices>>

marker(i) == [generation |-> index[i].generation, state_id |-> state_id(i)]

(* What a snapshot keeps of a slot *)
IndexLookup(s, files) ==
  [id |-> s, path |-> files.path, packs |-> files.packs,
   data |-> [i \in 1..Len(files.data) |->
               IF is_loaded(files.data[i]) THEN files.packs[i] ELSE None]]

Usable(files) == files # None /\ is_loaded(files.index)

(* The pack of an index that has the object, or 0 *)
lookup(entry, object) ==
  LET having == {i \in 1..Len(entry.packs) : object \in Holds[entry.packs[i]]}
  IN  IF having = {} THEN 0 ELSE CHOOSE i \in having : \A j \in having : i <= j

----------------------------------------------------------------------------
(* Threads *)

NoWork == [old |-> 0, needs_init |-> FALSE, infos |-> <<>>, add |-> <<>>,
           new |-> <<>>, remove |-> {}, num_loaded |-> 0, next |-> 1,
           checked |-> 0, new_generation |-> FALSE, needs_stable |-> FALSE]

NoResult == [is |-> "none", always |-> FALSE, why |-> "nothing_new",
             pack |-> None, got |-> None]

(* PackId, with the pack that the index it was made from has there *)
NoPack == [slot |-> 0, multi |-> FALSE, pack_index |-> 0, pack |-> None]

NewHandle == [pc |-> "collect_load", call |-> 0, since |-> 1,
              snap |-> [marker |-> [generation |-> 0, state_id |-> <<0, 0>>],
                        indices |-> <<>>],
              at |-> 0, prev |-> <<0, 0>>, slot |-> 0, pinned |-> None,
              entry |-> 0, id |-> NoPack, todo |-> <<>>, work |-> NoWork,
              overlooks |-> FALSE, late |-> FALSE,
              location |-> NoPack, result |-> NoResult]

At(t, pc)   == th[t].pc = pc
Goto(t, pc) == th' = [th EXCEPT ![t].pc = pc]

Call(t)   == given.calls[t][th[t].call]
object(t) == Call(t).object
work(t)   == th[t].work
mark(t)   == th[t].snap.marker

(* What a handle keeps from call to call *)
Handle(t) == [NewHandle EXCEPT !.call = th[t].call, !.snap = th[t].snap,
                               !.location = th[t].location, !.late = th[t].late]

(* A call ends. *)
Return(t, result) ==
  th' = [th EXCEPT ![t] = [Handle(t) EXCEPT
           !.pc = "idle", !.call = @ + 1, !.result = result]]

(* The object was not found.  Was it there all the time? *)
ReturnMissing(t, why) ==
  Return(t, [NoResult EXCEPT !.is = "missing", !.why = why,
               !.always = \A i \in th[t].since..disk :
                            object(t) \in ObjectsOn(given.disks[i])])

(* Was a slot in use given to another index? *)
Evicted == \E s \in Slot : slots[s].evicted

(* There is nothing left to try.  Has the store moved on since the snapshot was
   taken, or was an index overlooked that another thread was about to load? *)
ReturnNone(t) ==
  ReturnMissing(t, IF mark(t) # marker(current) THEN "stale"
                   ELSE IF th[t].overlooks THEN "overlooked"
                   ELSE IF Evicted THEN "evicted" ELSE "nothing_new")

(* Only try_find and try_header can tell that the store failed. *)
ReturnError(t) ==
  IF Call(t).op = "try_find" THEN Return(t, [NoResult EXCEPT !.is = "error"])
  ELSE ReturnMissing(t, "failed")

Unwind(t) ==
  /\ th' = [th EXCEPT ![t] = [NewHandle EXCEPT !.pc = "panic", !.late = th[t].late]]
  /\ write' = IF write = t THEN None ELSE write

Panic(t) == Unwind(t) /\ UNCHANGED <<disk, index, slots, stable, given>>

Local == UNCHANGED <<disk, index, slots, write, stable, given>>

----------------------------------------------------------------------------
(* Taking a snapshot of the loaded indices.  It is the last thing that
   load_one_index does, and the mutex of the store goes with it. *)

collect_load(t) ==
  /\ At(t, "collect_load")
  /\ th' = [th EXCEPT ![t].pc = "collect_wait", ![t].at = current]
  /\ Local

collect_wait(t) ==
  /\ At(t, "collect_wait") /\ index[th[t].at].being_loaded = 0
  /\ Goto(t, "collect_marker")
  /\ Local

collect_marker(t) ==
  /\ At(t, "collect_marker")
  /\ th' = [th EXCEPT ![t].pc = "collect_slots",
              ![t].snap = [marker |-> marker(th[t].at), indices |-> <<>>],
              ![t].todo = index[th[t].at].slot_indices]
  /\ Local

collect_slot(t) ==
  LET s == Head(th[t].todo)
      files == slots[s].files
  IN /\ At(t, "collect_slots") /\ th[t].todo # <<>>
     /\ th' = [th EXCEPT ![t].todo = Tail(@),
                 ![t].snap.indices = IF Usable(files)
                                       THEN Append(@, IndexLookup(s, files)) ELSE @]
     /\ Local

collect_snapshot(t) ==
  /\ At(t, "collect_slots") /\ th[t].todo = <<>>
  /\ th' = [th EXCEPT ![t] = [Handle(t) EXCEPT
              !.since = th[t].since,
              !.call = IF th[t].call = 0 THEN 1 ELSE th[t].call,
              !.pc = IF th[t].call > 0 THEN "search"
                     ELSE IF t \in given.stable THEN "upgrade" ELSE "idle"]]
  /\ write' = IF write = t THEN None ELSE write
  /\ UNCHANGED <<disk, index, slots, stable, given>>

----------------------------------------------------------------------------
(* Handles *)

(* A snapshot may be outdated before its handle becomes stable. *)
Outdated(t) ==
  \E i \in 1..Len(th[t].snap.indices) :
    LET entry == th[t].snap.indices[i]
        files == slots[entry.id].files
    IN  files = None \/ files.path # entry.path

upgrade_handle(t) ==
  /\ At(t, "upgrade") /\ write = None
  /\ stable' = stable \union {t}
  /\ th' = [th EXCEPT ![t].pc = "idle", ![t].late = Outdated(t)]
  /\ UNCHANGED <<disk, index, slots, write, given>>

(* entry_by_location is only called with what location_by_oid returned. *)
MoreCalls(t) ==
  /\ th[t].call <= Len(given.calls[t])
  /\ Call(t).op = "entry_by_location" => th[t].location # NoPack

call(t) ==
  /\ At(t, "idle") /\ MoreCalls(t)
  /\ th' = [th EXCEPT ![t].since = disk, ![t].result = NoResult,
              ![t].pc = IF Call(t).op = "entry_by_location" THEN "entry" ELSE "search",
              ![t].id = IF Call(t).op = "entry_by_location" THEN th[t].location ELSE @]
  /\ Local

remove_handle(t) ==
  /\ At(t, "idle") /\ ~MoreCalls(t)
  /\ t \in stable => write = None
  /\ stable' = stable \ {t}
  /\ Goto(t, "dropped")
  /\ UNCHANGED <<disk, index, slots, write, given>>

----------------------------------------------------------------------------
(* Lookup *)

(* An index that had the object is tried first next time. *)
Swapped(indices, i) ==
  [j \in 1..Len(indices) |-> CASE j = 1 -> indices[i] [] j = i -> indices[1]
                               [] OTHER -> indices[j]]

Entry(t)  == th[t].snap.indices[th[t].entry]

PackAt(t) == IF Entry(t).path = Midx THEN th[t].id.pack_index ELSE 1

Found(t, pack) ==
  LET i == th[t].entry
      used == [th[t].snap.indices EXCEPT ![i].data[PackAt(t)] = pack]
  IN  th' = [th EXCEPT ![t] = [Handle(t) EXCEPT
               !.pc = "idle", !.call = @ + 1,
               !.snap = [@ EXCEPT !.indices =
                           IF Call(t).op = "entry_by_location" THEN used
                           ELSE Swapped(used, i)],
               !.location = IF Call(t).op = "location_by_oid" THEN th[t].id ELSE @,
               !.result = [NoResult EXCEPT !.is = "found", !.pack = th[t].id.pack,
                                           !.got = pack]]]

IndicesWith(t) ==
  {i \in 1..Len(th[t].snap.indices) : lookup(th[t].snap.indices[i], object(t)) # 0}

(* contains, try_find_cached_inner, try_header_inner and location_by_oid *)
search(t) ==
  LET i == CHOOSE i \in IndicesWith(t) : \A j \in IndicesWith(t) : i <= j
      entry == th[t].snap.indices[i]
      k == lookup(entry, object(t))
  IN /\ At(t, "search")
     /\ IF IndicesWith(t) = {}
          THEN Goto(t, IF Call(t).op = "location_by_oid" THEN "load_one" ELSE "loose")
        ELSE IF Call(t).op = "contains"
          THEN th' = [th EXCEPT ![t] = [Handle(t) EXCEPT
                        !.pc = "idle", !.call = @ + 1,
                        !.snap = [@ EXCEPT !.indices = Swapped(@, i)],
                        !.result = [NoResult EXCEPT !.is = "found"]]]
        ELSE th' = [th EXCEPT ![t].pc = "use_pack", ![t].entry = i,
                      ![t].id = [slot |-> entry.id, multi |-> entry.path = Midx,
                                 pack_index |-> k, pack |-> entry.packs[k]]]
     /\ Local

use_pack(t) ==
  LET pack == Entry(t).data[PackAt(t)]
  IN /\ At(t, "use_pack")
     /\ IF pack # None THEN Found(t, pack) ELSE Goto(t, "load_pack")
     /\ Local

loose_contains(t) ==
  /\ At(t, "loose")
  /\ IF object(t) \notin Disk.loose THEN Goto(t, "load_one")
     ELSE IF Call(t).op = "contains"
       THEN Return(t, [NoResult EXCEPT !.is = "found"])
     ELSE Goto(t, "loose_try_find")
  /\ Local

loose_try_find(t) ==
  /\ At(t, "loose_try_find")
  /\ IF object(t) \in Disk.loose THEN Return(t, [NoResult EXCEPT !.is = "found"])
     ELSE ReturnMissing(t, "pruned")
  /\ Local

(* The index for the slot of a pack id that was handed out earlier *)
entry_by_location(t) ==
  LET mine == {i \in 1..Len(th[t].snap.indices) :
                 th[t].snap.indices[i].id = th[t].id.slot}
      i == CHOOSE i \in mine : \A j \in mine : i <= j
      entry == th[t].snap.indices[i]
  IN /\ At(t, "entry")
     /\ IF mine = {} THEN Goto(t, "entry_pin") /\ Local
        ELSE IF entry.path = Midx
                /\ (~th[t].id.multi \/ th[t].id.pack_index > Len(entry.data))
          THEN Panic(t)
        ELSE /\ th' = [th EXCEPT ![t].pc = "use_pack", ![t].entry = i]
             /\ Local

index_by_id_pin(t) ==
  /\ At(t, "entry_pin")
  /\ th' = [th EXCEPT ![t].pc = "entry_check", ![t].pinned = slots[th[t].id.slot].files]
  /\ Local

index_by_id(t) ==
  LET s == th[t].id.slot
  IN /\ At(t, "entry_check")
     /\ IF slots[s].generation > mark(t).generation \/ ~Usable(th[t].pinned)
          THEN Panic(t)
          ELSE /\ th' = [th EXCEPT ![t].pc = "entry", ![t].pinned = None,
                           ![t].snap.indices = <<IndexLookup(s, th[t].pinned)>> \o @]
               /\ Local

----------------------------------------------------------------------------
(* load_pack *)

NoPackLoaded(t) ==
  IF Call(t).op = "entry_by_location" THEN Panic(t) ELSE Goto(t, "load_one") /\ Local

load_pack(t) ==
  /\ At(t, "load_pack")
  /\ IF index[current].generation # mark(t).generation
       THEN NoPackLoaded(t)
       ELSE Goto(t, "load_pack_pin") /\ Local

(* The files are pinned before the generation is looked at. *)
load_pack_pin(t) ==
  /\ At(t, "load_pack_pin")
  /\ th' = [th EXCEPT ![t].pc = "load_pack_check", ![t].pinned = slots[th[t].id.slot].files]
  /\ Local

load_pack_check(t) ==
  LET id == th[t].id
      files == th[t].pinned
  IN /\ At(t, "load_pack_check")
     /\ IF slots[id.slot].generation > mark(t).generation THEN NoPackLoaded(t)
        ELSE IF files = None THEN Panic(t)
        ELSE IF (files.path = Midx) # id.multi \/ id.pack_index > Len(files.packs)
          THEN NoPackLoaded(t)
        ELSE IF is_loaded(files.data[id.pack_index])
          THEN Found(t, files.packs[id.pack_index]) /\ Local
        ELSE Goto(t, "load_pack_locked") /\ Local

load_pack_locked(t) ==
  LET id == th[t].id
      files == slots[id.slot].files
      loaded == load_with_recovery(files, id.pack_index)
  IN /\ At(t, "load_pack_locked") /\ slots[id.slot].lock = None
     /\ IF files = None THEN Panic(t)
        ELSE IF (files.path = Midx) # id.multi THEN NoPackLoaded(t)
        ELSE IF id.pack_index > Len(files.packs) THEN Panic(t)
        ELSE /\ slots' = [slots EXCEPT ![id.slot].files = loaded]
             /\ IF is_loaded(loaded.data[id.pack_index])
                  THEN Found(t, files.packs[id.pack_index]) /\ UNCHANGED write
                ELSE IF Call(t).op = "entry_by_location" THEN Unwind(t)
                ELSE Goto(t, "load_one") /\ UNCHANGED write
             /\ UNCHANGED <<disk, index, stable, given>>

(* A pack that is there but cannot be read *)
load_pack_error(t) ==
  LET id == th[t].id
      slot == slots[id.slot]
  IN /\ At(t, "load_pack_locked") /\ slot.lock = None /\ slot.files # None
     /\ (slot.files.path = Midx) = id.multi /\ id.pack_index <= Len(slot.files.packs)
     /\ slot.files.data[id.pack_index] = "Unloaded"
     /\ slot.files.packs[id.pack_index] \in Disk.packs
     /\ ReturnError(t)
     /\ Local

----------------------------------------------------------------------------
(* load_one_index and load_next_index *)

load_one_index(t) ==
  /\ At(t, "load_one")
  /\ th' = [th EXCEPT ![t].at = current,
              ![t].work.needs_init = ~index[current].initialized,
              ![t].pc = IF ~index[current].initialized THEN "con_load"
                        ELSE IF mark(t) # marker(current) THEN "collect_load"
                        ELSE "next_begin"]
  /\ Local

next_begin(t) ==
  /\ At(t, "next_begin")
  /\ th' = [th EXCEPT ![t].pc = "next_take", ![t].prev = state_id(th[t].at)]
  /\ Local

next_take(t) ==
  LET i == th[t].at
      n == index[i].next_index_to_load
  IN /\ At(t, "next_take")
     /\ IF n <= Len(index[i].slot_indices)
          THEN /\ index' = [index EXCEPT ![i].next_index_to_load = n + 1]
               /\ th' = [th EXCEPT ![t].pc = "next_announce",
                           ![t].slot = index[i].slot_indices[n]]
          ELSE Goto(t, "next_wait") /\ UNCHANGED index
     /\ UNCHANGED <<disk, slots, write, stable, given>>

(* Mutant: the counter is only ever decremented. *)
next_announce_silently(t) ==
  /\ At(t, "next_announce")
  /\ Goto(t, "next_lock")
  /\ UNCHANGED <<disk, index, slots, write, stable, given>>

next_announce(t) ==
  /\ At(t, "next_announce")
  /\ index' = [index EXCEPT ![th[t].at].being_loaded = @ + 1]
  /\ Goto(t, "next_lock")
  /\ UNCHANGED <<disk, slots, write, stable, given>>

(* The slot was given to another index meanwhile, or it was emptied. *)
next_skip(t) ==
  LET slot == slots[th[t].slot]
  IN /\ At(t, "next_lock") /\ slot.lock = None
     /\ slot.generation > index[th[t].at].generation \/ slot.files = None
     /\ index' = [index EXCEPT ![th[t].at].being_loaded = @ - 1]
     /\ Goto(t, "next_take")
     /\ UNCHANGED <<disk, slots, write, stable, given>>

next_load(t) ==
  LET s == th[t].slot
  IN /\ At(t, "next_lock") /\ slots[s].lock = None
     /\ slots[s].generation <= index[th[t].at].generation /\ slots[s].files # None
     /\ slots' = [slots EXCEPT ![s].files = load_index(@), ![s].lock = t]
     /\ Goto(t, "next_count")
     /\ UNCHANGED <<disk, index, write, stable, given>>

next_count(t) ==
  /\ At(t, "next_count")
  /\ index' = [index EXCEPT ![th[t].at].loaded_indices = @ + 1]
  /\ Goto(t, "next_drop")
  /\ UNCHANGED <<disk, slots, write, stable, given>>

next_drop(t) ==
  LET s == th[t].slot
  IN /\ At(t, "next_drop")
     /\ slots' = [slots EXCEPT ![s].lock = None]
     /\ index' = [index EXCEPT ![th[t].at].being_loaded = @ - 1]
     /\ Goto(t, IF is_loaded(slots[s].files.index) THEN "next_end" ELSE "next_take")
     /\ UNCHANGED <<disk, write, stable, given>>

(* Mutant: does not wait for others that are loading. *)
next_wait_not(t) ==
  /\ At(t, "next_wait")
  /\ th' = [th EXCEPT ![t].pc = "next_end",
              ![t].overlooks = \E u \in Thread : At(u, "next_announce") /\ th[u].at = th[t].at]
  /\ Local

(* Nothing is left to take: wait for those who are loading.  Who has taken an
   index but not announced that yet is not waited for, however long yield_now()
   takes. *)
next_wait(t) ==
  /\ At(t, "next_wait") /\ index[th[t].at].being_loaded = 0
  /\ th' = [th EXCEPT ![t].pc = "next_end",
              ![t].overlooks = \E u \in Thread : At(u, "next_announce") /\ th[u].at = th[t].at]
  /\ Local

load_next_index(t) ==
  LET i == th[t].at
      changed == th[t].prev # state_id(i)
  IN /\ At(t, "next_end")
     /\ IF ~changed /\ i # current
          THEN th' = [th EXCEPT ![t].pc = "next_begin", ![t].at = current]
        ELSE IF changed \/ write = t THEN Goto(t, "collect_load")
        ELSE IF given.refresh[t] = "Never" THEN ReturnNone(t)
        ELSE th' = [th EXCEPT ![t].pc = "con_load", ![t].work = NoWork]
     /\ Local

----------------------------------------------------------------------------
(* consolidate_with_disk_state *)

con_load(t) ==
  /\ At(t, "con_load")
  /\ th' = [th EXCEPT ![t].pc = "con_lock", ![t].work.old = current]
  /\ Local

(* Somebody else may have done the work in the meantime. *)
con_lock(t) ==
  /\ At(t, "con_lock") /\ write = None
  /\ write' = t
  /\ Goto(t, IF \/ work(t).old # current
                \/ index[current].initialized /\ work(t).needs_init
               THEN "collect_load" ELSE "con_scan")
  /\ UNCHANGED <<disk, index, slots, stable, given>>

old(t) == index[work(t).old]

Used(t) == {old(t).slot_indices[i] : i \in 1..Len(old(t).slot_indices)}

idx_by_index_path(t, path) ==
  {s \in Used(t) : slots[s].files # None /\ slots[s].files.path = path}

(* Mutant: known indices that are still on disk are removed, too. *)
con_scan_removes_all(t) ==
  /\ At(t, "con_scan")
  /\ th' = [th EXCEPT ![t].pc = "con_match",
              ![t].work.infos = collect_indices_and_mtime_sorted_by_size,
              ![t].work.remove = Used(t)]
  /\ Local

con_scan(t) ==
  LET infos == collect_indices_and_mtime_sorted_by_size
      kept  == UNION {idx_by_index_path(t, infos[i].path) : i \in 1..Len(infos)}
  IN /\ At(t, "con_scan")
     /\ th' = [th EXCEPT ![t].pc = "con_match", ![t].work.infos = infos,
                 ![t].work.remove = {s \in Used(t) \ kept : slots[s].files # None}]
     /\ Local

(* assure_slot_matches_index: what is on disk isn't garbage or missing. *)
assure_slot_matches_index(s, generation) ==
  IF Disposable(slots[s].files)
    THEN /\ slots[s].lock = None
         /\ slots' = [slots EXCEPT ![s].files = PutBack(@),
                                   ![s].generation = generation]
    ELSE UNCHANGED slots

con_match_known(t) ==
  LET info == Head(work(t).infos)
      s == CHOOSE s \in idx_by_index_path(t, info.path) : TRUE
      files == slots[s].files
      num_loaded == work(t).num_loaded + IF is_loaded(files.index) THEN 1 ELSE 0
  IN /\ At(t, "con_match") /\ work(t).infos # <<>>
     /\ idx_by_index_path(t, info.path) # {}
     /\ IF info.path = Midx /\ files.mtime # info.mtime
          THEN /\ th' = [th EXCEPT ![t].work.infos = Tail(@),
                           ![t].work.num_loaded = num_loaded,
                           ![t].work.add = Append(@, [info |-> info, from |-> s])]
               /\ UNCHANGED slots
          ELSE /\ assure_slot_matches_index(s, old(t).generation)
               /\ th' = [th EXCEPT ![t].work.infos = Tail(@),
                           ![t].work.num_loaded = num_loaded,
                           ![t].work.new = Append(@, s)]
     /\ UNCHANGED <<disk, index, write, stable, given>>

con_match_new(t) ==
  LET info == Head(work(t).infos)
  IN /\ At(t, "con_match") /\ work(t).infos # <<>>
     /\ idx_by_index_path(t, info.path) = {}
     /\ th' = [th EXCEPT ![t].work.infos = Tail(@),
                 ![t].work.add = Append(@, [info |-> info, from |-> 0])]
     /\ Local

maintain_stable_indices(t) ==
  LET last == CHOOSE s \in Used(t) : \A u \in Used(t) : u <= s
  IN /\ At(t, "con_match") /\ work(t).infos = <<>>
     /\ th' = [th EXCEPT ![t].pc = "con_place",
                 ![t].work.needs_stable = stable # {},
                 ![t].work.next = IF Used(t) = {} THEN 1 ELSE (last % N) + 1]
     /\ Local

(* Does the old or the new index list the slot? *)
InUse(t, s) == s \in Used(t) \/ \E i \in 1..Len(work(t).new) : work(t).new[i] = s

next_slot(t) ==
  /\ th' = [th EXCEPT ![t].work.next = (@ % N) + 1, ![t].work.checked = @ + 1]
  /\ UNCHANGED slots

(* That a slot was taken from an index is remembered. *)
take_slot(t) ==
  LET s == work(t).next
      empty == slots[s].files = None
  IN /\ slots[s].lock = None
     /\ slots' = [slots EXCEPT ![s].lock = t, ![s].evicted = @ \/ InUse(t, s),
                    ![s].generation = old(t).generation + IF empty THEN 0 ELSE 1]
     /\ th' = [th EXCEPT ![t].pc = "con_store", ![t].slot = s,
                 ![t].work.next = (s % N) + 1, ![t].work.checked = @ + 1,
                 ![t].work.new = Append(@, s),
                 ![t].work.new_generation = @ \/ ~empty,
                 ![t].work.remove = @ \union ({Head(work(t).add).from} \ {0})]

(* Mutant: garbage is overwritten even if it must be kept. *)
try_set_index_slot_disposes(t) ==
  LET s == work(t).next
      files == slots[s].files
      item == Head(work(t).add)
      refused == \/ s = item.from
                 \/ files # None /\ files.path = item.info.path
  IN /\ At(t, "con_place") /\ work(t).add # <<>> /\ work(t).checked < N
     /\ IF refused THEN next_slot(t) ELSE take_slot(t)
     /\ UNCHANGED <<disk, index, write, stable, given>>

(* One slot after the other is tried, from the one after the last that the old
   index lists, and none twice.  One in use is not refused. *)
try_set_index_slot(t) ==
  LET s == work(t).next
      files == slots[s].files
      item == Head(work(t).add)
      refused == \/ s = item.from
                 \/ /\ files # None
                    /\ \/ files.path = item.info.path
                       \/ Disposable(files) /\ work(t).needs_stable
  IN /\ At(t, "con_place") /\ work(t).add # <<>> /\ work(t).checked < N
     /\ IF refused THEN next_slot(t) ELSE take_slot(t)
     /\ UNCHANGED <<disk, index, write, stable, given>>

(* The generation was set before the files are. *)
set_slot_to_index(t) ==
  LET s == th[t].slot
  IN /\ At(t, "con_store")
     /\ slots' = [slots EXCEPT ![s].lock = None,
                    ![s].files = into_index_and_packs(Head(work(t).add).info)]
     /\ th' = [th EXCEPT ![t].pc = "con_place", ![t].work.add = Tail(@)]
     /\ UNCHANGED <<disk, index, write, stable, given>>

insufficient_slots(t) ==
  /\ At(t, "con_place") /\ work(t).add # <<>> /\ work(t).checked = N
  /\ ReturnError(t)
  /\ write' = None
  /\ UNCHANGED <<disk, index, slots, stable, given>>

generation(t) == old(t).generation + IF work(t).new_generation THEN 1 ELSE 0

con_publish(t) ==
  LET unchanged == old(t).slot_indices = work(t).new
  IN /\ At(t, "con_place") /\ work(t).add = <<>>
     /\ IF unchanged /\ work(t).new_generation THEN Panic(t)
        ELSE /\ index' = IF unchanged /\ old(t).initialized THEN index
                         ELSE Append(index,
                                [uninitialized EXCEPT !.initialized = TRUE,
                                   !.slot_indices = work(t).new,
                                   !.generation = generation(t),
                                   !.loaded_indices = work(t).num_loaded])
             /\ Goto(t, "con_remove")
             /\ UNCHANGED <<disk, slots, write, stable, given>>

(* The slots of files that are gone, after the new index is in place.  The code
   goes by path; any order will do. *)
con_remove(t) ==
  /\ At(t, "con_remove")
  /\ \E s \in work(t).remove :
       LET stay == work(t).needs_stable
       IN /\ slots[s].lock = None
          /\ slots' = [slots EXCEPT ![s] =
               IF ~stay THEN [@ EXCEPT !.lock = t, !.generation = generation(t)]
               ELSE IF @.files = None THEN @
               ELSE [@ EXCEPT !.files = Trash(@)]]
          /\ th' = [th EXCEPT ![t].pc = IF stay THEN "con_remove" ELSE "con_clear",
                      ![t].slot = s, ![t].work.remove = @ \ {s}]
  /\ UNCHANGED <<disk, index, write, stable, given>>

con_clear(t) ==
  /\ At(t, "con_clear")
  /\ slots' = [slots EXCEPT ![th[t].slot].files = None, ![th[t].slot].lock = None]
  /\ Goto(t, "con_remove")
  /\ UNCHANGED <<disk, index, write, stable, given>>

(* Mutant: that there was no change is not reflected in the result. *)
consolidate_always(t) ==
  /\ At(t, "con_remove") /\ work(t).remove = {}
  /\ th' = [th EXCEPT ![t].at = current, ![t].work = NoWork, ![t].slot = 0,
              ![t].pc = IF work(t).needs_init THEN "collect_load" ELSE "next_begin"]
  /\ UNCHANGED <<disk, index, slots, write, stable, given>>

consolidate_with_disk_state(t) ==
  /\ At(t, "con_remove") /\ work(t).remove = {}
  /\ IF state_id(work(t).old) = state_id(current)
       THEN ReturnNone(t) /\ write' = None
       ELSE /\ th' = [th EXCEPT ![t].at = current, ![t].work = NoWork, ![t].slot = 0,
                        ![t].pc = IF work(t).needs_init THEN "collect_load"
                                  ELSE "next_begin"]
            /\ UNCHANGED write
  /\ UNCHANGED <<disk, index, slots, stable, given>>

----------------------------------------------------------------------------
(* Other processes write and remove packs. *)
change_disk ==
  /\ disk < Len(given.disks)
  /\ disk' = disk + 1
  /\ UNCHANGED <<index, slots, write, stable, th, given>>

Init ==
  /\ given \in Scenario
  /\ disk = 1
  /\ index = <<uninitialized>>
  /\ slots = [s \in Slot |-> [files |-> None, generation |-> 0, lock |-> None,
                           evicted |-> FALSE]]
  /\ write = None
  /\ stable = {}
  /\ th = [t \in Thread |-> IF given.calls[t] = <<>>
                               THEN [NewHandle EXCEPT !.pc = "dropped"] ELSE NewHandle]

Collect(t) ==
  \/ collect_load(t) \/ collect_wait(t) \/ collect_marker(t) \/ collect_slot(t)
  \/ collect_snapshot(t)

Lookup(t) ==
  \/ search(t) \/ use_pack(t) \/ loose_contains(t) \/ loose_try_find(t)
  \/ entry_by_location(t) \/ index_by_id_pin(t) \/ index_by_id(t)
  \/ load_pack(t) \/ load_pack_pin(t) \/ load_pack_check(t)
  \/ load_pack_locked(t) \/ load_pack_error(t)

LoadNext(t) ==
  \/ load_one_index(t) \/ next_begin(t) \/ next_take(t) \/ next_announce(t)
  \/ next_skip(t) \/ next_load(t) \/ next_count(t) \/ next_drop(t)
  \/ next_wait(t) \/ load_next_index(t)

Consolidate(t) ==
  \/ con_load(t) \/ con_lock(t) \/ con_scan(t) \/ con_match_known(t)
  \/ con_match_new(t) \/ maintain_stable_indices(t) \/ try_set_index_slot(t)
  \/ set_slot_to_index(t) \/ insufficient_slots(t) \/ con_publish(t)
  \/ con_remove(t) \/ con_clear(t) \/ consolidate_with_disk_state(t)

Step(t) ==
  \/ Collect(t) \/ Lookup(t) \/ LoadNext(t) \/ Consolidate(t)
  \/ upgrade_handle(t) \/ call(t) \/ remove_handle(t)

AllDone == \A t \in Thread : th[t].pc \in {"dropped", "panic"}

Next ==
  \/ \E t \in Thread : Step(t)
  \/ change_disk
  \/ AllDone /\ UNCHANGED vars

Spec == Init /\ [][Next]_vars

(* Threads that run keep running. *)
FairSpec == Spec /\ \A t \in Thread : WF_vars(Step(t))

----------------------------------------------------------------------------
(* Properties *)

PC == {"collect_load", "collect_wait", "collect_marker", "collect_slots",
       "upgrade", "idle", "dropped", "panic", "search", "use_pack", "loose",
       "loose_try_find", "entry", "entry_pin", "entry_check", "load_pack",
       "load_pack_pin", "load_pack_check", "load_pack_locked", "load_one",
       "next_begin", "next_take", "next_announce", "next_lock", "next_count",
       "next_drop", "next_wait", "next_end", "con_load", "con_lock", "con_scan",
       "con_match", "con_place", "con_store", "con_remove", "con_clear"}

(* Every variable holds what the code's types allow; counters that the code
   keeps unsigned do not go below zero, nor above the number of indices. *)
TypeOK ==
  /\ disk \in 1..Len(given.disks)
  /\ \A i \in 1..Len(index) :
       /\ index[i].slot_indices \in Seq(Slot)
       /\ index[i].generation \in Nat
       /\ index[i].next_index_to_load \in 1..Len(index[i].slot_indices) + 1
       /\ index[i].being_loaded \in 0..Cardinality(Thread)
  /\ \A s \in Slot :
       /\ slots[s].lock \in Thread \union {None} /\ slots[s].generation \in Nat
       /\ slots[s].files # None =>
            /\ slots[s].files.path \in Path /\ slots[s].files.index \in FileState
            /\ Len(slots[s].files.data) = Len(slots[s].files.packs)
            /\ \A i \in 1..Len(slots[s].files.data) :
                 slots[s].files.data[i] \in FileState
  /\ write \in Thread \union {None} /\ stable \subseteq Thread
  /\ \A t \in Thread : th[t].pc \in PC

Refreshes(t) == given.refresh[t] = "AfterAllIndicesLoaded"

MissesPresent(t) == th[t].result.is = "missing" /\ th[t].result.always

(* An object that is on disk for as long as a call runs is found by that call if
   nothing fails, however often it is repacked and whichever other threads load
   indices or refresh the store meanwhile.  Taken as given is that there are slots
   enough, that loose objects are not pruned, and, as load_index.rs does, that yielding
   gives who has taken an index the time to announce it. *)
FindsPresentObjects ==
  \A t \in Thread : Refreshes(t) /\ MissesPresent(t) =>
    th[t].result.why \in {"overlooked", "pruned", "failed", "evicted"}

(* A call misses an object that is on disk all the time only if another thread has
   changed the store since this one took its snapshot, or had taken an index without
   having announced it; if the object was loose, and is packed and pruned between the
   two looks at it; if an index in use was evicted; or if the store failed and the call
   cannot say so.  In particular, a store with slots enough that is not shared finds
   every packed object. *)
MissesHaveReasons ==
  \A t \in Thread : Refreshes(t) /\ MissesPresent(t) =>
    /\ th[t].result.why # "nothing_new"
    /\ th[t].result.why \in {"stale", "overlooked"} =>
         \E u \in Thread \ {t} : given.calls[u] # <<>>

(* A slot that is given to a new index is free or disposable, as the comment of
   try_set_index_slot says: it is not one the index lists whose files are there. *)
TakesFreeSlots ==
  \A t \in Thread : At(t, "con_store") /\ th[t].slot \in Used(t) =>
    LET files == slots[th[t].slot].files IN files = None \/ Disposable(files)

(* A handle with stable pack ids reads an object from the very pack that the
   index it found the object in belongs to, also when it comes back later with
   a pack id it was given earlier. *)
RightPack(t) ==
  th[t].result.is = "found" => th[t].result.got = th[t].result.pack

(* ... and never runs into one of the panics for indices and packs that must
   not be unloaded while such handles exist. *)
NeverPanics(t) == ~At(t, "panic")


(* The current index lists a slot at most once, and only slots with files, unless
   a slot in use was given away. *)
IndexListsFiles ==
  LET listed == index[current].slot_indices
  IN  Evicted \/ \A i, j \in 1..Len(listed) :
        slots[listed[i]].files # None /\ (listed[i] = listed[j] => i = j)

(* While a handle needs stable ids, a slot that has handed out its index keeps it:
   what is gone from disk becomes garbage, and is not replaced.  Only who goes around
   the slots and comes to one in use replaces its index. *)
StableSlotsKeepFiles ==
  [][\A s \in Slot : stable # {} /\ Usable(slots[s].files) /\ ~slots[s].evicted =>
       Usable(slots'[s].files) /\ slots'[s].files.path = slots[s].files.path]_vars

(* Every call returns: nobody waits for an index that is never loaded, or for a
   mutex that is never released, and refreshing comes to an end. *)
Terminates == <>(\A t \in Thread : th[t].pc \in {"dropped", "panic"})
=============================================================================
