------------------------------ MODULE Checkout ------------------------------
(***************************************************************************)
(* gix_worktree_state::checkout() with the filter drivers of gix-filter:   *)
(* the entries of an index are written into a directory by one or more     *)
(* threads.  Long-running filter processes may delay their results, which  *)
(* are collected by each thread at its end; symbolic links come last, in   *)
(* the calling thread.                                                     *)
(*                                                                         *)
(* Two paths of the index may be the same file on disk.  An entry names    *)
(* its path, the slot of the file system it ends up in and the directory   *)
(* it is in, if any.  A filter process answers as it pleases, within what  *)
(* the scenario allows.                                                    *)
(***************************************************************************)
EXTENDS Naturals, Sequences, FiniteSets, SequencesExt

CONSTANTS Scenario,  \* checkouts: see the fields of given below
          None

VARIABLES given,       \* the call: entries, options and what the drivers may do
          next,        \* the entry that is handed out next
          worker,      \* the threads, 0 being the calling thread if there are others
          driver,      \* per thread and key, the client and its filter process
          fs,          \* what is on disk
          out,         \* the outcome, summed up, and the counter for files
          links,       \* symbolic links that were put off
          result,      \* of the call
          interrupted, \* should_interrupt
          through,     \* a file was created behind a symbolic link
          stale        \* a process was invoked while an earlier result was unread

vars == <<given, next, worker, driver, fs, out, links, result, interrupted, through, stale>>
ghosts == <<through, stale>>

Entry  == given.entries
Main   == IF given.threads = 1 THEN 1 ELSE 0
Worker == IF given.threads = 1 THEN {1} ELSE 0..given.threads
Top    == None

Nothing == [kind |-> "none", by |-> {}, exec |-> FALSE]
Dir     == [kind |-> "dir", by |-> {}, exec |-> FALSE]
Parent(slot) == given.parent[slot]

(* The entry a thread works on. *)
e(w) == Entry[worker[w].cur]

----------------------------------------------------------------------------
(* The file system *)

(* OpenOptions: create_new *)
create_new == given.initially_empty /\ ~given.overwrite

IsReachable(slot) == Parent(slot) = Top \/ fs[Parent(slot)].kind \in {"dir", "link"}
IsBehindLink(slot) == Parent(slot) # Top /\ fs[Parent(slot)].kind = "link"

(* What it takes to create a file, a link or a directory. *)
Free(slot, what) ==
  \/ fs[slot].kind = "none"
  \/ what = "file" /\ fs[slot].kind = "file" /\ ~create_new

(* What is at a slot is removed, and what is in it.  Who has it open writes into
   nothing from then on. *)
Without(slot) ==
  [s \in DOMAIN fs |-> IF s = slot \/ Parent(s) = slot THEN Nothing ELSE fs[s]]
Unlink(w, slot, pc) ==
  /\ fs' = Without(slot)
  /\ worker' = [v \in Worker |->
       IF v = w THEN [worker[w] EXCEPT !.pc = pc]
       ELSE IF worker[v].handle /\ (e(v).slot = slot \/ Parent(e(v).slot) = slot)
         THEN [worker[v] EXCEPT !.handle = FALSE] ELSE worker[v]]

----------------------------------------------------------------------------
(* Results *)

Goto(w, pc) == worker' = [worker EXCEPT ![w].pc = pc]

(* Where a thread goes on after an entry. *)
AfterEntry(w) ==
  CASE worker[w].phase = "process" -> "take"
    [] worker[w].phase = "delayed" -> "listed"
    [] worker[w].phase = "links"   -> "links"

(* The call returns with an error right away if there is just one thread, or once
   all threads are joined. *)
Abort(w) ==
  IF w = Main
    THEN result' = "Err" /\ Goto(w, "done")
    ELSE /\ result' = "failing"
         /\ Goto(w, IF worker[w].phase = "process" THEN "take" ELSE "done")

(* is_collision() *)
Collide(w, pc) ==
  /\ out' = [out EXCEPT !.collisions = @ \union {worker[w].cur}, !.files = @ + 1]
  /\ Goto(w, pc)
  /\ UNCHANGED result

(* handle_error() *)
handle_error(w, pc) ==
  IF given.keep_going
    THEN /\ out' = [out EXCEPT !.errors = @ \union {worker[w].cur}, !.files = @ + 1]
         /\ Goto(w, pc)
         /\ UNCHANGED result
    ELSE Abort(w) /\ UNCHANGED out

----------------------------------------------------------------------------
(* chunk::process *)

Take(w) == result # "Err" /\ worker[w].pc = "take"

(* Mutant: links are created with all else. *)
process_links_early(w) ==
  LET i == next
  IN /\ Take(w) /\ w # 0 /\ ~interrupted /\ next <= Len(Entry)
     /\ next' = next + 1
     /\ IF Entry[i].skip
          THEN out' = [out EXCEPT !.files = @ + 1] /\ UNCHANGED worker
          ELSE worker' = [worker EXCEPT ![w].pc = "enter", ![w].cur = i] /\ UNCHANGED out
     /\ UNCHANGED <<given, driver, fs, links, result, interrupted, ghosts>>

process(w) ==
  LET i == next
  IN /\ Take(w) /\ w # 0 /\ ~interrupted /\ next <= Len(Entry)
     /\ next' = next + 1
     /\ CASE Entry[i].skip ->
               out' = [out EXCEPT !.files = @ + 1] /\ UNCHANGED <<worker, links>>
          [] ~Entry[i].skip /\ Entry[i].mode = "symlink" ->
               links' = Append(links, i) /\ UNCHANGED <<worker, out>>
          [] OTHER ->
               /\ worker' = [worker EXCEPT ![w].pc = "enter", ![w].cur = i]
               /\ UNCHANGED <<out, links>>
     /\ UNCHANGED <<given, driver, fs, result, interrupted, ghosts>>

(* Mutant: all entries are waited for. *)
processed_all(w) ==
  /\ Take(w) /\ w # 0 /\ (next > Len(Entry) \/ interrupted \/ result = "failing")
  /\ worker' = [worker EXCEPT ![w].pc = "keys", ![w].phase = "delayed",
                  ![w].keys = {Entry[i].driver : i \in worker[w].delayed},
                  ![w].unseen = DOMAIN Entry]
  /\ UNCHANGED <<given, next, driver, fs, out, links, result, interrupted, ghosts>>

(* There are no entries, or they are not wanted anymore.  What was delayed is looked
   after in any case. *)
processed(w) ==
  /\ Take(w) /\ w # 0 /\ (next > Len(Entry) \/ interrupted \/ result = "failing")
  /\ worker' = [worker EXCEPT ![w].pc = "keys", ![w].phase = "delayed",
                  ![w].keys = {Entry[i].driver : i \in worker[w].delayed},
                  ![w].unseen = worker[w].delayed]
  /\ UNCHANGED <<given, next, driver, fs, out, links, result, interrupted, ghosts>>

(* Stack::at_path.  The stack remembers the last path as a whole, also the part of it
   that was no directory: what the new path has in common with it is not looked at. *)
Components(entry) ==
  IF entry.dir = None THEN <<entry.path>> ELSE <<entry.dir.name, entry.path>>

Matching(w) ==
  LET old == worker[w].current
      new == Components(e(w))
  IN {i \in DOMAIN old \cap DOMAIN new : SubSeq(old, 1, i) = SubSeq(new, 1, i)}

(* Of the other components all but the last are created, and the last one if the entry
   is a directory. *)
Directories(w) ==
  (IF e(w).dir = None \/ 1 \in Matching(w) THEN <<>> ELSE <<e(w).dir.slot>>)
  \o (IF e(w).mode \in {"dir", "commit"} /\ Matching(w) # DOMAIN Components(e(w))
        THEN <<e(w).slot>> ELSE <<>>)

at_path(w) ==
  /\ result # "Err" /\ worker[w].pc = "enter"
  /\ worker' = [worker EXCEPT ![w].pc = "mkdir", ![w].todo = Directories(w),
                  ![w].current = IF Directories(w) = <<>> THEN Components(e(w))
                                 ELSE SubSeq(@, 1, Cardinality(Matching(w)))]
  /\ UNCHANGED <<given, next, driver, fs, out, links, result, interrupted, ghosts>>

(* A component is there, and with the last directory the rest of the path. *)
Created(w) ==
  worker' = [worker EXCEPT ![w].todo = Tail(@), ![w].pc = "mkdir",
               ![w].current = SubSeq(Components(e(w)), 1,
                                IF Len(worker[w].todo) = 1 THEN Len(Components(e(w)))
                                ELSE Len(@) + 1)]

Making(w, pc) == result # "Err" /\ worker[w].pc \in pc /\ worker[w].todo # <<>>

(* create_leading_directory(): create_dir, ... *)
create_leading_directory(w) ==
  LET slot == Head(worker[w].todo)
  IN /\ Making(w, {"mkdir", "mkdir_again"})
     /\ CASE ~IsReachable(slot) ->
               handle_error(w, AfterEntry(w)) /\ UNCHANGED <<fs, through>>
          [] IsReachable(slot) /\ Free(slot, "dir") ->
               /\ Created(w)
               /\ fs' = [fs EXCEPT ![slot] = Dir]
               /\ through' = (through \/ IsBehindLink(slot))
               /\ UNCHANGED <<out, result>>
          [] IsReachable(slot) /\ ~Free(slot, "dir") ->
               /\ IF worker[w].pc = "mkdir" THEN Goto(w, "mkdir_stat") /\ UNCHANGED <<out, result>>
                  ELSE Collide(w, AfterEntry(w))
               /\ UNCHANGED <<fs, through>>
     /\ UNCHANGED <<given, next, driver, links, interrupted, stale>>

(* ... symlink_metadata, if there is something already, ... *)
is_leading_directory(w) ==
  LET slot == Head(worker[w].todo)
  IN /\ Making(w, {"mkdir_stat"})
     /\ CASE fs[slot].kind = "none" -> handle_error(w, AfterEntry(w))
          [] fs[slot].kind = "dir" -> Created(w) /\ UNCHANGED <<out, result>>
          [] fs[slot].kind \in {"file", "link"} ->
               IF given.overwrite THEN Goto(w, "mkdir_remove") /\ UNCHANGED <<out, result>>
               ELSE Collide(w, AfterEntry(w))
     /\ UNCHANGED <<given, next, driver, fs, links, interrupted, ghosts>>

(* ... and the removal of what is no directory and may be removed.  A directory that
   took its place meanwhile is not. *)
unlink_leading(w) ==
  LET slot == Head(worker[w].todo)
  IN /\ Making(w, {"mkdir_remove"})
     /\ CASE fs[slot].kind = "none" -> handle_error(w, AfterEntry(w)) /\ UNCHANGED fs
          [] fs[slot].kind = "dir" -> Collide(w, AfterEntry(w)) /\ UNCHANGED fs
          [] fs[slot].kind \in {"file", "link"} ->
               Unlink(w, slot, "mkdir_again") /\ UNCHANGED <<out, result>>
     /\ UNCHANGED <<given, next, driver, links, interrupted, ghosts>>

----------------------------------------------------------------------------
(* The client of a filter process.  Its output is a queue of packets. *)

IsPath(p) == p \in given.invents \union {Entry[i].path : i \in DOMAIN Entry}
IsStatus(p) == p \notin {"data", "flush"} /\ ~IsPath(p)
FirstFlush(q) == SelectInSeq(q, LAMBDA p : p = "flush")
AfterFlush(q) == SubSeq(q, FirstFlush(q) + 1, Len(q))

read_status(q) ==
  LET lines == SubSeq(q, 1, FirstFlush(q) - 1)
      statuses == SelectSeq(lines, IsStatus)
  IN IF lines = <<>> THEN "previous" ELSE IF statuses = <<>> THEN "unset" ELSE Last(statuses)

is_success(status) == status \in {"success", "previous"}

(* What a process answers to a command with content: that it will do it later, that it
   failed, or the content and a status that may revise the first. *)
Answer(what) ==
  CASE what = "success" -> <<"success", "flush", "data", "flush", "flush">>
    [] what = "fails"   -> <<"success", "flush", "data", "flush", "error", "flush">>
    [] OTHER            -> <<what, "flush">>

(* pending: the paths it will list, again: those it will list twice, dead: nobody is at
   the other end of the pipes, which nobody has noticed yet *)
Stopped == [running |-> FALSE, dead |-> FALSE, smudges |-> FALSE, stdout |-> <<>>, pending |-> {}, again |-> {}]

(* The status that is read once a process has answered, and what becomes of it: gone
   after a status that is not expected, without the command after abort. *)
Status(c, what) == read_status(c.stdout \o Answer(what))
Invoked(c, what, expected) ==
  LET status == Status(c, what)
      d == [c EXCEPT !.stdout = AfterFlush(c.stdout \o Answer(what))]
  IN IF is_success(status) \/ status \in expected THEN d
     ELSE IF status = "abort" THEN [d EXCEPT !.smudges = FALSE]
     ELSE Stopped

(* maybe_launch_process() *)
Launched(w, key) ==
  IF driver[w][key].running THEN driver[w][key]
  ELSE [running |-> TRUE, dead |-> FALSE, smudges |-> TRUE, stdout |-> <<>>, pending |-> given.invents,
        again |-> given.repeats]

SetClient(w, key, c) == driver' = [driver EXCEPT ![w][key] = c]
SeeStale(c) == stale' = (stale \/ c.stdout # <<>>)

(* There is an error while its output is read. *)
Dead(c) == [c EXCEPT !.dead = TRUE, !.stdout = <<>>]

(* All that is to read of the result, and whether it ends well. *)
Drained(c) == [c EXCEPT !.stdout = AfterFlush(AfterFlush(@))]
EndsWell(c) == is_success(read_status(AfterFlush(c.stdout)))

----------------------------------------------------------------------------
(* entry::checkout *)

Ready(w) == result # "Err" /\ worker[w].pc = "mkdir" /\ worker[w].todo = <<>>
Reading(w, reader) == worker' = [worker EXCEPT ![w].pc = "open", ![w].reader = reader]

(* Submodules and sparse directories are skipped. *)
skip_directory(w) ==
  /\ Ready(w) /\ e(w).mode \in {"dir", "commit"}
  /\ out' = [out EXCEPT !.files = @ + 1]
  /\ Goto(w, AfterEntry(w))
  /\ UNCHANGED <<given, next, driver, fs, links, result, interrupted, ghosts>>

find_fails(w) ==
  /\ Ready(w) /\ e(w).missing
  /\ handle_error(w, AfterEntry(w))
  /\ UNCHANGED <<given, next, driver, fs, links, interrupted, ghosts>>

(* No driver, or one for a single file: there is something to read. *)
convert(w) ==
  /\ Ready(w) /\ e(w).mode \in {"file", "exec", "symlink"} /\ ~e(w).missing
  /\ e(w).driver \notin given.keys
  /\ Reading(w, IF e(w).driver = None THEN "buffer" ELSE "child")
  /\ UNCHANGED <<given, next, driver, fs, out, links, result, interrupted, ghosts>>

(* The driver for a single file cannot be started, or does not read its input. *)
convert_fails(w) ==
  /\ Ready(w) /\ ~e(w).missing /\ e(w).driver \notin given.keys \union {None} /\ given.dies
  /\ handle_error(w, AfterEntry(w))
  /\ UNCHANGED <<given, next, driver, fs, links, interrupted, ghosts>>

Smudging(w) == Ready(w) /\ ~e(w).missing /\ e(w).driver \in given.keys

(* The process gave up this command before: the entry is not filtered. *)
apply_unsupported(w) ==
  /\ Smudging(w) /\ driver[w][e(w).driver].running /\ ~driver[w][e(w).driver].smudges
  /\ Reading(w, "buffer")
  /\ UNCHANGED <<given, next, driver, fs, out, links, result, interrupted, ghosts>>

apply_delayed(w, what) ==
  LET key == e(w).driver
      c == Launched(w, key)
      status == Status(c, what)
      d == Invoked(c, what, {"delayed", "error"})
  IN /\ Smudging(w) /\ c.smudges /\ ~c.dead
     /\ SeeStale(c)
     /\ CASE status = "delayed" /\ given.delay ->
               /\ SetClient(w, key, [d EXCEPT !.pending = @ \union {e(w).path}])
               /\ worker' = [worker EXCEPT ![w].pc = "take", ![w].delayed = @ \union {worker[w].cur}]
               /\ UNCHANGED <<out, result>>
          [] is_success(status) ->
               /\ SetClient(w, key, d)
               /\ Reading(w, "process")
               /\ UNCHANGED <<out, result>>
          [] OTHER -> SetClient(w, key, d) /\ handle_error(w, AfterEntry(w))
     /\ UNCHANGED <<given, next, fs, links, interrupted, through>>

(* The process cannot be started, or its pipes are broken. *)
apply_io_error(w) ==
  /\ Smudging(w) /\ given.dies
  /\ (driver[w][e(w).driver].running => driver[w][e(w).driver].smudges)
  /\ SetClient(w, e(w).driver, Stopped)
  /\ handle_error(w, AfterEntry(w))
  /\ UNCHANGED <<given, next, fs, links, interrupted, ghosts>>

----------------------------------------------------------------------------
(* open_file() and the creation of links *)

(* Without support for links their target is the content of a file. *)
What(w) == IF e(w).mode = "symlink" /\ given.symlink THEN "link" ELSE "file"
IsExecutable(entry) == entry.mode = "exec" /\ given.executable_bit

(* A mode is for files that are new. *)
Opened(w) ==
  [kind |-> What(w), by |-> IF What(w) = "link" THEN {e(w).path} ELSE {},
   exec |-> IF fs[e(w).slot].kind = "file" THEN fs[e(w).slot].exec
            ELSE IsExecutable(e(w)) /\ given.initially_empty /\ worker[w].phase = "process"]

(* With delayed results the rest of the output is read once opening failed. *)
AfterFailure(w) == IF worker[w].phase = "delayed" THEN "drain" ELSE AfterEntry(w)

(* try_op_or_unlink().  A path that was listed before is empty, and is not opened. *)
open_file(w) ==
  LET slot == e(w).slot
  IN /\ result # "Err" /\ worker[w].pc \in {"open", "reopen"}
     /\ CASE ~worker[w].valid \/ ~IsReachable(slot) ->
               handle_error(w, AfterFailure(w)) /\ UNCHANGED <<fs, through>>
          [] worker[w].valid /\ IsReachable(slot) /\ Free(slot, What(w)) ->
               /\ fs' = [fs EXCEPT ![slot] = Opened(w)]
               /\ through' = (through \/ IsBehindLink(slot))
               /\ worker' = [worker EXCEPT ![w].pc = "finish", ![w].handle = TRUE]
               /\ UNCHANGED <<out, result>>
          [] worker[w].valid /\ IsReachable(slot) /\ ~Free(slot, What(w))
             /\ given.overwrite /\ worker[w].pc = "open" ->
               Goto(w, "unlink") /\ UNCHANGED <<fs, through, out, result>>
          [] OTHER -> Collide(w, AfterFailure(w)) /\ UNCHANGED <<fs, through>>
     /\ UNCHANGED <<given, next, driver, links, interrupted, stale>>

(* symlink_metadata() of what is in the way, ... *)
unlink_metadata(w) ==
  LET slot == e(w).slot
  IN /\ result # "Err" /\ worker[w].pc = "unlink"
     /\ IF fs[slot].kind = "none" THEN handle_error(w, AfterFailure(w))
        ELSE /\ worker' = [worker EXCEPT ![w].pc = "remove", ![w].is_dir = (fs[slot].kind = "dir")]
             /\ UNCHANGED <<out, result>>
     /\ UNCHANGED <<given, next, driver, fs, links, interrupted, ghosts>>

(* ... and try_unlink_path_recursively(), which fails if there is nothing by now, or
   something else. *)
unlink(w) ==
  LET slot == e(w).slot
      is_dir == worker[w].is_dir
  IN /\ result # "Err" /\ worker[w].pc = "remove"
     /\ CASE fs[slot].kind = "none" \/ (is_dir /\ fs[slot].kind = "file") ->
               handle_error(w, AfterFailure(w)) /\ UNCHANGED fs
          [] ~is_dir /\ fs[slot].kind = "dir" ->
               Collide(w, AfterFailure(w)) /\ UNCHANGED fs
          [] OTHER -> Unlink(w, slot, "reopen") /\ UNCHANGED <<out, result>>
     /\ UNCHANGED <<given, next, driver, links, interrupted, ghosts>>

----------------------------------------------------------------------------
(* The content is written, and finalize_entry() *)

Key(w) == IF worker[w].phase = "delayed" THEN worker[w].key ELSE e(w).driver
Client(w) == driver[w][Key(w)]

(* A file that might have existed is made executable by its path, whatever is there
   by now; what was delayed never is. *)
ChangesMode(w) ==
  IsExecutable(e(w)) /\ worker[w].phase = "process" /\ ~given.initially_empty

Finalized(w) ==
  [fs EXCEPT ![e(w).slot] =
     [@ EXCEPT !.by = IF What(w) = "file" /\ worker[w].handle THEN @ \union {e(w).path} ELSE @,
               !.exec = @ \/ ChangesMode(w)]]

Written(w) ==
  /\ fs' = Finalized(w)
  /\ out' = [out EXCEPT !.written = @ \union {worker[w].cur}, !.files = @ + 1]
  /\ worker' = [worker EXCEPT ![w].pc = AfterEntry(w), ![w].handle = FALSE]
  /\ UNCHANGED result

(* A driver that fails in the end leaves a file with what it wrote so far. *)
WriteFails(w) ==
  /\ UNCHANGED fs
  /\ IF worker[w].phase = "delayed" THEN Abort(w) /\ UNCHANGED out
     ELSE handle_error(w, AfterEntry(w))
Finish(w) ==
  IF ChangesMode(w) /\ fs[e(w).slot].kind = "none" THEN WriteFails(w) ELSE Written(w)

finish(w) ==
  /\ result # "Err" /\ worker[w].pc = "finish"
  /\ CASE worker[w].reader = "buffer" -> Finish(w) /\ UNCHANGED driver
       [] worker[w].reader = "child" ->
            (Finish(w) \/ (given.dies /\ WriteFails(w))) /\ UNCHANGED driver
       [] worker[w].reader = "process" ->
            \/ /\ SetClient(w, Key(w), Drained(Client(w)))
               /\ IF EndsWell(Client(w)) THEN Finish(w) ELSE WriteFails(w)
            \/ given.dies /\ SetClient(w, Key(w), Dead(Client(w))) /\ WriteFails(w)
  /\ UNCHANGED <<given, next, links, interrupted, ghosts>>

----------------------------------------------------------------------------
(* process_delayed_filter_results() *)

next_key(w) ==
  /\ result # "Err" /\ worker[w].pc = "keys" /\ worker[w].keys # {}
  /\ \E key \in worker[w].keys :
       worker' = [worker EXCEPT ![w].pc = "list", ![w].key = key, ![w].keys = @ \ {key}]
  /\ UNCHANGED <<given, next, driver, fs, out, links, result, interrupted, ghosts>>

(* A process lists some of what it owes, or claims that there is nothing left.  It may
   list a path that was never sent to it, or one that it has listed already. *)
Lists(c) ==
  {paths \in SUBSET c.pending : paths = {} => c.pending = {} \/ given.forgets}

Listed(c, paths, status) == c.stdout \o SetToSeq(paths) \o <<"flush", status, "flush">>
ListedPaths(q) == {p \in ToSet(SubSeq(q, 1, FirstFlush(q) - 1)) : IsPath(p)}

(* Mutant: an empty list is not the end. *)
list_delayed_paths_forever(w, status) ==
  LET key == worker[w].key
      c == driver[w][key]
  IN /\ result # "Err" /\ worker[w].pc = "list" /\ c.running /\ status = "success"
     /\ SeeStale(c)
     /\ \E paths \in Lists(c) :
          /\ SetClient(w, key, [c EXCEPT !.pending = @ \ paths])
          /\ worker' = [worker EXCEPT ![w].listed = paths, ![w].pc = "listed"]
     /\ UNCHANGED <<given, next, fs, out, links, result, interrupted, through>>

(* Lines that are no paths are skipped, then there is the status. *)
list_delayed_paths(w, status) ==
  LET key == worker[w].key
      c == driver[w][key]
  IN /\ result # "Err" /\ worker[w].pc = "list" /\ c.running /\ ~c.dead
     /\ SeeStale(c)
     /\ \E paths \in Lists(c) :
          LET q == Listed(c, paths, status)
              read == read_status(AfterFlush(q))
              d == [c EXCEPT !.pending = (@ \ paths) \union (paths \intersect c.again),
                             !.again = @ \ paths, !.stdout = AfterFlush(AfterFlush(q))]
          IN IF is_success(read)
               THEN /\ SetClient(w, key, d)
                    /\ worker' = [worker EXCEPT ![w].listed = ListedPaths(q),
                                    ![w].pc = IF ListedPaths(q) = {} THEN "keys" ELSE "listed"]
                    /\ UNCHANGED result
               ELSE /\ SetClient(w, key, IF read \in {"error", "abort"} THEN d ELSE Stopped)
                    /\ Abort(w)
     /\ UNCHANGED <<given, next, fs, out, links, interrupted, through>>

(* The process is not there anymore, or its pipes are broken. *)
list_fails(w) ==
  LET key == worker[w].key
  IN /\ result # "Err" /\ worker[w].pc = "list"
     /\ \/ ~driver[w][key].running /\ UNCHANGED driver
        \/ driver[w][key].running /\ given.dies /\ SetClient(w, key, Stopped)
     /\ Abort(w)
     /\ UNCHANGED <<given, next, fs, out, links, interrupted, ghosts>>

Known(w, path) == {i \in worker[w].delayed : Entry[i].path = path}

unknown_path(w) ==
  \E path \in worker[w].listed :
    /\ result # "Err" /\ worker[w].pc = "listed" /\ Known(w, path) = {}
    /\ IF given.keep_going
         THEN /\ worker' = [worker EXCEPT ![w].listed = @ \ {path},
                              ![w].unknown_paths = @ \union {path}]
              /\ UNCHANGED result
         ELSE Abort(w)
    /\ UNCHANGED <<given, next, driver, fs, out, links, interrupted, ghosts>>


(* The path is marked as seen when its result is about to be written. *)
fetch_delayed(w, what) ==
  \E path \in worker[w].listed :
    LET key == worker[w].key
        c == driver[w][key]
        i == CHOOSE i \in Known(w, path) : TRUE
    IN /\ result # "Err" /\ worker[w].pc = "listed" /\ Known(w, path) # {} /\ c.running /\ ~c.dead
       /\ SetClient(w, key, Invoked(c, what, {"error"}))
       /\ SeeStale(c)
       /\ IF is_success(Status(c, what))
            THEN /\ worker' = [worker EXCEPT ![w].pc = "open", ![w].cur = i,
                                 ![w].reader = "process", ![w].valid = (i \in worker[w].unseen),
                                 ![w].unseen = @ \ {i}, ![w].listed = @ \ {path}]
                 /\ UNCHANGED result
            ELSE Abort(w)
       /\ UNCHANGED <<given, next, fs, links, interrupted, through, out>>

fetch_io_error(w) ==
  /\ result # "Err" /\ worker[w].pc = "listed" /\ given.dies
  /\ \E path \in worker[w].listed : Known(w, path) # {}
  /\ SetClient(w, worker[w].key, Stopped)
  /\ Abort(w)
  /\ UNCHANGED <<given, next, fs, out, links, interrupted, ghosts>>

(* What cannot be written is read nonetheless. *)
drain(w) ==
  /\ result # "Err" /\ worker[w].pc = "drain"
  /\ \/ /\ SetClient(w, worker[w].key, Drained(Client(w)))
        /\ IF EndsWell(Client(w)) THEN Goto(w, "listed") /\ UNCHANGED result ELSE Abort(w)
     \/ given.dies /\ SetClient(w, worker[w].key, Dead(Client(w))) /\ Abort(w)
  /\ UNCHANGED <<given, next, fs, out, links, interrupted, ghosts>>

(* All that was listed is done: ask again. *)
list_again(w) ==
  /\ result # "Err" /\ worker[w].pc = "listed" /\ worker[w].listed = {}
  /\ Goto(w, "list")
  /\ UNCHANGED <<given, next, driver, fs, out, links, result, interrupted, ghosts>>

(* Mutant: what was never listed is not reported. *)
delayed_done_silently(w) ==
  /\ result # "Err" /\ worker[w].pc = "keys" /\ worker[w].keys = {}
  /\ Goto(w, "done")
  /\ UNCHANGED <<given, next, driver, fs, out, links, result, interrupted, ghosts>>

(* What was never listed is reported.  It would be an error without keep_going if there
   were unknown paths, but the first one is an error already. *)
delayed_done(w) ==
  LET done == worker[w]
  IN /\ result # "Err" /\ done.pc = "keys" /\ done.keys = {}
     /\ IF ~given.keep_going /\ done.unknown_paths # {} THEN Abort(w) /\ UNCHANGED out
        ELSE /\ out' = [out EXCEPT !.unknown = @ \union done.unknown_paths,
                                   !.unprocessed = @ \union done.unseen]
             /\ Goto(w, "done") /\ UNCHANGED result
     /\ UNCHANGED <<given, next, driver, fs, links, interrupted, ghosts>>

----------------------------------------------------------------------------
(* checkout_inner(): the links, once all threads are done *)

AllDone == \A w \in Worker \ {0} : worker[w].pc = "done"

joined ==
  /\ AllDone /\ worker[Main].phase # "links" /\ result # "Err"
  /\ IF result = "failing"
       THEN result' = "Err" /\ UNCHANGED worker
       ELSE /\ worker' = [worker EXCEPT ![Main].phase = "links", ![Main].pc = "links",
                            ![Main].valid = TRUE]
            /\ UNCHANGED result
  /\ UNCHANGED <<given, next, driver, fs, out, links, interrupted, ghosts>>

checkout_link ==
  /\ worker[Main].pc = "links" /\ links # <<>> /\ result # "Err"
  /\ worker' = [worker EXCEPT ![Main].pc = "enter", ![Main].cur = Head(links)]
  /\ links' = Tail(links)
  /\ UNCHANGED <<given, next, driver, fs, out, result, interrupted, ghosts>>

return_outcome ==
  /\ worker[Main].pc = "links" /\ links = <<>> /\ result = "running"
  /\ result' = "Ok"
  /\ Goto(Main, "done")
  /\ UNCHANGED <<given, next, driver, fs, out, links, interrupted, ghosts>>

interrupt ==
  /\ given.interrupts /\ ~interrupted /\ result = "running"
  /\ interrupted' = TRUE
  /\ UNCHANGED <<given, next, worker, driver, fs, out, links, result, ghosts>>

----------------------------------------------------------------------------

NewWorker(w) ==
  [pc |-> IF w = 0 THEN "done" ELSE "take", phase |-> "process", cur |-> 1, current |-> <<>>,
   todo |-> <<>>, reader |-> "buffer", handle |-> FALSE, valid |-> TRUE, is_dir |-> FALSE,
   delayed |-> {}, unseen |-> {}, keys |-> {}, key |-> None, listed |-> {},
   unknown_paths |-> {}]

NoOutcome ==
  [files |-> 0, collisions |-> {}, errors |-> {}, written |-> {}, unknown |-> {},
   unprocessed |-> {}]

Init ==
  /\ given \in Scenario
  /\ next = 1
  /\ worker = [w \in Worker |-> NewWorker(w)]
  /\ driver = [w \in Worker |-> [k \in given.keys |-> Stopped]]
  /\ fs = given.fs
  /\ out = NoOutcome
  /\ links = <<>> /\ result = "running" /\ interrupted = FALSE
  /\ through = FALSE /\ stale = FALSE

Step(w) ==
  \/ process(w) \/ processed(w) \/ at_path(w)
  \/ create_leading_directory(w) \/ is_leading_directory(w) \/ unlink_leading(w)
  \/ skip_directory(w) \/ find_fails(w) \/ convert(w) \/ convert_fails(w) \/ apply_unsupported(w)
  \/ \E what \in given.answers : apply_delayed(w, what) \/ fetch_delayed(w, what)
  \/ \E status \in {"success"} \union (given.answers \ {"delayed", "fails"}) :
       list_delayed_paths(w, status)
  \/ apply_io_error(w) \/ open_file(w) \/ unlink_metadata(w) \/ unlink(w) \/ finish(w)
  \/ next_key(w) \/ list_fails(w) \/ unknown_path(w)
  \/ fetch_io_error(w) \/ drain(w) \/ list_again(w) \/ delayed_done(w)

Next == (\E w \in Worker : Step(w)) \/ joined \/ checkout_link \/ return_outcome \/ interrupt

(* Threads are scheduled, and so is the calling thread. *)
Fairness == (\A w \in 0..2 : WF_vars(w \in Worker /\ Step(w))) /\ WF_vars(joined \/ checkout_link \/ return_outcome)

Spec == Init /\ [][Next]_vars /\ Fairness

----------------------------------------------------------------------------
(* Properties *)

TypeOK ==
  /\ next \in 1..(Len(Entry) + 1)
  /\ result \in {"running", "failing", "Ok", "Err"}
  /\ \A w \in Worker :
       /\ worker[w].unseen \subseteq worker[w].delayed
       /\ worker[w].cur \in 1..(Len(Entry) + 1)
  /\ \A s \in DOMAIN fs : fs[s].kind \in {"none", "file", "dir", "link"}

(* No path of the index is the directory of another one, as git demands. *)
IsConsistent ==
  \A i, j \in DOMAIN Entry : Entry[j].dir # None => Entry[j].dir.name # Entry[i].path

(* Stack::at_path, "assuring that no symlinks are in that path": nothing is created behind
   a symbolic link, though what is on disk is not looked at again for entries in the same
   directory.  Links are created when all else is done, and the directories of links are
   looked at after each other link, unless an index has a link and entries below its very
   path: the stack then takes the link for the directory it has just been in. *)
NotThroughLinks == IsConsistent => ~through

Complete == result = "Ok" /\ ~interrupted

(* No other entry is at the same place, above or below. *)
Alone(i) ==
  \A j \in DOMAIN Entry \ {i} :
    /\ Entry[j].slot \notin {Entry[i].slot, Parent(Entry[i].slot)}
    /\ Parent(Entry[j].slot) # Entry[i].slot
    /\ Entry[j].dir # None => Entry[j].dir.slot # Entry[i].slot
WasDelayed(i) == \E w \in Worker : i \in worker[w].delayed


(* The counter for files ends at the number of entries, without those that a filter
   process forgot and with those that it listed twice. *)
EveryEntryIsCounted ==
  Complete => out.files + Cardinality(out.unprocessed) =
              Len(Entry) + Cardinality(out.errors \intersect (out.written \union out.collisions))

(* driver::apply::MaybeDelayed: a result is read to its end before its process is
   asked for something else. *)
ResultsAreConsumed == ~stale

(* checkout() returns, provided that filter processes answer. *)
Terminates == <>(result \in {"Ok", "Err"})
=============================================================================
