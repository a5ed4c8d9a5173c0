---------------------------- MODULE FileSnapshot ----------------------------
(***************************************************************************)
(* SharedFileSnapshotMut of gix-fs: the parsed content of a file that the  *)
(* threads of a process share, and reload when the modification time of    *)
(* the file says so.  packed-refs, the index, .gitmodules and the shallow  *)
(* file are read through it, while other processes replace or remove them. *)
(***************************************************************************)
EXTENDS Naturals, Sequences

CONSTANTS Reader,    \* threads
          Absent,    \* there is no file, no snapshot, no thread
          Histories  \* what happens to the file: states, precise, calls

VARIABLES file,    \* how far the history of the file has come
          state,   \* the shared snapshot: modified, value; or Absent
          writer,  \* the thread that has locked the snapshot to change it
          reader,  \* the threads
          floor,   \* the latest state that force_refresh has loaded
          history  \* of this behaviour

vars == <<file, state, writer, reader, floor, history>>

(* A state of the file is Absent or its modification time.  Its content is the
   number of the state, so that no two states have the same content. *)
mtime == history.states[file]

Fresh(call) == [pc |-> "idle", call |-> call, since |-> 0, overlaps |-> 0, floor |-> 0,
                modified |-> Absent, result |-> Absent, is |-> "none"]

(* The file when the earliest of the calls started that go on now *)
Active == {u \in Reader : reader[u].pc \notin {"idle", "returned"}}
Earliest == CHOOSE i \in 1..file :
              /\ i = file \/ \E u \in Active : reader[u].since = i
              /\ \A u \in Active : i <= reader[u].since

At(t, pc)   == reader[t].pc = pc
Goto(t, pc) == reader' = [reader EXCEPT ![t].pc = pc]

(* What a call returns, and the lock with it *)
Return(t, is, snapshot) ==
  reader' = [reader EXCEPT ![t].pc = "returned", ![t].is = is, ![t].result = snapshot]

----------------------------------------------------------------------------

call(t) ==
  /\ reader[t].pc \in {"idle", "returned"}
  /\ reader[t].call < Len(history.calls[t])
  /\ reader' = [reader EXCEPT ![t] = [Fresh(reader[t].call + 1) EXCEPT
                  !.pc = history.calls[t][reader[t].call + 1],
                  !.since = file, !.overlaps = Earliest, !.floor = floor]]
  /\ UNCHANGED <<file, state, writer, floor, history>>

(* Mutant: a snapshot is taken for current if it is from a later time. *)
recent_snapshot_swapped(t) ==
  /\ At(t, "recent_snapshot") /\ writer = Absent
  /\ IF state = Absent /\ mtime = Absent THEN Return(t, "ok", Absent)
     ELSE IF state # Absent /\ mtime # Absent /\ state.modified <= mtime
       THEN Return(t, "ok", state)
     ELSE Goto(t, IF mtime = Absent THEN "clear" ELSE IF state = Absent THEN "load" ELSE "reload")
  /\ UNCHANGED <<file, state, writer, floor, history>>

(* The snapshot and the modification time are read under the shared lock, which
   is dropped if something has to change. *)
recent_snapshot(t) ==
  /\ At(t, "recent_snapshot") /\ writer = Absent
  /\ IF state = Absent /\ mtime = Absent THEN Return(t, "ok", Absent)
     ELSE IF state # Absent /\ mtime # Absent /\ state.modified >= mtime
       THEN Return(t, "ok", state)
     ELSE Goto(t, IF mtime = Absent THEN "clear" ELSE IF state = Absent THEN "load" ELSE "reload")
  /\ UNCHANGED <<file, state, writer, floor, history>>

clear(t) ==
  /\ At(t, "clear") /\ writer = Absent
  /\ state' = Absent
  /\ Return(t, "ok", Absent)
  /\ UNCHANGED <<file, writer, floor, history>>

(* With the exclusive lock: is the situation still the same? *)
check_again(t) ==
  LET same == mtime # Absent /\ ((state = Absent) = At(t, "load"))
  IN /\ reader[t].pc \in {"load", "reload"} /\ writer = Absent
     /\ IF same
          THEN /\ reader' = [reader EXCEPT ![t].pc = "open", ![t].modified = mtime]
               /\ writer' = t
          ELSE Return(t, "ok", state) /\ UNCHANGED writer
     /\ UNCHANGED <<file, state, floor, history>>

(* Mutant: the modification time is read after the file was opened. *)
open_before_mtime(t) ==
  LET opened == IF mtime = Absent THEN Absent
                ELSE [modified |-> history.states[Len(history.states)], value |-> file]
  IN /\ At(t, "open")
     /\ state' = opened /\ writer' = Absent
     /\ Return(t, "ok", opened)
     /\ UNCHANGED <<file, floor, history>>

(* The file is opened after its modification time was read, and may be another
   one by then, or gone. *)
open(t) ==
  LET opened == IF mtime = Absent THEN Absent
                ELSE [modified |-> reader[t].modified, value |-> file]
  IN /\ At(t, "open")
     /\ state' = opened /\ writer' = Absent
     /\ Return(t, "ok", opened)
     /\ UNCHANGED <<file, floor, history>>

open_fails(t) ==
  /\ reader[t].pc \in {"open", "refresh_open"}
  /\ writer' = Absent
  /\ Return(t, "error", Absent)
  /\ UNCHANGED <<file, state, floor, history>>

force_refresh(t) ==
  /\ At(t, "force_refresh") /\ writer = Absent
  /\ IF mtime = Absent
       THEN Return(t, "error", Absent) /\ UNCHANGED writer
       ELSE /\ reader' = [reader EXCEPT ![t].pc = "refresh_open", ![t].modified = mtime]
            /\ writer' = t
  /\ UNCHANGED <<file, state, floor, history>>

refresh_open(t) ==
  LET opened == IF mtime = Absent THEN Absent
                ELSE [modified |-> reader[t].modified, value |-> file]
  IN /\ At(t, "refresh_open")
     /\ state' = opened /\ writer' = Absent
     /\ floor' = IF opened = Absent THEN floor ELSE file
     /\ Return(t, "refreshed", Absent)
     /\ UNCHANGED <<file, history>>

(* Other processes, or this one, replace or remove the file. *)
replace_file ==
  /\ file < Len(history.states)
  /\ file' = file + 1
  /\ UNCHANGED <<state, writer, reader, floor, history>>

----------------------------------------------------------------------------

Init ==
  /\ history \in Histories
  /\ file = 1 /\ state = Absent /\ writer = Absent /\ floor = 0
  /\ reader = [t \in Reader |-> Fresh(0)]

ReaderStep(t) ==
  \/ call(t) \/ recent_snapshot(t) \/ clear(t) \/ check_again(t) \/ open(t)
  \/ open_fails(t) \/ force_refresh(t) \/ refresh_open(t)

Next == replace_file \/ \E t \in Reader : ReaderStep(t)

Spec == Init /\ [][Next]_vars

----------------------------------------------------------------------------
(* Properties *)

(* A snapshot holds a state the file has had by now, and a modification time no
   later than that of the state it holds. *)
TypeOK ==
  /\ file \in 1..Len(history.states) /\ writer \in Reader \union {Absent}
  /\ state # Absent =>
       /\ state.value \in 1..file /\ history.states[state.value] # Absent
       /\ state.modified <= history.states[state.value]
  /\ \A t \in Reader : writer = t <=> reader[t].pc \in {"open", "refresh_open"}

Got(t) == reader[t].pc = "returned" /\ reader[t].is = "ok"

(* "A snapshot that is up-to-date in that very moment": what a call returns was
   the content of the file at some time during that call, however many threads
   reload it, if the modification time tells the states of the file apart and the
   file was not removed meanwhile. *)
SnapshotIsRecent ==
  \A t \in Reader :
    /\ Got(t) /\ reader[t].result # Absent /\ history.precise
    /\ \A i \in reader[t].since..file : history.states[i] # Absent
    => reader[t].result.value >= reader[t].since

(* Whatever the modification times, a call that starts after a forced refresh does
   not return an older state than that refresh has loaded. *)
RefreshIsSeen ==
  \A t \in Reader : Got(t) /\ reader[t].result # Absent =>
    reader[t].result.value >= reader[t].floor

(* A call says that there is no file only if there was none at some time during
   that call, or during another that had not returned when it began. *)
AbsentOnlyIfRemoved ==
  \A t \in Reader : Got(t) /\ reader[t].result = Absent =>
    \E i \in reader[t].overlaps..file : history.states[i] = Absent
=============================================================================
