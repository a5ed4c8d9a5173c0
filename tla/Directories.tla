---------------------------- MODULE Directories ----------------------------
(***************************************************************************)
(* Creation of nested directories by gix-fs while others remove them, and  *)
(* removal of empty directories: upwards until a boundary, or depth first. *)
(*                                                                         *)
(* The directories are a chain: directory d is in directory d - 1, and 0   *)
(* is there all the time.                                                  *)
(***************************************************************************)
EXTENDS Naturals, Sequences

CONSTANTS Depth,    \* the length of the chain
          Process,  \* processes that create or remove
          MaxCount, \* removals are counted up to here
          Setups    \* fs, tasks: for each process what it does; disturbed

VARIABLES fs,        \* what is at each place: "none", "dir" or "file"
          process,   \* the processes
          removals,  \* how many directories were removed
          setup      \* of this behaviour

vars == <<fs, process, removals, setup>>

Dir == 1..Depth

Kind(d) == IF d = 0 THEN "dir" ELSE IF d \in Dir THEN fs[d] ELSE "none"

IsDir(d)   == Kind(d) = "dir"
Exists(d)  == Kind(d) # "none"
IsEmpty(d) == ~Exists(d + 1)

Task(p)     == setup.tasks[p]
At(p, pc)   == process[p].pc = pc
Top(p)      == process[p].stack[Len(process[p].stack)]
Pop(stack)  == SubSeq(stack, 1, Len(stack) - 1)
End(p, pc)  == process' = [process EXCEPT ![p].pc = pc, ![p].stack = <<>>]

Counted == IF removals < MaxCount THEN removals + 1 ELSE removals

(* The effect of a successful remove_dir *)
Removed(d) == fs' = [fs EXCEPT ![d] = "none"] /\ removals' = Counted
CanRemove(d) == fs[d] = "dir" /\ IsEmpty(d)

----------------------------------------------------------------------------
(* create::Iter and create::all.  The stack holds the cursors. *)

(* A directory was there or was created. *)
Success(p) ==
  [process[p] EXCEPT !.pc = "next", !.stack = Pop(@), !.creating = TRUE,
                     !.made = @ \/ Top(p) = Task(p).dir]

create_dir(p) ==
  /\ At(p, "next") /\ process[p].stack # <<>>
  /\ IsDir(Top(p) - 1)
  /\ IF Exists(Top(p))
       THEN /\ process' = [process EXCEPT ![p].pc = "already_exists"]
            /\ UNCHANGED fs
       ELSE /\ fs' = [fs EXCEPT ![Top(p)] = "dir"]
            /\ process' = [process EXCEPT ![p] = Success(p)]
  /\ UNCHANGED <<removals, setup>>

(* is_dir() is asked later than create_dir(). *)
already_exists(p) ==
  /\ At(p, "already_exists")
  /\ IF IsDir(Top(p)) THEN process' = [process EXCEPT ![p] = Success(p)]
     ELSE End(p, "AlreadyExists")
  /\ UNCHANGED <<fs, removals, setup>>

(* Mutant: the first counter is not set back. *)
not_found_keeps_count(p) ==
  LET me == process[p]
      entire == IF me.creating THEN me.to_create_entire_directory - 1
                ELSE me.to_create_entire_directory
      failure == me.on_create_directory_failure - 1
  IN /\ At(p, "next") /\ me.stack # <<>> /\ ~Exists(Top(p) - 1)
     /\ IF entire < 1 \/ failure < 1 THEN End(p, "NotFound")
        ELSE process' = [process EXCEPT ![p] =
               [me EXCEPT !.stack = Append(@, Top(p) - 1), !.creating = FALSE,
                          !.to_create_entire_directory = entire,
                          !.on_create_directory_failure = failure]]
     /\ UNCHANGED <<fs, removals, setup>>

(* There is no parent: it has to be created first.  If it had been there, then
   the whole directory is tried again. *)
not_found(p) ==
  LET me == process[p]
      entire == IF me.creating THEN me.to_create_entire_directory - 1
                ELSE me.to_create_entire_directory
      failure == IF me.creating THEN Task(p).on_create_directory_failure
                 ELSE me.on_create_directory_failure - 1
  IN /\ At(p, "next") /\ me.stack # <<>> /\ ~Exists(Top(p) - 1)
     /\ IF entire < 1 \/ failure < 1 THEN End(p, "NotFound")
        ELSE process' = [process EXCEPT ![p] =
               [me EXCEPT !.stack = Append(@, Top(p) - 1), !.creating = FALSE,
                          !.to_create_entire_directory = entire,
                          !.on_create_directory_failure = failure]]
     /\ UNCHANGED <<fs, removals, setup>>

interrupted(p) ==
  LET left == process[p].on_interrupt - 1
  IN /\ At(p, "next") /\ process[p].stack # <<>> /\ setup.disturbed
     /\ IF left <= 1 THEN End(p, "Interrupted")
        ELSE process' = [process EXCEPT ![p].on_interrupt = left]
     /\ UNCHANGED <<fs, removals, setup>>

(* The parent is a file, which is an unexpected kind of error. *)
not_a_directory(p) ==
  /\ At(p, "next") /\ process[p].stack # <<>>
  /\ Exists(Top(p) - 1) /\ ~IsDir(Top(p) - 1)
  /\ End(p, "NotADirectory")
  /\ UNCHANGED <<fs, removals, setup>>

created_all(p) ==
  /\ At(p, "next") /\ process[p].stack = <<>>
  /\ End(p, "Ok")
  /\ UNCHANGED <<fs, removals, setup>>

Create(p) ==
  \/ create_dir(p) \/ already_exists(p) \/ not_found(p) \/ interrupted(p)
  \/ not_a_directory(p) \/ created_all(p)

----------------------------------------------------------------------------
(* remove::Iter and empty_upward_until_boundary.  The stack is the cursor. *)

upward_new(p) ==
  /\ At(p, "upward_new")
  /\ IF Exists(Task(p).dir) /\ Task(p).dir # Task(p).boundary
       THEN process' = [process EXCEPT ![p].pc = "upward", ![p].stack = <<Task(p).dir>>]
       ELSE End(p, "Ok")
  /\ UNCHANGED <<fs, removals, setup>>

(* A directory that is gone already is fine. *)
remove_upward(p) ==
  LET dir == Top(p)
  IN /\ At(p, "upward")
     /\ IF CanRemove(dir) THEN Removed(dir) ELSE UNCHANGED <<fs, removals>>
     /\ IF Exists(dir) /\ ~CanRemove(dir) THEN End(p, "Err")
        ELSE IF dir - 1 = Task(p).boundary THEN End(p, "Ok")
        ELSE process' = [process EXCEPT ![p].stack = <<dir - 1>>]
     /\ UNCHANGED setup

----------------------------------------------------------------------------
(* empty_depth_first *)

depth_first_new(p) ==
  /\ At(p, "depth_first_new")
  /\ IF CanRemove(Task(p).dir)
       THEN Removed(Task(p).dir) /\ End(p, "Ok")
       ELSE /\ process' = [process EXCEPT ![p].pc = "read_dir", ![p].stack = <<Task(p).dir>>]
            /\ UNCHANGED <<fs, removals>>
  /\ UNCHANGED setup

read_dir(p) ==
  /\ At(p, "read_dir")
  /\ IF process[p].stack = <<>> THEN End(p, "Ok")
     ELSE IF ~IsDir(Top(p)) \/ (~IsEmpty(Top(p)) /\ ~IsDir(Top(p) + 1)) THEN End(p, "Err")
     ELSE IF IsEmpty(Top(p)) THEN process' = [process EXCEPT ![p].pc = "remove_empty"]
     ELSE process' = [process EXCEPT ![p].stack = Append(@, Top(p) + 1)]
  /\ UNCHANGED <<fs, removals, setup>>

remove_empty(p) ==
  /\ At(p, "remove_empty")
  /\ IF CanRemove(Top(p))
       THEN /\ Removed(Top(p))
            /\ process' = [process EXCEPT ![p].pc = "read_dir", ![p].stack = Pop(@)]
       ELSE End(p, "Err") /\ UNCHANGED <<fs, removals>>
  /\ UNCHANGED setup

Remove(p) ==
  upward_new(p) \/ remove_upward(p) \/ depth_first_new(p) \/ read_dir(p) \/ remove_empty(p)

----------------------------------------------------------------------------

(* Other programs remove directories, too. *)
others_remove ==
  /\ setup.disturbed
  /\ \E d \in Dir : CanRemove(d) /\ Removed(d)
  /\ UNCHANGED <<process, setup>>

StartOf(task) ==
  [pc |-> IF task.does = "create" THEN "next" ELSE task.does,
   stack |-> IF task.does = "create" THEN <<task.dir>> ELSE <<>>,
   creating |-> FALSE, made |-> FALSE,
   to_create_entire_directory |-> task.to_create_entire_directory,
   on_create_directory_failure |-> task.on_create_directory_failure,
   on_interrupt |-> task.on_interrupt]

Init ==
  /\ setup \in Setups
  /\ fs = setup.fs
  /\ process = [p \in Process |-> StartOf(setup.tasks[p])]
  /\ removals = 0

Step(p) == Create(p) \/ Remove(p)

Next == others_remove \/ \E p \in Process : Step(p)

Fairness == \A p \in Process : WF_vars(Step(p))

Spec == Init /\ [][Next]_vars /\ Fairness

----------------------------------------------------------------------------
(* Properties *)

Results == {"Ok", "Err", "AlreadyExists", "NotFound", "Interrupted", "NotADirectory"}

(* Retries do not underflow, and nothing exists outside of a directory. *)
TypeOK ==
  /\ fs \in [Dir -> {"none", "dir", "file"}] /\ removals \in 0..MaxCount
  /\ \A d \in Dir : Exists(d) => IsDir(d - 1)
  /\ \A p \in Process :
       /\ process[p].stack \in Seq(Dir)
       /\ process[p].to_create_entire_directory \in Nat
       /\ process[p].on_create_directory_failure \in Nat
       /\ process[p].on_interrupt \in Nat

Creators == {p \in Process : Task(p).does = "create"}

(* Creation succeeds only if the whole directory was there at some time. *)
SuccessIsADirectory == \A p \in Creators : At(p, "Ok") => process[p].made

(* "This count combats racy situations where another process is trying to remove a
   directory that we want to create": with retries for the depth of the directory,
   creation that ends because a parent is missing has met at least as many removals
   as it may start over.  The count is of no use when the directory is removed
   between create_dir, which finds it there, and is_dir: then a single removal ends
   creation as if there was a file, with all retries left.  Without any removal it
   takes a file for that. *)
CreationWins ==
  \A p \in Creators :
    /\ At(p, "NotFound") /\ Task(p).on_create_directory_failure >= Task(p).dir =>
         removals >= Task(p).to_create_entire_directory
    /\ At(p, "AlreadyExists") /\ removals = 0 => \E d \in 1..Task(p).dir : fs[d] = "file"

(* Everybody comes to an end, though others go on removing for as long as they
   like: a creator runs out of retries, and those who remove out of directories. *)
Terminates == <>(\A p \in Process : process[p].pc \in Results)
=============================================================================
