------------------------------ MODULE PathStack ------------------------------
(***************************************************************************)
(* gix_fs::Stack, a current path that is moved to another with as few      *)
(* steps as possible, and the delegate of gix_worktree::Stack that keeps   *)
(* one list of attributes and one list of ignore patterns per directory    *)
(* of the current path.                                                    *)
(*                                                                         *)
(* A path is a sequence of components, a directory the path that leads to  *)
(* it.  The delegate may refuse a component (it is invalid, or no          *)
(* directory can be created) and it may fail to read the attributes or     *)
(* ignore patterns of a directory.  Callers go on with the next path.      *)
(***************************************************************************)
EXTENDS Naturals, Sequences, SequencesExt, FiniteSets

CONSTANTS Walks,     \* sequences of paths, in the order in which they are visited
          MaxFaults  \* how often the delegate may fail

VARIABLES walk,                 \* the paths that are still to be visited
          current,              \* the current path
          current_is_directory, \* whether its last component was pushed as directory
          attributes,           \* directories with a list of attributes
          matched,              \* directories in matched_directory_patterns_stack
          patterns,             \* directories with a list of ignore patterns
          refused,              \* how many components were refused
          unread,               \* how many directories could not be read
          panicked              \* "something to pop"

delegate == <<attributes, matched, patterns>>
vars == <<walk, current, current_is_directory, delegate, refused, unread, panicked>>

Root == <<>>

(* What the delegate has, as a record. *)
Held == [attributes |-> attributes, matched |-> matched, patterns |-> patterns]

----------------------------------------------------------------------------
(* The delegate *)

push_directory(d, dir) ==
  [attributes |-> Append(d.attributes, dir), matched |-> Append(d.matched, dir),
   patterns |-> Append(d.patterns, dir)]

(* Attributes come first, then the directory is matched against the patterns
   of its parents, then its own patterns are read. *)
Unreadable == {"attributes", "patterns"}
push_directory_fails(d, dir, what) ==
  IF what = "attributes" THEN d
  ELSE [d EXCEPT !.attributes = Append(@, dir), !.matched = Append(@, dir)]

CanPop(d, n) == \A f \in DOMAIN d : Len(d[f]) >= n
pop_directories(d, n) == [f \in DOMAIN d |-> SubSeq(d[f], 1, Len(d[f]) - n)]

----------------------------------------------------------------------------
(* make_relative_path_current *)

Matching(relative) == LongestCommonPrefix({current, relative})

Ancestors(path, from, to) == [i \in 1..(to - from + 1) |-> SubSeq(path, 1, from + i - 1)]
PushAll(d, dirs) == FoldLeft(push_directory, d, dirs)


(* How many of the components that go were pushed as directories. *)
Popped(n) == IF n > 0 /\ ~current_is_directory THEN n - 1 ELSE n

(* The delegate once the components that do not lead to relative are gone.
   The root is pushed while there is no component.  What was pushed as a file
   is a directory once it has children. *)
Entered == IF current = Root THEN push_directory(Held, Root) ELSE Held
gone(relative) == Len(current) - Len(Matching(relative))
Returned(relative) ==
  LET kept == Matching(relative)
      n == gone(relative)
      d == pop_directories(Entered, Popped(n))
      is_directory == n > 0 \/ current_is_directory
  IN IF ~is_directory /\ Len(relative) > Len(kept) THEN push_directory(d, kept) ELSE d

(* Whether the last component that is left counts as directory. *)
IsDirectory(relative) == gone(relative) > 0 \/ current_is_directory

Set(d) == /\ attributes' = d.attributes
          /\ matched' = d.matched
          /\ patterns' = d.patterns

Visit(relative) == walk # <<>> /\ ~panicked /\ relative = Head(walk) /\ walk' = Tail(walk)

(* Mutant: nothing is popped for the component that is left for a sibling. *)
make_relative_path_current_keeps(relative) ==
  LET kept == Len(Matching(relative))
  IN /\ Visit(relative) /\ CanPop(Entered, Popped(gone(relative)))
     /\ Set(PushAll(pop_directories(Entered, IF gone(relative) > 1 THEN Popped(gone(relative)) - 1 ELSE 0),
                    Ancestors(relative, kept + 1, Len(relative) - 1)))
     /\ current' = relative
     /\ current_is_directory' =
          IF Len(relative) > kept THEN FALSE ELSE IsDirectory(relative)
     /\ UNCHANGED <<refused, unread, panicked>>

make_relative_path_current(relative) ==
  LET kept == Len(Matching(relative))
  IN /\ Visit(relative) /\ CanPop(Entered, Popped(gone(relative)))
     /\ Set(PushAll(Returned(relative), Ancestors(relative, kept + 1, Len(relative) - 1)))
     /\ current' = relative
     /\ current_is_directory' =
          IF Len(relative) > kept THEN FALSE ELSE IsDirectory(relative)
     /\ UNCHANGED <<refused, unread, panicked>>

(* The delegate refuses component k.  A directory was given to it by then, and is
   not taken back. *)
push_fails(relative, k) ==
  LET kept == Len(Matching(relative))
  IN /\ Visit(relative) /\ CanPop(Entered, Popped(gone(relative)))
     /\ k \in (kept + 1)..Len(relative) /\ refused + unread < MaxFaults
     /\ Set(PushAll(Returned(relative),
                    Ancestors(relative, kept + 1, IF k < Len(relative) THEN k ELSE k - 1)))
     /\ current' = SubSeq(relative, 1, k - 1)
     /\ current_is_directory' = (k < Len(relative))
     /\ refused' = refused + 1
     /\ UNCHANGED <<unread, panicked>>

(* Directory k cannot be read.  The component stays. *)
directory_fails(relative, k, what) ==
  LET kept == Len(Matching(relative))
  IN /\ Visit(relative) /\ CanPop(Entered, Popped(gone(relative)))
     /\ k \in (kept + 1)..(Len(relative) - 1) /\ refused + unread < MaxFaults
     /\ Set(push_directory_fails(PushAll(Returned(relative), Ancestors(relative, kept + 1, k - 1)),
                                 SubSeq(relative, 1, k), what))
     /\ current' = SubSeq(relative, 1, k)
     /\ current_is_directory' = TRUE
     /\ unread' = unread + 1
     /\ UNCHANGED <<refused, panicked>>

(* The directory that is entered first cannot be read: the root, or one that was
   pushed as a file.  Nothing else has changed by then. *)
enter_fails(relative, what) ==
  /\ Visit(relative) /\ refused + unread < MaxFaults
  /\ \/ /\ current = Root
        /\ Set(push_directory_fails(Held, Root, what))
     \/ /\ gone(relative) = 0 /\ ~current_is_directory /\ Len(relative) > Len(current)
        /\ Set(push_directory_fails(Entered, current, what))
  /\ unread' = unread + 1
  /\ UNCHANGED <<current, current_is_directory, refused, panicked>>

(* expect("something to pop") *)
pop_fails(relative) ==
  /\ Visit(relative) /\ ~CanPop(Entered, Popped(gone(relative)))
  /\ panicked' = TRUE
  /\ UNCHANGED <<current, current_is_directory, delegate, refused, unread>>

Init ==
  /\ walk \in Walks
  /\ current = Root /\ current_is_directory = TRUE
  /\ attributes = <<>> /\ matched = <<>> /\ patterns = <<>>
  /\ refused = 0 /\ unread = 0 /\ panicked = FALSE

Next ==
  \E relative \in ToSet(walk) :
    \/ make_relative_path_current(relative)
    \/ \E k \in 1..Len(relative) :
         \/ push_fails(relative, k)
         \/ \E what \in Unreadable : directory_fails(relative, k, what)
    \/ \E what \in Unreadable : enter_fails(relative, what)
    \/ pop_fails(relative)

Spec == Init /\ [][Next]_vars

----------------------------------------------------------------------------
(* Properties *)

TypeOK ==
  /\ current_is_directory \in BOOLEAN /\ panicked \in BOOLEAN
  /\ refused \in 0..MaxFaults /\ unread \in 0..MaxFaults

(* The directories that apply to the current path, the root first. *)
Directories ==
  IF attributes = <<>> THEN <<>>
  ELSE Ancestors(current, 0, IF current_is_directory THEN Len(current) ELSE Len(current) - 1)

(* What of the first is not in the second, in this order. *)
Found(wanted, list) ==
  FoldLeft(LAMBDA rest, x : IF rest # <<>> /\ Head(rest) = x THEN Tail(rest) ELSE rest, wanted, list)


(* pop_directory: there is something to pop, unless directories could not be read
   more than once. *)
SomethingToPop == panicked => unread > 1
==============================================================================
