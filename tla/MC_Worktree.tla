----------------------------- MODULE MC_Worktree -----------------------------
(***************************************************************************)
(* Small instances of what works on the files of a worktree: the checkout  *)
(* of an index with filter processes, and the stack of directories with    *)
(* their attributes and ignore patterns.  A behaviour is one of one of     *)
(* them while the other is idle.                                           *)
(***************************************************************************)
EXTENDS Naturals, Sequences, FiniteSets, TLC

CONSTANTS None, Checkouts, Walks

VARIABLES given, next, worker, driver, fs, out, links, result, interrupted, through, stale,
          walk, current, current_is_directory, attributes, matched, patterns, refused,
          unread, panicked

C == INSTANCE Checkout WITH Scenario <- Checkouts
S == INSTANCE PathStack WITH MaxFaults <- 3

----------------------------------------------------------------------------
(* Checkouts.  On disk a and A are the same, as are d and D. *)

Entry(path, slot, dir, mode, driver_name) ==
  [path |-> path, slot |-> slot, dir |-> dir, mode |-> mode, driver |-> driver_name,
   skip |-> FALSE, missing |-> FALSE]

Lower == [name |-> "d", slot |-> "d"]
Upper == [name |-> "D", slot |-> "d"]

Slots == {"a", "b", "d", "d/x", "d/y", "d/z"}
Empty == [s \in Slots |-> [kind |-> "none", by |-> {}, exec |-> FALSE]]
With(slot, kind) == [Empty EXCEPT ![slot].kind = kind]

Call(entries, threads) ==
  [entries |-> entries, threads |-> threads, fs |-> Empty,
   parent |-> [s \in Slots |-> IF s \in {"d/x", "d/y", "d/z"} THEN "d" ELSE None],
   symlink |-> TRUE, executable_bit |-> TRUE, initially_empty |-> TRUE, overwrite |-> FALSE, keep_going |-> FALSE, delay |-> TRUE,
   keys |-> {"k", "l"}, answers |-> {"success"}, invents |-> {}, repeats |-> {},
   forgets |-> FALSE, dies |-> FALSE, interrupts |-> FALSE]

(* A link and a directory with names that are the same on disk *)
Plain ==
  <<Entry("D", "d", None, "symlink", None), Entry("a", "a", None, "exec", "c"),
    Entry("d/x", "d/x", Lower, "file", None), Entry("d/y", "d/y", Lower, "file", None),
    Entry("d/z", "d/z", Lower, "symlink", None)>>

(* The link has the name of the directory. *)
Inconsistent ==
  <<Entry("D/x", "d/x", Upper, "file", None), Entry("a", "a", None, "exec", "c"),
    Entry("d", "d", None, "symlink", None), Entry("d/x", "d/x", Lower, "file", None),
    Entry("d/y", "d/y", Lower, "symlink", None)>>

Filtered ==
  <<Entry("A", "a", None, "file", "k"), Entry("a", "a", None, "exec", "k"),
    Entry("d/x", "d/x", Lower, "file", "k"), Entry("d/y", "d/y", Lower, "file", "l")>>

Mixed ==
  <<Entry("b", "b", None, "commit", None),
    [Entry("d/x", "d/x", Lower, "file", None) EXCEPT !.missing = TRUE],
    [Entry("d/y", "d/y", Lower, "file", "k") EXCEPT !.skip = TRUE],
    Entry("a", "a", None, "exec", "k")>>

Clash ==
  <<Entry("A", "a", None, "file", None), Entry("D", "d", None, "file", None),
    Entry("a", "a", None, "exec", None), Entry("d/y", "d/y", Lower, "commit", None)>>

AllCheckouts ==
  {Call(Plain, 1), Call(Plain, 2), Call(Mixed, 2),
   [Call(Plain, 1) EXCEPT !.overwrite = TRUE],
   [Call(Plain, 1) EXCEPT !.symlink = FALSE, !.executable_bit = FALSE],
   [Call(Inconsistent, 1) EXCEPT !.overwrite = TRUE],
   [Call(Inconsistent, 2) EXCEPT !.keep_going = TRUE],
   [Call(Plain, 2) EXCEPT !.keep_going = TRUE, !.dies = TRUE, !.interrupts = TRUE],
   [Call(Plain, 2) EXCEPT !.overwrite = TRUE, !.initially_empty = FALSE,
      !.fs = [With("d", "link") EXCEPT !["a"].kind = "file"]],
   [Call(Plain, 2) EXCEPT !.initially_empty = FALSE, !.keep_going = TRUE,
      !.fs = [With("d", "file") EXCEPT !["a"].kind = "dir"]],
   [Call(Clash, 2) EXCEPT !.overwrite = TRUE, !.initially_empty = FALSE, !.keep_going = TRUE,
      !.fs = With("a", "dir")],
   [Call(Filtered, 1) EXCEPT !.answers = {"success", "delayed", "error"}, !.keep_going = TRUE],
   [Call(Filtered, 1) EXCEPT !.answers = {"delayed", "strange"}, !.keep_going = TRUE],
   [Call(Filtered, 1) EXCEPT !.answers = {"success", "fails", "abort"}, !.delay = FALSE],
   [Call(Filtered, 1) EXCEPT !.answers = {"delayed", "success"}, !.delay = FALSE],
   [Call(SubSeq(Filtered, 1, 3), 2) EXCEPT !.answers = {"delayed", "success"}, !.overwrite = TRUE],
   [Call(Filtered, 1) EXCEPT !.answers = {"delayed", "success", "abort"}, !.keep_going = TRUE,
      !.invents = {"z"}, !.repeats = {"d/x"}],
   [Call(Filtered, 1) EXCEPT !.answers = {"delayed", "success"}, !.forgets = TRUE,
      !.dies = TRUE, !.invents = {"z"}],
   [Call(Mixed, 1) EXCEPT !.keep_going = TRUE, !.answers = {"success", "fails", "abort"}]}

(* A filter process, and two entries for one file *)
Colliding == {Call(Filtered, 1)}
NoCheckouts == {}

IdleCheckout ==
  /\ given = Call(<<>>, 1) /\ next = 1 /\ fs = Empty /\ links = <<>> /\ result = "Err"
  /\ worker = <<[C!NewWorker(1) EXCEPT !.pc = "done"]>> /\ driver = <<>>
  /\ out = C!NoOutcome /\ interrupted = FALSE /\ through = FALSE /\ stale = FALSE

----------------------------------------------------------------------------
(* Paths in the order of an index, and in another *)

AllWalks ==
  {<<<<"a", "x">>, <<"a", "b", "y">>, <<"a", "b", "z">>, <<"c">>, <<"d", "e", "f">>,
     <<"d", "e">>, <<"d", "g">>>>,
   <<<<"a">>, <<"a", "b">>, <<"a", "b", "c">>, <<"d">>, <<"e", "f">>>>,
   <<<<"a", "b">>, <<"a", "c", "d">>, <<"a", "e", "f">>, <<"a", "g", "h">>,
     <<"a", "i", "j">>, <<"a", "k", "l">>>>}
NoWalks == {}

IdleStack ==
  /\ walk = <<>> /\ current = <<>> /\ current_is_directory = TRUE
  /\ attributes = <<>> /\ matched = <<>> /\ patterns = <<>>
  /\ refused = 0 /\ unread = 0 /\ panicked = FALSE

----------------------------------------------------------------------------

Init ==
  \/ C!Init /\ IdleStack
  \/ IdleCheckout /\ S!Init

checkout_vars == <<given, next, worker, driver, fs, out, links, result, interrupted,
                   through, stale>>
stack_vars == <<walk, current, current_is_directory, attributes, matched, patterns,
                refused, unread, panicked>>

Next ==
  \/ C!Next /\ UNCHANGED stack_vars
  \/ S!Next /\ UNCHANGED checkout_vars

Spec == Init /\ [][Next]_<<checkout_vars, stack_vars>> /\ C!Fairness

----------------------------------------------------------------------------
(* Properties: those of the modules *)

(* The type invariants of both. *)
TypesOK == C!TypeOK /\ S!TypeOK

(* checkout: no file is written behind a symbolic link, unless the index has entries below
   the path of a link. *)
NotThroughLinks == C!NotThroughLinks


(* checkout returns, provided that filter processes answer. *)
CheckoutEnds == C!Terminates

(* driver::apply: a result is read to its end before the process is used again. *)
ResultsAreConsumed == C!ResultsAreConsumed

==============================================================================
