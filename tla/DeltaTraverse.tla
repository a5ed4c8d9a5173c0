---------------------------- MODULE DeltaTraverse ----------------------------
(***************************************************************************)
(* How gix-pack visits every object of a pack, for instance to compute the *)
(* ids that go into a new index.  Objects form trees: a base, and the      *)
(* deltas against it.  in_parallel_with_slice() of gix-features hands the  *)
(* bases to a fixed number of workers; a worker that finds several subtrees *)
(* below its base while other workers are idle starts threads in their     *)
(* place, which share these subtrees as a stack of nodes.                  *)
(***************************************************************************)
EXTENDS Integers, Sequences, FiniteSets

CONSTANT Scenario   \* the number of threads, the shape of the pack, and what fails

VARIABLES index,        \* the next base to hand out
          stop,         \* stop_everything
          interrupt,    \* should_interrupt of the caller
          threads_left, \* how many more threads may be started
          inspected,    \* how often inspect_object succeeded, for each object
          w,            \* the workers, with the threads they have started
          watch,        \* the thread that watches for interrupts
          main,         \* the caller, which joins the workers
          given         \* the scenario, which never changes

vars == <<index, stop, interrupt, threads_left, inspected, w, watch, main, given>>

N == given.num_threads

Worker == 1..N

Roots == given.roots              \* objects that are no delta
Item  == DOMAIN given.children    \* all objects of the pack
children(item) == given.children[item]
has_children(item) == children(item) # <<>>

Thread == [pc |-> "pop", item |-> 0, kids |-> <<>>]

NewWorker == [pc |-> "start", nodes |-> <<>>, decompressed |-> {},
              threads |-> <<>>, create |-> 0, seen |-> 0, returned |-> FALSE,
              res |-> "Ok"]

(* A worker that panics does not give itself back. *)
Panicked == [NewWorker EXCEPT !.pc = "panicked", !.res = "Panic"]

At(t, pc)   == t \in Worker /\ w[t].pc = pc
Goto(t, pc) == w' = [w EXCEPT ![t].pc = pc]

Last(s)  == s[Len(s)]
Front(s) == SubSeq(s, 1, Len(s) - 1)
Smaller(a, b) == IF a < b THEN a ELSE b

----------------------------------------------------------------------------
(* in_parallel_with_slice *)

start(t) ==
  /\ At(t, "start")
  /\ threads_left' = threads_left - 1
  /\ Goto(t, "take")
  /\ UNCHANGED <<index, stop, interrupt, inspected, watch, main, given>>

(* Mutant of take: reading the index and incrementing it are two steps. *)
take_twice(t) ==
  /\ At(t, "take") /\ index <= Len(Roots)
  /\ index' \in {index, index + 1}
  /\ w' = [w EXCEPT ![t].pc = "check", ![t].nodes = <<Roots[index]>>]
  /\ UNCHANGED <<stop, interrupt, threads_left, inspected, watch, main, given>>

(* The next base, if any is left *)
take(t) ==
  /\ At(t, "take") /\ index <= Len(Roots)
  /\ index' = index + 1
  /\ w' = [w EXCEPT ![t].pc = "check", ![t].nodes = <<Roots[index]>>]
  /\ UNCHANGED <<stop, interrupt, threads_left, inspected, watch, main, given>>

check(t) ==
  /\ At(t, "check")
  /\ Goto(t, IF stop THEN "end" ELSE "deltas")
  /\ UNCHANGED <<index, stop, interrupt, threads_left, inspected, watch, main, given>>

(* Mutant of fail: the worker forgets its error. *)
fail_silently(t) ==
  /\ At(t, "fail")
  /\ stop' = TRUE
  /\ w' = [w EXCEPT ![t] = [NewWorker EXCEPT !.pc = "end"]]
  /\ UNCHANGED <<index, interrupt, threads_left, inspected, watch, main, given>>

fail(t) ==
  /\ At(t, "fail")
  /\ stop' = TRUE
  /\ w' = [w EXCEPT ![t] = [NewWorker EXCEPT !.pc = "end", !.res = "Err"]]
  /\ UNCHANGED <<index, interrupt, threads_left, inspected, watch, main, given>>

(* There is no base left, somebody wants everything to stop, or this worker
   has failed. *)
end(t) ==
  /\ At(t, "end") \/ (At(t, "take") /\ index > Len(Roots))
  /\ threads_left' = threads_left + 1
  /\ w' = [w EXCEPT ![t] = [NewWorker EXCEPT !.pc = "done", !.res = w[t].res]]
  /\ UNCHANGED <<index, stop, interrupt, inspected, watch, main, given>>

(* Workers are joined in order.  The first error is returned right away; the first
   panic is passed on, and stops the others. *)
join ==
  LET t == main.joined + 1
  IN /\ main.pc = "join" /\ t \in Worker /\ (At(t, "done") \/ At(t, "panicked"))
     /\ main' = [joined |-> t, res |-> w[t].res,
                 pc |-> IF w[t].res = "Ok" THEN "join" ELSE "return"]
     /\ stop' = (stop \/ w[t].res = "Panic")
     /\ UNCHANGED <<index, interrupt, threads_left, inspected, w, watch, given>>

all_joined ==
  /\ main.pc = "join" /\ main.joined = N
  /\ stop' = TRUE
  /\ main' = [main EXCEPT !.pc = "return"]
  /\ UNCHANGED <<index, interrupt, threads_left, inspected, w, watch, given>>

(* The scope ends when all of its threads have. *)
in_parallel_with_slice ==
  /\ main.pc = "return" /\ watch = "done"
  /\ \A t \in Worker : At(t, "done") \/ At(t, "panicked")
  /\ main' = [main EXCEPT !.pc = "done"]
  /\ UNCHANGED <<index, stop, interrupt, threads_left, inspected, w, watch, given>>

watch_interrupts ==
  /\ watch = "loop"
  /\ IF stop THEN watch' = "done" /\ UNCHANGED stop
     ELSE /\ interrupt
          /\ stop' = TRUE /\ watch' = "done"
  /\ UNCHANGED <<index, interrupt, threads_left, inspected, w, main, given>>

set_interrupt ==
  /\ given.interrupts /\ ~interrupt
  /\ interrupt' = TRUE
  /\ UNCHANGED <<index, stop, threads_left, inspected, w, watch, main, given>>

----------------------------------------------------------------------------
(* deltas: one worker, on its own *)

(* What is processed before the first object that cannot be inspected, or whose
   delta is against a base of another size *)
Good(items) ==
  LET bad == {i \in 1..Len(items) : items[i] \in given.broken \union given.mismatched}
  IN  IF bad = {} THEN items
      ELSE SubSeq(items, 1, (CHOOSE i \in bad : \A j \in bad : i <= j) - 1)

(* A base of another size fails an assertion. *)
Failure(item) == IF item \in given.mismatched THEN "panic" ELSE "err"

inspect(items) ==
  inspected' = [i \in Item |-> inspected[i]
                  + Cardinality({j \in 1..Len(items) : items[j] = i})]

(* A node and those of its children that have none themselves are inspected,
   the other children become nodes. *)
deltas(t) ==
  LET item   == Last(w[t].nodes)
      Now(c) == c = item \/ ~has_children(c) \/ c \in given.mismatched
      items  == SelectSeq(<<item>> \o children(item), Now)
      good   == Good(items)
      inner  == SelectSeq(children(item), has_children)
      nodes  == Front(w[t].nodes) \o inner
  IN /\ At(t, "deltas")
     /\ IF w[t].nodes = <<>> THEN Goto(t, "take") /\ UNCHANGED inspected
        ELSE IF stop THEN Goto(t, "fail") /\ UNCHANGED inspected
        ELSE /\ inspect(good)
             /\ w' = IF good = items
                       THEN [w EXCEPT ![t].nodes = nodes,
                               ![t].decompressed = (@ \ {item}) \union
                                 {inner[i] : i \in 1..Len(inner)},
                               ![t].pc = IF Len(nodes) > 1 THEN "steal" ELSE "deltas"]
                     ELSE IF Failure(items[Len(good) + 1]) = "panic"
                       THEN [w EXCEPT ![t] = Panicked]
                     ELSE [w EXCEPT ![t].pc = "fail"]
     /\ UNCHANGED <<index, stop, interrupt, threads_left, watch, main, given>>

(* All threads that are left are taken, and one that replaces this worker. *)
steal(t) ==
  /\ At(t, "steal")
  /\ IF threads_left > 0
       THEN /\ threads_left' = 0
            /\ w' = [w EXCEPT ![t].pc = "spawn", ![t].create = threads_left + 1,
                              ![t].returned = FALSE]
       ELSE Goto(t, "deltas") /\ UNCHANGED threads_left
  /\ UNCHANGED <<index, stop, interrupt, inspected, watch, main, given>>

----------------------------------------------------------------------------
(* deltas_mt: the worker starts threads and waits for them *)

spawn(t) ==
  /\ At(t, "spawn")
  /\ w' = [w EXCEPT ![t].pc = "count",
             ![t].threads = @ \o [i \in 1..w[t].create |-> Thread]]
  /\ UNCHANGED <<index, stop, interrupt, threads_left, inspected, watch, main, given>>

spawn_failed(t) ==
  /\ At(t, "spawn") /\ given.spawn_fails
  /\ \E n \in 1..w[t].create :
       w' = [w EXCEPT ![t].pc = "leave", ![t].res = "Err",
               ![t].threads = @ \o [i \in 1..n - 1 |-> Thread]]
  /\ UNCHANGED <<index, stop, interrupt, threads_left, inspected, watch, main, given>>

(* fetch_update: how many threads there is work for ... *)
count(t) ==
  /\ At(t, "count")
  /\ w' = [w EXCEPT ![t].seen = threads_left,
             ![t].create = IF threads_left > 0
                             THEN Smaller(threads_left, Len(w[t].nodes)) ELSE 0,
             ![t].pc = IF threads_left > 0 THEN "claim" ELSE "poll"]
  /\ UNCHANGED <<index, stop, interrupt, threads_left, inspected, watch, main, given>>

(* ... and to take them, unless others were faster. *)
claim(t) ==
  /\ At(t, "claim")
  /\ IF threads_left = w[t].seen
       THEN /\ threads_left' = threads_left - w[t].create
            /\ Goto(t, "poll")
       ELSE Goto(t, "count") /\ UNCHANGED threads_left
  /\ UNCHANGED <<index, stop, interrupt, inspected, watch, main, given>>

Finished(thread) == thread.pc \in {"ok", "err", "panic"}

(* Mutant of GivenBack: the thread that took this worker's place, too. *)
GivenBack_all(t, ok) == ok

(* Of the threads that were joined, the first of all took this worker's place and is
   not given back. *)
GivenBack(t, ok) == IF ok > 0 /\ ~w[t].returned THEN ok - 1 ELSE ok

(* Mutant of NoWorkLeft: only an error ends the loop. *)
NoWorkLeft_never(t, done, running) == FALSE

NoWorkLeft(t, done, running) == done # <<>> /\ running = <<>> /\ w[t].nodes = <<>>

(* Finished threads are joined up to the first that failed. *)
poll(t) ==
  LET done    == SelectSeq(w[t].threads, Finished)
      running == SelectSeq(w[t].threads, LAMBDA thread : ~Finished(thread))
      failed  == {i \in 1..Len(done) : done[i].pc # "ok"}
      ok      == IF failed = {} THEN Len(done)
                 ELSE (CHOOSE i \in failed : \A j \in failed : i <= j) - 1
  IN /\ At(t, "poll")
     /\ threads_left' = threads_left + GivenBack(t, ok)
     /\ w' = [w EXCEPT ![t].threads = running,
                ![t].returned = @ \/ ok > 0,
                ![t].res = IF failed = {} THEN @
                           ELSE IF done[ok + 1].pc = "err" THEN "Err" ELSE "Panic",
                ![t].pc = IF failed # {} \/ NoWorkLeft(t, done, running)
                            THEN "leave" ELSE "spawn"]
     /\ UNCHANGED <<index, stop, interrupt, inspected, watch, main, given>>

(* The scope waits for threads that still run. *)
leave(t) ==
  /\ At(t, "leave") /\ \A i \in 1..Len(w[t].threads) : Finished(w[t].threads[i])
  /\ w' = [w EXCEPT ![t] = CASE w[t].res = "Ok"    -> [NewWorker EXCEPT !.pc = "take"]
                              [] w[t].res = "Err"   -> [NewWorker EXCEPT !.pc = "fail"]
                              [] w[t].res = "Panic" -> Panicked]
  /\ UNCHANGED <<index, stop, interrupt, threads_left, inspected, watch, main, given>>

----------------------------------------------------------------------------
(* A thread of deltas_mt *)

Running(t, i, pc) == w[t].threads[i].pc = pc

Shared == UNCHANGED <<index, stop, interrupt, threads_left, watch, main, given>>

pop(t, i) ==
  /\ Running(t, i, "pop")
  /\ w' = IF w[t].nodes = <<>> THEN [w EXCEPT ![t].threads[i].pc = "ok"]
          ELSE [w EXCEPT ![t].threads[i] = [Thread EXCEPT !.pc = "base",
                                              !.item = Last(w[t].nodes)],
                         ![t].nodes = Front(@)]
  /\ Shared /\ UNCHANGED inspected

base(t, i) ==
  LET item == w[t].threads[i].item
  IN /\ Running(t, i, "base")
     /\ IF stop
          THEN w' = [w EXCEPT ![t].threads[i].pc = "err"] /\ UNCHANGED inspected
        ELSE IF item \notin w[t].decompressed
          THEN w' = [w EXCEPT ![t].threads[i].pc = "no base"] /\ UNCHANGED inspected
        ELSE /\ w' = [w EXCEPT ![t].decompressed = @ \ {item},
                        ![t].threads[i].pc = IF item \in given.broken THEN "err" ELSE "kids",
                        ![t].threads[i].kids = children(item)]
             /\ inspect(Good(<<item>>))
     /\ Shared

(* The thread goes on with the next child, or with the next node. *)
NextKid(t, i) ==
  LET rest == Tail(w[t].threads[i].kids)
  IN  IF rest = <<>> THEN Thread
      ELSE [w[t].threads[i] EXCEPT !.pc = "kids", !.kids = rest]

(* Mutant of kids: the node is pushed before its decompressed data is stored. *)
kids_push_first(t, i) ==
  LET kid == Head(w[t].threads[i].kids)
  IN /\ Running(t, i, "kids")
     /\ IF has_children(kid) /\ kid \notin given.mismatched
          THEN /\ w' = [w EXCEPT ![t].nodes = Append(@, kid),
                                 ![t].threads[i] = NextKid(t, i)]
               /\ UNCHANGED inspected
        ELSE /\ w' = IF Good(<<kid>>) = <<>>
                       THEN [w EXCEPT ![t].threads[i].pc = Failure(kid)]
                     ELSE [w EXCEPT ![t].threads[i] = NextKid(t, i)]
             /\ inspect(Good(<<kid>>))
     /\ Shared

kids(t, i) ==
  LET kid == Head(w[t].threads[i].kids)
  IN /\ Running(t, i, "kids")
     /\ IF has_children(kid) /\ kid \notin given.mismatched
          THEN /\ w' = [w EXCEPT ![t].decompressed = @ \union {kid},
                                 ![t].threads[i].pc = "push"]
               /\ UNCHANGED inspected
        ELSE /\ w' = IF Good(<<kid>>) = <<>>
                       THEN [w EXCEPT ![t].threads[i].pc = Failure(kid)]
                     ELSE [w EXCEPT ![t].threads[i] = NextKid(t, i)]
             /\ inspect(Good(<<kid>>))
     /\ Shared

push(t, i) ==
  /\ Running(t, i, "push")
  /\ w' = [w EXCEPT ![t].nodes = Append(@, Head(w[t].threads[i].kids)),
                    ![t].threads[i] = NextKid(t, i)]
  /\ Shared /\ UNCHANGED inspected

----------------------------------------------------------------------------
Init ==
  /\ given \in Scenario
  /\ index = 1 /\ stop = FALSE /\ interrupt = FALSE
  /\ threads_left = N
  /\ inspected = [i \in Item |-> 0]
  /\ w = [t \in Worker |-> NewWorker]
  /\ watch = "loop"
  /\ main = [pc |-> "join", joined |-> 0, res |-> "Ok"]

Work(t) ==
  \/ start(t) \/ take(t) \/ check(t) \/ fail(t) \/ end(t)
  \/ deltas(t) \/ steal(t)
  \/ spawn(t) \/ spawn_failed(t) \/ count(t) \/ claim(t) \/ poll(t) \/ leave(t)

Help == \E t \in Worker : \E i \in DOMAIN w[t].threads :
          pop(t, i) \/ base(t, i) \/ kids(t, i) \/ push(t, i)

Main == join \/ all_joined \/ in_parallel_with_slice

Done == main.pc = "done"

Next ==
  \/ \E t \in Worker : Work(t)
  \/ Help \/ Main \/ watch_interrupts \/ set_interrupt
  \/ Done /\ UNCHANGED vars

Spec == Init /\ [][Next]_vars

(* All workers of any scenario *)
Workers == UNION {1..s.num_threads : s \in Scenario}

(* Every worker runs, as it polls while others work.  Of the threads of
   deltas_mt it is enough that some of them do, as none of them waits. *)
Fairness ==
  /\ WF_vars(Main) /\ WF_vars(watch_interrupts) /\ WF_vars(Help)
  /\ \A t \in Workers : WF_vars(Work(t))

----------------------------------------------------------------------------
(* Properties *)

(* No object is handed to inspect_object twice, by whichever threads: each has
   mutable access to the data of the object without a lock. *)
InspectedOnce == \A i \in Item : inspected[i] <= 1

(* A thread that takes a node off the shared stack finds the decompressed
   object that its deltas apply to. *)
BaseIsStored ==
  \A t \in Worker : \A i \in 1..Len(w[t].threads) : w[t].threads[i].pc # "no base"

(* The traversal succeeds only if every object was inspected, unless somebody
   interrupted it. *)
SuccessIsComplete ==
  Done /\ main.res = "Ok" /\ ~interrupt => \A i \in Item : inspected[i] = 1

(* Threads that do work *)
Busy ==
  {<<t, 0>> : t \in {u \in Worker : w[u].pc \in {"take", "check", "deltas", "steal"}}}
    \union UNION {{<<t, i>> : i \in {j \in DOMAIN w[t].threads :
                                        ~Finished(w[t].threads[j])}} : t \in Worker}

(* Counters stay in their range.  The number of threads left turns negative when it
   was taken while workers still started, and as many threads too many may then be at
   work: it accounts for each of them, and the limit of the caller is exceeded by less
   than the number of workers. *)
TypeOK ==
  /\ index \in 1..Len(Roots) + 1 /\ threads_left \in 1 - N..N
  /\ Cardinality(Busy) + threads_left <= N
  /\ \A t \in Worker :
       /\ w[t].create \in 0..N /\ Len(w[t].threads) \in 0..2 * N
       /\ \A i \in 1..Len(w[t].nodes) : w[t].nodes[i] \in Item
  /\ main.joined \in 0..N /\ main.res \in {"Ok", "Err", "Panic"}

(* The traversal comes to an end, also after errors and interrupts: nobody waits
   for nodes that nobody will push, or for a thread that never ends.  Nor does it
   go on for ever after a panic, which is passed on to the caller. *)
Terminates == <>Done
=============================================================================
