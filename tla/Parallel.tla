------------------------------ MODULE Parallel ------------------------------
(***************************************************************************)
(* The thread pool of gix-features: a thread feeds the items of an         *)
(* iterator into a bounded channel, workers consume them and send results  *)
(* into another, and the calling thread reduces these results.             *)
(*                                                                         *)
(* in_parallel and in_parallel_with_finalize do so in a scope that joins   *)
(* all threads.  Stepwise leaves the pace to its owner, who pulls one      *)
(* result at a time, may put InOrderIter in front of it, and may drop it   *)
(* before all results were seen.                                           *)
(***************************************************************************)
EXTENDS Naturals, Sequences, FiniteSets

CONSTANT Scenario   \* calls: see the fields of given below

VARIABLES given,      \* the call: how, items, threads, fails, panics, in_order, drops
          fed,        \* how many items were taken from the input
          input,      \* the channel for items
          results,    \* the channel for results
          feeder,     \* the thread that feeds
          worker,     \* the threads that consume
          main,       \* the thread that called, and the result it returns
          reduced,    \* what the reducer was fed, in this order
          next_chunk, \* InOrderIter: the item to yield next
          store,      \* InOrderIter: the items that came too early
          yielded     \* InOrderIter: the items given to the caller

in_order_vars == <<next_chunk, store, yielded>>
vars == <<given, fed, input, results, feeder, worker, main, reduced, in_order_vars>>

(* Items are numbered from 1; the result for an item has its number.  What a
   worker sends when it is done is not the result for an item. *)
Finalized == 0

Item   == 1..given.items
Worker == 1..given.threads

(* Both channels have room for one element per thread. *)
num_threads == given.threads

(* A receiver of items goes away with the loop of its worker, a sender of
   results with the worker itself.  While threads are started, main still has
   one of each. *)
Looping == {w \in Worker : worker[w].pc \in {"recv", "send"}}
NoReceiverOfItems == main.pc # "spawn" /\ Looping = {}
NoSenderOfResults == main.pc # "spawn" /\ \A w \in Worker : worker[w].pc = "done"
NoReceiverOfResults == main.pc \in {"join", "returned"}

----------------------------------------------------------------------------
(* The thread that feeds *)

feed ==
  /\ feeder = "running"
  /\ IF fed = given.items \/ NoReceiverOfItems
       THEN feeder' = "done" /\ UNCHANGED <<fed, input>>
       ELSE /\ Len(input) < num_threads
            /\ fed' = fed + 1
            /\ input' = Append(input, fed + 1)
            /\ UNCHANGED feeder
  /\ UNCHANGED <<given, results, worker, main, reduced, in_order_vars>>

----------------------------------------------------------------------------
(* Workers *)

(* An item is received and consumed.  The consumer may panic, which ends the
   thread. *)
consume(w) ==
  /\ worker[w].pc = "recv" /\ input # <<>>
  /\ worker' = [worker EXCEPT ![w] =
                  IF Head(input) \in given.panics
                    THEN [pc |-> "done", item |-> 0, panicked |-> Head(input)]
                    ELSE [@ EXCEPT !.pc = "send", !.item = Head(input)]]
  /\ input' = Tail(input)
  /\ UNCHANGED <<given, fed, results, feeder, main, reduced, in_order_vars>>

(* The channel is empty and nobody will send again. *)
consumed_all(w) ==
  /\ worker[w].pc = "recv" /\ input = <<>> /\ feeder = "done"
  /\ worker' = [worker EXCEPT ![w].pc =
                  IF given.how = "with_finalize" THEN "finalize" ELSE "done"]
  /\ UNCHANGED <<given, fed, input, results, feeder, main, reduced, in_order_vars>>

(* Mutant: a result that cannot be sent is tried again. *)
send_result_insists(w) ==
  /\ worker[w].pc = "send" /\ Len(results) < num_threads /\ ~NoReceiverOfResults
  /\ worker' = [worker EXCEPT ![w].pc = "recv", ![w].item = 0]
  /\ results' = Append(results, worker[w].item)
  /\ UNCHANGED <<given, fed, input, feeder, main, reduced, in_order_vars>>

send_result(w) ==
  /\ worker[w].pc = "send"
  /\ worker' = [worker EXCEPT ![w].item = 0,
                  ![w].pc = IF NoReceiverOfResults THEN "done" ELSE "recv"]
  /\ IF NoReceiverOfResults
       THEN UNCHANGED results
       ELSE Len(results) < num_threads /\ results' = Append(results, worker[w].item)
  /\ UNCHANGED <<given, fed, input, feeder, main, reduced, in_order_vars>>

finalize(w) ==
  /\ worker[w].pc = "finalize"
  /\ worker' = [worker EXCEPT ![w].pc = "done"]
  /\ IF NoReceiverOfResults
       THEN UNCHANGED results
       ELSE Len(results) < num_threads /\ results' = Append(results, Finalized)
  /\ UNCHANGED <<given, fed, input, feeder, main, reduced, in_order_vars>>

----------------------------------------------------------------------------
(* The calling thread *)

EndOfResults == results = <<>> /\ NoSenderOfResults

spawned ==
  /\ main.pc = "spawn"
  /\ main' = [main EXCEPT !.pc = "recv"]
  /\ UNCHANGED <<given, fed, input, results, feeder, worker, reduced, in_order_vars>>

(* The receiver of results is dropped, then all threads are joined. *)
Leave(res) == main' = [main EXCEPT !.pc = "join", !.res = res]

(* reducer.feed().  An error ends it. *)
reduce ==
  LET item == Head(results)
  IN /\ main.pc = "recv" /\ ~given.in_order /\ results # <<>>
     /\ results' = Tail(results)
     /\ reduced' = Append(reduced, item)
     /\ IF item \in given.fails THEN Leave("Err") ELSE UNCHANGED main
     /\ UNCHANGED <<given, fed, input, feeder, worker, in_order_vars>>

reducer_finalize ==
  /\ main.pc = "recv" /\ ~given.in_order /\ EndOfResults
  /\ Leave("Ok")
  /\ UNCHANGED <<given, fed, input, results, feeder, worker, reduced, in_order_vars>>

(* The owner of a Stepwise may drop it between two results. *)
drop_stepwise ==
  /\ main.pc = "recv" /\ given.drops
  /\ Leave("dropped")
  /\ UNCHANGED <<given, fed, input, results, feeder, worker, reduced, in_order_vars>>

Yield(item) ==
  /\ yielded' = Append(yielded, item)
  /\ next_chunk' = next_chunk + 1

(* Mutant: an item that arrives while others wait is given out right away. *)
in_order_next_eager ==
  LET c == Head(results)
  IN /\ main.pc = "recv" /\ given.in_order /\ results # <<>>
     /\ results' = Tail(results)
     /\ reduced' = Append(reduced, c)
     /\ IF c \in given.fails THEN Leave("Err") ELSE UNCHANGED main
     /\ IF c \in given.fails
          THEN UNCHANGED in_order_vars
          ELSE Yield(c) /\ UNCHANGED store
     /\ UNCHANGED <<given, fed, input, feeder, worker>>

(* InOrderIter::next, for one result of the inner iterator.  It only yields what
   has its turn; the loop goes on otherwise. *)
in_order_next ==
  LET c == Head(results)
      arrived == store \union {c}
  IN /\ main.pc = "recv" /\ given.in_order /\ results # <<>>
     /\ results' = Tail(results)
     /\ reduced' = Append(reduced, c)
     /\ IF c \in given.fails
          THEN /\ Leave("Err") /\ store' = {} /\ UNCHANGED <<next_chunk, yielded>>
        ELSE IF c < next_chunk \/ c \in store
          THEN Leave("unreachable") /\ UNCHANGED in_order_vars
        ELSE /\ IF next_chunk \in arrived
                  THEN Yield(next_chunk) /\ store' = arrived \ {next_chunk}
                  ELSE store' = arrived /\ UNCHANGED <<next_chunk, yielded>>
             /\ UNCHANGED main
     /\ UNCHANGED <<given, fed, input, feeder, worker>>

(* The inner iterator has ended, the rest is in the store.  A debug assertion says
   that nothing is left there in the end, which a worker that panicked may refute. *)
in_order_rest ==
  /\ main.pc = "recv" /\ given.in_order /\ EndOfResults
  /\ IF next_chunk \in store
       THEN Yield(next_chunk) /\ store' = store \ {next_chunk} /\ UNCHANGED main
       ELSE /\ \E res \in {"Ok"} \union {"panic" : x \in store} : Leave(res)
            /\ UNCHANGED in_order_vars
  /\ UNCHANGED <<given, fed, input, results, feeder, worker, reduced>>

(* Mutant: the panic of a worker is not passed on. *)
join_ignores_panics ==
  /\ main.pc = "join" /\ feeder = "done" /\ \A w \in Worker : worker[w].pc = "done"
  /\ main' = [main EXCEPT !.pc = "returned"]
  /\ UNCHANGED <<given, fed, input, results, feeder, worker, reduced, in_order_vars>>

(* All threads are joined.  A thread that panicked makes the caller panic. *)
join ==
  /\ main.pc = "join" /\ feeder = "done" /\ \A w \in Worker : worker[w].pc = "done"
  /\ main' = [pc |-> "returned",
              res |-> IF \E w \in Worker : worker[w].panicked # 0 THEN "panic" ELSE main.res]
  /\ UNCHANGED <<given, fed, input, results, feeder, worker, reduced, in_order_vars>>

----------------------------------------------------------------------------

Init ==
  /\ given \in Scenario
  /\ fed = 0
  /\ input = <<>> /\ results = <<>>
  /\ feeder = "running"
  /\ worker = [w \in Worker |-> [pc |-> "recv", item |-> 0, panicked |-> 0]]
  /\ main = [pc |-> "spawn", res |-> "none"]
  /\ reduced = <<>>
  /\ next_chunk = 1 /\ store = {} /\ yielded = <<>>

WorkerStep(w) == consume(w) \/ consumed_all(w) \/ send_result(w) \/ finalize(w)

MainStep ==
  \/ spawned \/ reduce \/ reducer_finalize \/ in_order_next \/ in_order_rest \/ join

Next == feed \/ (\E w \in Worker : WorkerStep(w)) \/ MainStep \/ drop_stepwise

Spec == Init /\ [][Next]_vars

Workers == UNION {1..s.threads : s \in Scenario}

(* The scheduler runs all threads, and the caller pulls until the end unless it
   drops what it pulls from. *)
Fairness ==
  /\ WF_vars(feed) /\ WF_vars(MainStep)
  /\ \A w \in Workers : WF_vars(w \in Worker /\ WorkerStep(w))

FairSpec == Spec /\ Fairness

----------------------------------------------------------------------------
(* Properties *)

(* The variables have the types of the code's; neither channel holds more than
   it has room for. *)
TypeOK ==
  /\ fed \in 0..given.items
  /\ input \in Seq(Item) /\ Len(input) <= num_threads
  /\ results \in Seq(Item \union {Finalized}) /\ Len(results) <= num_threads
  /\ feeder \in {"running", "done"}
  /\ worker \in [Worker -> [pc : {"recv", "send", "finalize", "done"},
                            item : Item \union {0}, panicked : Item \union {0}]]
  /\ main \in [pc : {"spawn", "recv", "join", "returned"},
               res : {"none", "Ok", "Err", "dropped", "unreachable", "panic"}]
  /\ reduced \in Seq(Item \union {Finalized})
  /\ next_chunk \in 1..given.items + 1 /\ store \subseteq Item /\ yielded \in Seq(Item)

(* Where an item that was taken from the input may be *)
Places(i) ==
  {<<"input", k>> : k \in {k \in 1..Len(input) : input[k] = i}}
  \union {<<"worker", w>> : w \in {w \in Worker : i \in {worker[w].item, worker[w].panicked}}}
  \union {<<"results", k>> : k \in {k \in 1..Len(results) : results[k] = i}}
  \union {<<"reduced", k>> : k \in {k \in 1..Len(reduced) : reduced[k] = i}}

(* As long as somebody receives results, an item that was taken from the input is
   in one place: in a channel, with a worker, or with the reducer.  It is neither
   consumed twice nor lost, however the threads interleave. *)
EveryItemIsSomewhere ==
  ~NoReceiverOfResults =>
    \A i \in Item : Cardinality(Places(i)) = IF i <= fed THEN 1 ELSE 0

(* The caller is told of success only if each item was reduced once, none of them
   with an error, every worker was finalized, and no worker panicked. *)
SuccessIsComplete ==
  main.pc = "returned" /\ main.res = "Ok" =>
    /\ \A i \in Item : Cardinality({k \in 1..Len(reduced) : reduced[k] = i}) = 1
    /\ given.fails \union given.panics = {}
    /\ given.how = "with_finalize" =>
         Len(reduced) = given.items + given.threads
    /\ given.in_order => Len(yielded) = given.items

(* InOrderIter yields the items in the order of the input, though the threads
   return them in any order; no item that has been yielded arrives again. *)
InInputOrder ==
  (\A k \in 1..Len(yielded) : yielded[k] = k) /\ main.res # "unreachable"

(* The call returns with all threads joined: also when the reducer fails or the
   caller drops its end while the workers wait for room in a full channel, when
   workers panic, and when there is nothing to do. *)
Terminates == <>(main.pc = "returned")
=============================================================================
