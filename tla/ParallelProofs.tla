--------------------------- MODULE ParallelProofs ---------------------------
(***************************************************************************)
(* InOrderIter yields what it is given in the order of the input, for any  *)
(* number of items and threads.                                            *)
(***************************************************************************)
EXTENDS Parallel, TLAPS

\* What callers can ask for: only in_parallel_with_finalize makes its workers send more than
\* the results for items, and it does not offer its results to an InOrderIter.
Calls ==
  \A s \in Scenario :
    /\ s.items \in Nat /\ s.threads \in Nat /\ s.in_order \in BOOLEAN
    /\ s.in_order => s.how # "with_finalize"

----------------------------------------------------------------------------
(* Channels are first-in first-out. *)

LEMMA HeadTail ==
  ASSUME NEW S, NEW q \in Seq(S), q # <<>>
  PROVE  /\ Head(q) = q[1] /\ Head(q) \in S /\ Tail(q) \in Seq(S)
         /\ Len(q) \in Nat \ {0} /\ Len(Tail(q)) = Len(q) - 1
         /\ \A k \in 1..Len(Tail(q)) : Tail(q)[k] = q[k + 1]
OBVIOUS

LEMMA Appended ==
  ASSUME NEW S, NEW q \in Seq(S), NEW x \in S
  PROVE  /\ Append(q, x) \in Seq(S) /\ Len(Append(q, x)) = Len(q) + 1 /\ Len(q) \in Nat
         /\ \A k \in 1..Len(q) : Append(q, x)[k] = q[k]
         /\ Append(q, x)[Len(q) + 1] = x
OBVIOUS

----------------------------------------------------------------------------
(* The invariant *)

\* What InOrderIter has got so far: what it yielded, and what waits for its turn.
Arrived == {i \in Nat \ {0} : i < next_chunk} \union store

WorkerState == [pc : {"recv", "send", "finalize", "done"}, item : Nat, panicked : Nat]

Res == {"none", "Ok", "Err", "dropped", "unreachable", "panic"}

MainState == [pc : {"spawn", "recv", "join", "returned"}, res : Res]

Types ==
  /\ given.items \in Nat /\ given.threads \in Nat
  /\ given.in_order => given.how # "with_finalize"
  /\ fed \in Nat
  /\ input \in Seq(Nat) /\ results \in Seq(Nat)
  /\ worker \in [Worker -> WorkerState]
  /\ main \in MainState
  /\ next_chunk \in Nat \ {0} /\ store \in SUBSET Nat /\ yielded \in Seq(Nat)

\* Numbers are those of items taken from the input.
Known ==
  /\ \A k \in 1..Len(input) : input[k] \in 1..fed
  /\ \A k \in 1..Len(results) : results[k] \in 1..fed
  /\ \A w \in Worker : worker[w].item \in 0..fed /\ (worker[w].pc = "send" => worker[w].item # 0)
  /\ \A w \in Worker : worker[w].pc # "finalize"
  /\ store \subseteq 1..fed /\ next_chunk <= fed + 1

\* No item is in two places.
Once ==
  /\ \A j, k \in 1..Len(input) : input[j] = input[k] => j = k
  /\ \A j, k \in 1..Len(results) : results[j] = results[k] => j = k
  /\ \A v, w \in Worker : worker[v].item = worker[w].item /\ worker[v].item # 0 => v = w
  /\ \A k \in 1..Len(input), w \in Worker : input[k] # worker[w].item
  /\ \A k \in 1..Len(input), j \in 1..Len(results) : input[k] # results[j]
  /\ \A k \in 1..Len(input) : input[k] \notin Arrived
  /\ \A w \in Worker, j \in 1..Len(results) : worker[w].item # results[j]
  /\ \A w \in Worker : worker[w].item \notin Arrived
  /\ \A j \in 1..Len(results) : results[j] \notin Arrived

InOrder ==
  /\ Len(yielded) = next_chunk - 1
  /\ \A k \in 1..Len(yielded) : yielded[k] = k
  /\ main.res # "unreachable"

Inv == Types /\ InOrder /\ (given.in_order => Known /\ Once)

----------------------------------------------------------------------------
(* The thread that feeds *)

LEMMA FeedStep == ASSUME Inv, feed PROVE Inv'
<1>1. Types /\ InOrder
    BY DEF Inv
<1>2. CASE fed = given.items \/ NoReceiverOfItems
    <2>1. UNCHANGED <<given, fed, input, results, worker, main, next_chunk, store, yielded>>
        BY <1>2 DEF feed, in_order_vars
    <2> QED
        BY Zenon, <2>1 DEF Inv, Types, InOrder, Known, Once, Arrived, Worker
<1>3. CASE ~(fed = given.items \/ NoReceiverOfItems)
    <2>1. /\ fed' = fed + 1 /\ input' = Append(input, fed + 1)
          /\ UNCHANGED <<given, results, worker, main, next_chunk, store, yielded>>
        BY <1>3 DEF feed, in_order_vars
    <2>2. fed + 1 \in Nat
        BY <1>1 DEF Types
    <2>3. /\ input' \in Seq(Nat) /\ Len(input') = Len(input) + 1 /\ Len(input) \in Nat
          /\ \A k \in 1..Len(input) : input'[k] = input[k]
          /\ input'[Len(input) + 1] = fed + 1
        BY <1>1, <2>1, <2>2, Appended DEF Types
    <2>4. Types' /\ InOrder'
        BY <1>1, <2>1, <2>2, <2>3 DEF Types, InOrder, Worker
    <2>5. Arrived' = Arrived /\ Worker' = Worker
        BY <2>1 DEF Arrived, Worker
    <2>6. ASSUME given.in_order PROVE Known' /\ Once'
        <3>1. Known /\ Once
            BY <2>6 DEF Inv
        <3>2. \A k \in 1..Len(input') : \/ input'[k] = fed + 1 /\ k = Len(input) + 1
                                        \/ k \in 1..Len(input) /\ input'[k] = input[k]
            BY <2>3
        <3>3. \A i \in Nat : i \in Arrived => i <= fed
            BY <1>1, <3>1 DEF Arrived, Known, Types
        <3>4. Known'
            <4>1. 1..fed \subseteq 1..(fed + 1) /\ 0..fed \subseteq 0..(fed + 1) /\ fed + 1 \in 1..(fed + 1)
                BY <1>1 DEF Types
            <4>2. \A k \in 1..Len(input') : input'[k] \in 1..fed'
                BY <2>1, <3>1, <3>2, <4>1 DEF Known
            <4>3. next_chunk' <= fed' + 1
                BY <1>1, <2>1, <3>1 DEF Known, Types
            <4> QED
                BY <2>1, <2>5, <3>1, <4>1, <4>2, <4>3 DEF Known
        <3>5. Once'
            <4>1. \A k \in 1..Len(results) : results[k] # fed + 1
                BY <1>1, <3>1 DEF Known, Types
            <4>2. \A w \in Worker : worker[w].item # fed + 1
                BY <1>1, <3>1 DEF Known, Types
            <4>3. \A k \in 1..Len(input) : input[k] # fed + 1
                BY <1>1, <3>1 DEF Known, Types
            <4>4. fed + 1 \notin Arrived
                BY <1>1, <2>2, <3>3 DEF Types
            <4> QED
                BY <2>1, <2>5, <3>1, <3>2, <4>1, <4>2, <4>3, <4>4 DEF Once
        <3> QED
            BY <3>4, <3>5
    <2> QED
        BY <2>1, <2>4, <2>6 DEF Inv
<1> QED
    BY <1>2, <1>3

----------------------------------------------------------------------------
(* Workers *)

\* Only this worker changes.
Turn(w, pc, item) ==
  /\ worker' \in [Worker -> WorkerState]
  /\ worker'[w].pc = pc /\ worker'[w].item = item
  /\ \A v \in Worker \ {w} : worker'[v] = worker[v]

LEMMA WorkerMoves ==
  ASSUME NEW r \in WorkerState, NEW pc \in {"recv", "send", "finalize", "done"}, NEW i \in Nat
  PROVE  LET s == [r EXCEPT !.pc = pc, !.item = i]
         IN  s \in WorkerState /\ s.pc = pc /\ s.item = i
BY Zenon DEF WorkerState

LEMMA ConsumeStep == ASSUME Inv, NEW w \in Worker, consume(w) PROVE Inv'
<1>1. Types /\ InOrder
    BY DEF Inv
<1> DEFINE i == Head(input)
           pc == IF i \in given.panics THEN "done" ELSE "send"
           mine == IF i \in given.panics THEN 0 ELSE i
<1>2. /\ input # <<>> /\ input' = Tail(input)
      /\ UNCHANGED <<given, fed, results, main, next_chunk, store, yielded>>
    BY DEF consume, in_order_vars
<1>3. /\ i = input[1] /\ i \in Nat /\ input' \in Seq(Nat)
      /\ Len(input) \in Nat \ {0} /\ Len(input') = Len(input) - 1
      /\ \A k \in 1..Len(input') : input'[k] = input[k + 1]
    BY <1>1, <1>2, HeadTail DEF Types
<1>4. Turn(w, pc, mine)
    <2>1. CASE i \in given.panics
        <3>1. worker' = [worker EXCEPT ![w] = [pc |-> "done", item |-> 0, panicked |-> i]]
            BY <2>1 DEF consume
        <3> QED
            BY <1>1, <1>3, <2>1, <3>1 DEF Turn, Types, WorkerState
    <2>2. CASE i \notin given.panics
        <3>1. worker' = [worker EXCEPT ![w] = [worker[w] EXCEPT !.pc = "send", !.item = i]]
            BY Zenon, <2>2 DEF consume
        <3> DEFINE r == [worker[w] EXCEPT !.pc = "send", !.item = i]
        <3>2. r \in WorkerState /\ r.pc = "send" /\ r.item = i
            <4>1. worker[w] \in WorkerState
                BY <1>1 DEF Types
            <4> QED
                BY Zenon, <1>3, <4>1, WorkerMoves
        <3> HIDE DEF r
        <3>3. worker' = [worker EXCEPT ![w] = r]
            BY <3>1 DEF r
        <3> QED
            BY <1>1, <2>2, <3>2, <3>3 DEF Turn, Types
    <2> QED
        BY <2>1, <2>2
<1>5. Types' /\ InOrder'
    BY <1>1, <1>2, <1>3, <1>4 DEF Types, InOrder, Turn, Worker
<1>6. Arrived' = Arrived /\ Worker' = Worker
    BY <1>2 DEF Arrived, Worker
<1>7. ASSUME given.in_order PROVE Known' /\ Once'
    <2>1. Known /\ Once
        BY <1>7 DEF Inv
    <2>2. 1 \in 1..Len(input) /\ mine \in {0, input[1]}
        BY <1>3
    <2>3. \A k \in 1..Len(input') : k + 1 \in 1..Len(input) /\ k + 1 # 1 /\ input'[k] = input[k + 1]
        BY <1>3
    <2>4. \A k, j \in 1..Len(input') : k + 1 = j + 1 => k = j
        BY <1>3
    <2>5. input[1] \in 1..fed /\ input[1] # 0 /\ pc # "finalize" /\ (pc = "send" => mine # 0)
        BY <1>1, <1>3, <2>1, <2>2 DEF Known, Types
    <2> HIDE DEF mine, pc, i
    <2>6. Known'
        <3>1. \A k \in 1..Len(input') : input'[k] \in 1..fed
            BY <2>1, <2>3 DEF Known
        <3>2. 0 \in 0..fed /\ mine \in 0..fed
            BY <1>1, <2>2, <2>5 DEF Types
        <3>3. \A v \in Worker : /\ worker'[v].item \in 0..fed
                                /\ worker'[v].pc = "send" => worker'[v].item # 0
                                /\ worker'[v].pc # "finalize"
            BY <1>4, <2>1, <2>5, <3>2 DEF Known, Turn
        <3> QED
            BY <1>2, <1>6, <2>1, <3>1, <3>3 DEF Known
    <2>7. Once'
        <3>1. \A v \in Worker : \/ worker'[v].item = worker[v].item
                                \/ v = w /\ worker'[v].item \in {0, input[1]}
            BY <1>4, <2>2 DEF Turn
        <3>2. 0 \notin Arrived /\ \A k \in 1..Len(results) : results[k] # 0
            BY <1>1, <2>1 DEF Known, Arrived, Types
        <3>3. \A k \in 1..Len(input) : input[k] # 0
            BY <1>1, <2>1 DEF Known, Types
        <3>4. \A j, k \in 1..Len(input') : input'[j] = input'[k] => j = k
            BY <2>1, <2>3, <2>4 DEF Once
        <3>5. \A u, v \in Worker : worker'[u].item = worker'[v].item /\ worker'[u].item # 0 => u = v
            BY <2>1, <2>2, <3>1 DEF Once
        <3>6. \A k \in 1..Len(input'), v \in Worker : input'[k] # worker'[v].item
            BY <2>1, <2>2, <2>3, <3>1, <3>3 DEF Once
        <3>7. /\ \A k \in 1..Len(input') : input'[k] \notin Arrived
              /\ \A k \in 1..Len(input'), j \in 1..Len(results) : input'[k] # results[j]
            BY <2>1, <2>3 DEF Once
        <3>8. /\ \A v \in Worker, j \in 1..Len(results) : worker'[v].item # results[j]
              /\ \A v \in Worker : worker'[v].item \notin Arrived
            BY <2>1, <2>2, <3>1, <3>2 DEF Once
        <3> QED
            BY <1>2, <1>6, <2>1, <3>4, <3>5, <3>6, <3>7, <3>8 DEF Once
    <2> QED
        BY <2>6, <2>7
<1> QED
    BY <1>2, <1>5, <1>7 DEF Inv

\* A worker keeps its item, or has it no more.
LEMMA RestStep ==
  ASSUME Inv, NEW w \in Worker, NEW pc \in {"recv", "done"}, NEW item \in {0, worker[w].item},
         Turn(w, pc, item),
         UNCHANGED <<given, fed, input, results, main, next_chunk, store, yielded>>
  PROVE  Inv'
<1>1. Types /\ InOrder
    BY DEF Inv
<1>2. Types' /\ InOrder'
    BY <1>1 DEF Types, InOrder, Turn, Worker
<1>3. Arrived' = Arrived /\ Worker' = Worker
    BY DEF Arrived, Worker
<1>4. ASSUME given.in_order PROVE Known' /\ Once'
    <2>1. Known /\ Once
        BY <1>4 DEF Inv
    <2>2. \A v \in Worker : worker'[v].item \in {0, worker[v].item}
        BY DEF Turn
    <2>3. \A v \in Worker : \/ v # w /\ worker'[v] = worker[v]
                            \/ worker'[v].pc \in {"recv", "done"}
        BY DEF Turn
    <2>4. 0 \in 0..fed /\ 0 \notin Arrived
        BY <1>1, <2>1 DEF Known, Arrived, Types
    <2>5. /\ \A k \in 1..Len(results) : results[k] # 0
          /\ \A k \in 1..Len(input) : input[k] # 0
        BY SMTT(60), <1>1, <2>1 DEF Known, Types
    <2>6. Known'
        BY <1>3, <2>1, <2>2, <2>3, <2>4 DEF Known
    <2>7. Once'
        BY <1>3, <2>1, <2>2, <2>4, <2>5 DEF Once
    <2> QED
        BY <2>6, <2>7
<1> QED
    BY <1>2, <1>4 DEF Inv

LEMMA ConsumedAllStep == ASSUME Inv, NEW w \in Worker, consumed_all(w) PROVE Inv'
<1>1. Types /\ InOrder /\ worker[w] \in WorkerState
    BY DEF Inv, Types
<1> DEFINE pc == IF given.how = "with_finalize" THEN "finalize" ELSE "done"
           r == [worker[w] EXCEPT !.pc = pc]
<1>2. /\ worker' = [worker EXCEPT ![w] = r]
      /\ UNCHANGED <<given, fed, input, results, main, next_chunk, store, yielded>>
    BY <1>1 DEF consumed_all, in_order_vars, Types
<1>3. r \in WorkerState /\ r.pc = pc /\ r.item = worker[w].item
    BY <1>1 DEF WorkerState
<1> HIDE DEF r
<1>4. Turn(w, pc, worker[w].item)
    BY <1>1, <1>2, <1>3 DEF Turn, Types
<1>5. CASE given.in_order
    <2>1. pc = "done"
        BY <1>1, <1>5 DEF Types
    <2> QED
        BY <1>2, <1>4, <2>1, RestStep
<1>6. CASE ~given.in_order
    BY <1>1, <1>2, <1>4, <1>6 DEF Inv, Types, InOrder, Turn, Worker
<1> QED
    BY <1>5, <1>6

LEMMA FinalizeStep == ASSUME Inv, NEW w \in Worker, finalize(w) PROVE Inv'
<1>1. Types /\ InOrder /\ worker[w] \in WorkerState
    BY DEF Inv, Types
<1> DEFINE r == [worker[w] EXCEPT !.pc = "done"]
<1>2. /\ worker' = [worker EXCEPT ![w] = r] /\ worker[w].pc = "finalize"
      /\ UNCHANGED <<given, fed, input, main, next_chunk, store, yielded>>
    BY <1>1 DEF finalize, in_order_vars, Types
<1>3. r \in WorkerState
    BY <1>1 DEF WorkerState
<1> HIDE DEF r
<1>4. results' \in Seq(Nat)
    <2>1. results \in Seq(Nat) /\ Append(results, 0) \in Seq(Nat)
        BY <1>1, Appended DEF Types
    <2>2. results' = results \/ results' = Append(results, 0)
        BY DEF finalize, Finalized
    <2> QED
        BY <2>1, <2>2
<1>5. ~given.in_order
    BY <1>2 DEF Inv, Known
<1> QED
    BY <1>1, <1>2, <1>3, <1>4, <1>5 DEF Inv, Types, InOrder, Worker

LEMMA SendStep == ASSUME Inv, NEW w \in Worker, send_result(w) PROVE Inv'
<1>1. Types /\ InOrder /\ worker[w] \in WorkerState
    BY DEF Inv, Types
<1> DEFINE pc == IF NoReceiverOfResults THEN "done" ELSE "recv"
           item == worker[w].item
           r == [worker[w] EXCEPT !.item = 0, !.pc = pc]
<1>2. /\ worker' = [worker EXCEPT ![w] = r] /\ worker[w].pc = "send"
      /\ UNCHANGED <<given, fed, input, main, next_chunk, store, yielded>>
    BY Zenon, <1>1 DEF send_result, in_order_vars, Types
<1>3. r \in WorkerState /\ r.pc = pc /\ r.item = 0 /\ item \in Nat
    BY Zenon, <1>1 DEF WorkerState
<1> HIDE DEF r
<1>4. Turn(w, pc, 0)
    BY <1>1, <1>2, <1>3 DEF Turn, Types
<1>5. CASE NoReceiverOfResults
    <2>1. results' = results /\ pc \in {"recv", "done"}
        BY <1>5 DEF send_result
    <2> QED
        BY <1>2, <1>4, <2>1, RestStep
<1>6. CASE ~NoReceiverOfResults
    <2>1. results' = Append(results, item)
        BY <1>6 DEF send_result
    <2> HIDE DEF pc, item
    <2>2. /\ results' \in Seq(Nat) /\ Len(results') = Len(results) + 1 /\ Len(results) \in Nat
          /\ \A k \in 1..Len(results) : results'[k] = results[k]
          /\ results'[Len(results) + 1] = item
        BY <1>1, <1>3, <2>1, Appended DEF Types
    <2>3. Types' /\ InOrder'
        BY <1>1, <1>2, <1>4, <2>2 DEF Types, InOrder, Turn, Worker
    <2>4. Arrived' = Arrived /\ Worker' = Worker
        BY <1>2 DEF Arrived, Worker
    <2>5. ASSUME given.in_order PROVE Known' /\ Once'
        <3>1. Known /\ Once
            BY <2>5 DEF Inv
        <3>2. \A k \in 1..Len(results') : \/ results'[k] = item /\ k = Len(results) + 1
                                          \/ k \in 1..Len(results) /\ results'[k] = results[k]
            BY <2>2
        <3>3. /\ \A v \in Worker \ {w} : worker'[v] = worker[v]
              /\ worker'[w].item = 0 /\ worker'[w].pc \in {"recv", "done"}
            BY <1>4 DEF Turn, pc
        <3>4. item \in 1..fed /\ item # 0 /\ item = worker[w].item
            BY <1>1, <1>2, <3>1 DEF Known, Types, item
        <3>5. 0 \in 0..fed /\ 0 \notin Arrived
            BY <1>1, <3>1 DEF Known, Arrived, Types
        <3>6. /\ \A k \in 1..Len(results) : results[k] # 0
              /\ \A k \in 1..Len(input) : input[k] # 0
            BY <1>1, <3>1 DEF Known, Types
        <3>7. \A v \in Worker : \/ v # w /\ worker'[v].item = worker[v].item
                                \/ v = w /\ worker'[v].item = 0
            BY <3>3
        <3>8. Known'
            <4>1. \A k \in 1..Len(results') : results'[k] \in 1..fed
                BY <3>1, <3>2, <3>4 DEF Known
            <4> QED
                BY <1>2, <2>4, <3>1, <3>3, <3>5, <4>1 DEF Known
        <3>9. Once'
            <4>1. \A j, k \in 1..Len(results') : results'[j] = results'[k] => j = k
                BY <3>1, <3>2, <3>4 DEF Once
            <4>2. \A u, v \in Worker : worker'[u].item = worker'[v].item /\ worker'[u].item # 0 => u = v
                BY <3>1, <3>7 DEF Once
            <4>3. \A k \in 1..Len(input), v \in Worker : input[k] # worker'[v].item
                BY <3>1, <3>6, <3>7 DEF Once
            <4>4. \A k \in 1..Len(input), j \in 1..Len(results') : input[k] # results'[j]
                BY <3>1, <3>2, <3>4 DEF Once
            <4>5. \A v \in Worker, j \in 1..Len(results') : worker'[v].item # results'[j]
                BY <3>1, <3>2, <3>4, <3>6, <3>7 DEF Once
            <4>6. /\ \A v \in Worker : worker'[v].item \notin Arrived
                  /\ \A j \in 1..Len(results') : results'[j] \notin Arrived
                BY <3>1, <3>2, <3>4, <3>5, <3>7 DEF Once
            <4> QED
                BY <1>2, <2>4, <3>1, <4>1, <4>2, <4>3, <4>4, <4>5, <4>6 DEF Once
        <3> QED
            BY <3>8, <3>9
    <2> QED
        BY <1>2, <2>3, <2>5 DEF Inv
<1> QED
    BY <1>5, <1>6

----------------------------------------------------------------------------
(* The calling thread *)

\* One result is received; InOrderIter knows at most that one more.
LEMMA Received ==
  ASSUME Types, Known, Once, results # <<>>, results' = Tail(results),
         UNCHANGED <<given, fed, input, worker>>,
         Arrived' \subseteq Arrived \union {results[1]},
         store' \subseteq 1..fed, next_chunk' <= fed + 1
  PROVE  Known' /\ Once'
<1>1. Worker' = Worker
    BY DEF Worker
<1>2. /\ 1 \in 1..Len(results) /\ Len(results') = Len(results) - 1 /\ Len(results) \in Nat
      /\ \A k \in 1..Len(results') : results'[k] = results[k + 1]
    BY HeadTail DEF Types
<1>3. \A k \in 1..Len(results') : k + 1 \in 1..Len(results) /\ k + 1 # 1 /\ results'[k] = results[k + 1]
    BY <1>2
<1>4. \A k, j \in 1..Len(results') : k + 1 = j + 1 => k = j
    BY <1>2
<1>5. Known'
    BY <1>1, <1>3 DEF Known
<1>6. Once'
    <2>1. \A j, k \in 1..Len(results') : results'[j] = results'[k] => j = k
        BY SMTT(60), <1>3, <1>4 DEF Once
    <2>2. /\ \A k \in 1..Len(input), j \in 1..Len(results') : input[k] # results'[j]
          /\ \A w \in Worker, j \in 1..Len(results') : worker[w].item # results'[j]
        BY <1>3 DEF Once
    <2>3. /\ \A k \in 1..Len(input) : input[k] # results[1]
          /\ \A w \in Worker : worker[w].item # results[1]
          /\ \A j \in 1..Len(results') : results'[j] # results[1]
        BY <1>2, <1>3 DEF Once
    <2>4. /\ \A k \in 1..Len(input) : input[k] \notin Arrived'
          /\ \A w \in Worker : worker[w].item \notin Arrived'
          /\ \A j \in 1..Len(results') : results'[j] \notin Arrived'
        BY <1>3, <2>3 DEF Once
    <2> QED
        BY <1>1, <2>1, <2>2, <2>4 DEF Once
<1> QED
    BY <1>5, <1>6

\* Steps that change nothing but where the calling thread is, and what it will return
LEMMA MainMoves ==
  ASSUME Inv, main' \in MainState,
         main'.res # "unreachable",
         UNCHANGED <<given, fed, input, results, worker, next_chunk, store, yielded>>
  PROVE  Inv'
BY Zenon DEF Inv, Types, InOrder, Known, Once, Arrived, Worker

LEMMA LeaveMoves ==
  ASSUME Types, NEW res \in Res, Leave(res)
  PROVE  main' \in MainState /\ main'.res = res
BY Zenon DEF Types, MainState, Leave

LEMMA NextItem ==
  ASSUME Inv, given.in_order, next_chunk \in 1..fed, Yield(next_chunk)
  PROVE  /\ next_chunk' = next_chunk + 1 /\ next_chunk' <= fed + 1 /\ next_chunk' \in Nat \ {0}
         /\ yielded' \in Seq(Nat) /\ Len(yielded') = next_chunk' - 1
         /\ \A k \in 1..Len(yielded') : yielded'[k] = k
<1>1. /\ next_chunk \in Nat \ {0} /\ fed \in Nat /\ yielded \in Seq(Nat)
      /\ Len(yielded) = next_chunk - 1 /\ \A k \in 1..Len(yielded) : yielded[k] = k
    BY DEF Inv, Types, InOrder
<1>2. /\ yielded' \in Seq(Nat) /\ Len(yielded') = Len(yielded) + 1
      /\ \A k \in 1..Len(yielded) : yielded'[k] = yielded[k]
      /\ yielded'[Len(yielded) + 1] = next_chunk
    BY <1>1, Appended DEF Yield
<1> QED
    BY <1>1, <1>2 DEF Yield

LEMMA InOrderStep == ASSUME Inv, in_order_next PROVE Inv'
<1> DEFINE c == Head(results)
           arrived == store \union {c}
<1>1. /\ Types /\ InOrder /\ Known /\ Once /\ given.in_order
      /\ results # <<>> /\ results' = Tail(results) /\ UNCHANGED <<given, fed, input, worker>>
    BY DEF Inv, in_order_next
<1>2. c = results[1] /\ results' \in Seq(Nat) /\ 1 \in 1..Len(results)
    BY <1>1, HeadTail DEF Types
<1>3. c \in 1..fed /\ c \notin Arrived
    BY <1>1, <1>2 DEF Known, Once
<1>4. c \in Nat \ {0} /\ fed \in Nat /\ next_chunk \in Nat \ {0}
    BY <1>1, <1>3 DEF Types
<1>5. ~(c < next_chunk \/ c \in store)
    BY <1>3, <1>4 DEF Arrived
<1>6. CASE c \in given.fails
    <2>1. Leave("Err") /\ store' = {} /\ UNCHANGED <<next_chunk, yielded>>
        BY <1>6 DEF in_order_next
    <2>2. main' \in MainState /\ main'.res = "Err"
        BY <1>1, <2>1, LeaveMoves DEF Res
    <2>3. Arrived' \subseteq Arrived \union {results[1]}
        BY <2>1 DEF Arrived
    <2>4. store' \subseteq 1..fed /\ next_chunk' <= fed + 1
        BY <1>1, <2>1 DEF Known
    <2>5. Known' /\ Once'
        BY <1>1, <2>3, <2>4, Received
    <2>6. Types' /\ InOrder'
        BY <1>1, <1>2, <2>1, <2>2 DEF Types, InOrder, Worker
    <2> QED
        BY <2>5, <2>6 DEF Inv
<1>7. CASE c \notin given.fails /\ next_chunk \in arrived
    <2>1. Yield(next_chunk) /\ store' = arrived \ {next_chunk} /\ main' = main
        BY <1>5, <1>7 DEF in_order_next
    <2> HIDE DEF c
    <2>2. arrived \subseteq 1..fed /\ arrived \subseteq Nat
        BY <1>1, <1>3 DEF Known, Types
    <2>3. /\ next_chunk' = next_chunk + 1 /\ next_chunk' <= fed + 1 /\ next_chunk' \in Nat \ {0}
          /\ yielded' \in Seq(Nat) /\ Len(yielded') = next_chunk' - 1
          /\ \A k \in 1..Len(yielded') : yielded'[k] = k
        BY <1>1, <1>7, <2>1, <2>2, NextItem
    <2>4. Arrived' \subseteq Arrived \union {results[1]}
        <3> SUFFICES ASSUME NEW i \in Arrived' PROVE i \in Arrived \union {c}
            BY <1>2
        <3>1. CASE i \in store'
            BY <2>1, <3>1 DEF Arrived
        <3>2. CASE i \in Nat \ {0} /\ i < next_chunk'
            <4>1. i < next_chunk \/ i = next_chunk
                BY <1>4, <2>3, <3>2
            <4> QED
                BY <1>7, <3>2, <4>1 DEF Arrived
        <3> QED
            BY <3>1, <3>2 DEF Arrived
    <2>5. store' \subseteq 1..fed /\ store' \in SUBSET Nat
        BY <2>1, <2>2
    <2>6. Known' /\ Once'
        BY <1>1, <2>3, <2>4, <2>5, Received
    <2>7. Types' /\ InOrder'
        BY <1>1, <1>2, <2>1, <2>3, <2>5 DEF Types, InOrder, Worker
    <2> QED
        BY <2>6, <2>7 DEF Inv
<1>8. CASE c \notin given.fails /\ next_chunk \notin arrived
    <2>1. store' = arrived /\ UNCHANGED <<main, next_chunk, yielded>>
        BY <1>5, <1>8 DEF in_order_next
    <2> HIDE DEF c
    <2>2. Arrived' \subseteq Arrived \union {results[1]}
        BY <1>2, <2>1 DEF Arrived
    <2>3. store' \subseteq 1..fed /\ store' \in SUBSET Nat /\ next_chunk' <= fed + 1
        BY <1>1, <1>3, <2>1 DEF Known, Types
    <2>4. Known' /\ Once'
        BY <1>1, <2>2, <2>3, Received
    <2>5. Types' /\ InOrder'
        BY <1>1, <1>2, <2>1, <2>3 DEF Types, InOrder, Worker
    <2> QED
        BY <2>4, <2>5 DEF Inv
<1> QED
    BY <1>6, <1>7, <1>8

LEMMA InOrderRestStep == ASSUME Inv, in_order_rest PROVE Inv'
<1>1. /\ Types /\ InOrder /\ Known /\ Once /\ given.in_order
      /\ UNCHANGED <<given, fed, input, worker, results>>
    BY DEF Inv, in_order_rest
<1>2. CASE next_chunk \in store
    <2>1. Yield(next_chunk) /\ store' = store \ {next_chunk} /\ main' = main
        BY <1>2 DEF in_order_rest
    <2>2. next_chunk \in 1..fed /\ next_chunk \in Nat
        BY <1>1, <1>2 DEF Known, Types
    <2>3. /\ next_chunk' = next_chunk + 1 /\ next_chunk' <= fed + 1 /\ next_chunk' \in Nat \ {0}
          /\ yielded' \in Seq(Nat) /\ Len(yielded') = next_chunk' - 1
          /\ \A k \in 1..Len(yielded') : yielded'[k] = k
        BY <1>1, <2>1, <2>2, NextItem
    <2>4. \A i : i \in Arrived' => i \in Arrived
        <3> SUFFICES ASSUME NEW i \in Arrived' PROVE i \in Arrived
            OBVIOUS
        <3>1. CASE i \in Nat \ {0} /\ i < next_chunk'
            <4>1. i < next_chunk \/ i = next_chunk
                BY <2>2, <2>3, <3>1
            <4> QED
                BY <1>2, <3>1, <4>1 DEF Arrived
        <3> QED
            BY <2>1, <3>1 DEF Arrived
    <2>5. Types' /\ InOrder'
        BY <1>1, <2>1, <2>3 DEF Types, InOrder, Worker
    <2>6. Worker' = Worker
        BY <1>1 DEF Worker
    <2>7. Known'
        BY Zenon, <1>1, <2>1, <2>3, <2>6 DEF Known
    <2>8. Once'
        BY <1>1, <2>4, <2>6 DEF Once
    <2> QED
        BY <2>5, <2>7, <2>8 DEF Inv
<1>3. CASE next_chunk \notin store
    <2>1. PICK res \in {"Ok", "panic"} : Leave(res) /\ UNCHANGED <<next_chunk, store, yielded>>
        BY <1>3 DEF in_order_rest, in_order_vars
    <2>2. main' \in MainState /\ main'.res # "unreachable"
        BY <1>1, <2>1, LeaveMoves DEF Res
    <2> QED
        BY <1>1, <2>1, <2>2, MainMoves
<1> QED
    BY <1>2, <1>3

LEMMA MainStepKeeps == ASSUME Inv, MainStep \/ drop_stepwise PROVE Inv'
<1>1. Types /\ InOrder
    BY DEF Inv
<1>2. CASE spawned
    <2>1. main' \in MainState /\ main'.res = main.res
        BY Zenon, <1>1, <1>2 DEF spawned, Types, MainState
    <2> QED
        BY <1>1, <1>2, <2>1, MainMoves DEF spawned, in_order_vars, InOrder
<1>3. CASE reduce
    <2>1. results # <<>> /\ results' = Tail(results) /\ ~given.in_order
          /\ UNCHANGED <<given, fed, input, worker, next_chunk, store, yielded>>
        BY <1>3 DEF reduce, in_order_vars
    <2>2. results' \in Seq(Nat)
        BY <1>1, <2>1, HeadTail DEF Types
    <2>3. main' \in MainState /\ main'.res # "unreachable"
        <3>1. Leave("Err") \/ main' = main
            BY <1>3 DEF reduce
        <3>2. Leave("Err") => main' \in MainState /\ main'.res = "Err"
            BY <1>1, LeaveMoves DEF Res
        <3> QED
            BY <1>1, <3>1, <3>2 DEF Types, InOrder
    <2> QED
        BY <1>1, <2>1, <2>2, <2>3 DEF Inv, Types, InOrder, Worker
<1>4. CASE reducer_finalize \/ drop_stepwise
    <2>1. /\ Leave("Ok") \/ Leave("dropped")
          /\ UNCHANGED <<given, fed, input, results, worker, next_chunk, store, yielded>>
        BY <1>4 DEF reducer_finalize, drop_stepwise, in_order_vars
    <2>2. Leave("Ok") => main' \in MainState /\ main'.res = "Ok"
        BY <1>1, LeaveMoves DEF Res
    <2>3. Leave("dropped") => main' \in MainState /\ main'.res = "dropped"
        BY <1>1, LeaveMoves DEF Res
    <2> QED
        BY <2>1, <2>2, <2>3, MainMoves
<1>5. CASE join
    <2>1. main' \in MainState /\ main'.res \in {"panic", main.res}
        BY <1>1, <1>5 DEF join, Types, MainState, Res
    <2> QED
        BY <1>1, <1>5, <2>1, MainMoves DEF join, in_order_vars, InOrder
<1> QED
    BY <1>2, <1>3, <1>4, <1>5, InOrderStep, InOrderRestStep DEF MainStep

LEMMA InvStep == ASSUME Inv, [Next]_vars PROVE Inv'
<1>1. CASE UNCHANGED vars
    BY ZenonT(60), <1>1 DEF vars, in_order_vars, Inv, Types, InOrder, Known, Once, Arrived, Worker
<1>2. ASSUME NEW w \in Worker, WorkerStep(w) PROVE Inv'
    BY <1>2, ConsumeStep, ConsumedAllStep, SendStep, FinalizeStep DEF WorkerStep
<1> QED
    BY <1>1, <1>2, FeedStep, MainStepKeeps DEF Next

LEMMA InvInit == ASSUME Calls, Init PROVE Inv
<1>1. given \in Scenario
    BY DEF Init
<1>2. /\ given.items \in Nat /\ given.threads \in Nat
      /\ given.in_order => given.how # "with_finalize"
    BY <1>1 DEF Calls
<1>3. worker \in [Worker -> WorkerState] /\ \A w \in Worker : worker[w].item = 0 /\ worker[w].pc = "recv"
    BY DEF Init, WorkerState
<1>4. main \in MainState /\ main.res = "none"
    BY DEF Init, MainState, Res
<1>5. Types /\ InOrder
    BY <1>2, <1>3, <1>4 DEF Init, Types, InOrder
<1>6. Known /\ Once
    BY <1>3 DEF Init, Known, Once, Arrived
<1> QED
    BY <1>5, <1>6 DEF Inv

(***************************************************************************)
(* InInputOrder: InOrderIter yields item after item as the input has them, *)
(* for any number of threads that deliver them in any order, fail or       *)
(* panic, and it never reaches the unreachable!() about an item that was   *)
(* yielded before.  It rests on every item being in one place at a time    *)
(* (Once), from the moment it is taken from the input.                     *)
(***************************************************************************)
THEOREM Ordered == ASSUME Calls PROVE Spec => []InInputOrder
<1>1. Init => Inv
    BY InvInit
<1>2. Inv /\ [Next]_vars => Inv'
    BY InvStep
<1>3. Inv => InInputOrder
    BY DEF Inv, InOrder, InInputOrder
<1> QED
    BY <1>1, <1>2, <1>3, PTL DEF Spec

=============================================================================
