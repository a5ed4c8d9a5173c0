------------------------------ MODULE MC_Fetch ------------------------------
(***************************************************************************)
(* Small repositories that fetch: the negotiation, the resolution of the   *)
(* deltas of the pack that was received, and the update of references.  A  *)
(* behaviour is one of one of them while the others are idle.              *)
(***************************************************************************)
EXTENDS Naturals, Sequences, FiniteSets, FiniteSetsExt, SequencesExt, TLC

CONSTANTS Worlds, Packs, Jobs, None

VARIABLES world, neg, client, wire, server,
          index, stop, interrupt, threads_left, inspected, w, watch, main, pack,
          job, refs, outcome, phase, tx, others

N == INSTANCE Negotiation WITH FirstWindow <- 1, PipesafeFlush <- 2, LargeFlush <- 4,
                               MaxInVain <- 3
D == INSTANCE DeltaTraverse WITH given <- pack, Scenario <- Packs
U == INSTANCE UpdateRefs

----------------------------------------------------------------------------
(* Histories of four commits that we have, and a fifth that only the server has *)

Histories ==
  {<<<<>>, b, c, d, e>> : b \in {<<>>, <<1>>}, c \in {<<>>, <<1>>, <<2>>, <<1, 2>>},
                          d \in {<<>>, <<2>>, <<3>>, <<1, 3>>, <<3, 2>>},
                          e \in {<<3>>, <<4>>, <<2, 3>>}}
Times == {<<1, 2, 3, 4, 5>>, <<4, 3, 2, 1, 5>>, <<2, 4, 1, 3, 5>>}

Closure(h, ids) ==
  FoldSet(LAMBDA i, seen : seen \union UNION {Range(h[id]) : id \in seen}, ids, DOMAIN h)

Heads(h, ids) == {id \in ids : \A c \in ids : id \notin Range(h[c])}

Want(want, have, implicit_tag) == [want |-> want, have |-> have, implicit_tag |-> implicit_tag]

World(h, t, a, v) ==
  LET new == Len(h)
  IN [parents |-> h, time |-> t, tags |-> {}, odb |-> 1..(new - 1), refs |-> Heads(h, 1..(new - 1)), alternate_refs |-> {},
      remote |-> Closure(h, {new}), boundary |-> {}, mappings |-> <<Want(new, None, FALSE)>>,
      algorithm |-> a, version |-> v, stateless |-> v = "V2", shallow |-> "NoChange"]

Algorithms == {"Consecutive", "Skipping"}
Versions == {"V1", "V2"}

Branching == {World(h, t, a, v) : h \in Histories, t \in Times, a \in Algorithms, v \in Versions}

(* Nine commits in a row, of which the server has the first ones *)
Chains ==
  {World([i \in 1..10 |-> CASE i = 1 -> <<>> [] i = 10 -> <<fork>> [] OTHER -> <<i - 1>>],
         [i \in 1..10 |-> i], a, v) : fork \in 1..9, a \in Algorithms, v \in Versions}

(* 1, 2, 3 in a row, the tag 4, and 5 on top of 3 *)
WithTag(a, v) ==
  [World(<<<<>>, <<1>>, <<2>>, <<>>, <<3>>>>, <<1, 2, 3, 0, 5>>, a, v) EXCEPT
     !.tags = {4}, !.refs = {3, 4}, !.remote = 1..5]

Mapped ==
  {[WithTag(a, v) EXCEPT !.mappings = m, !.shallow = s] :
     a \in {"Consecutive"}, v \in Versions, s \in {"NoChange", "Deepen(0)", "Deepen"},
     m \in {<<>>, <<Want(None, None, FALSE)>>, <<Want(None, None, FALSE), Want(5, 3, FALSE)>>,
            <<Want(3, 3, FALSE), Want(4, None, TRUE)>>, <<Want(3, 2, FALSE), Want(4, 4, FALSE)>>,
            <<Want(5, 3, FALSE), Want(4, None, FALSE)>>, <<Want(2, 1, FALSE), Want(5, 2, FALSE)>>}}

(* We have 3 and 4, but not the parents of 3; 4 is ours. *)
ShallowClone(a, v) ==
  [World(<<<<>>, <<1>>, <<2>>, <<3>>, <<3>>>>, <<1, 2, 3, 4, 5>>, a, v) EXCEPT
     !.odb = {3, 4}, !.refs = {4}, !.boundary = {3}]

(* The commits of a chain are reachable only from references of an alternate, or from
   older references of our own, too. *)
Borrowed ==
  {[chain EXCEPT !.refs = rs, !.alternate_refs = {9}] : chain \in Chains, rs \in {{}, {4}}}

AllWorlds == Branching \union Borrowed \union Chains \union Mapped
               \union {ShallowClone("Consecutive", v) : v \in Versions}
SkippingShallow == {ShallowClone("Skipping", "V2")}
NoWorlds == {}

IdleNegotiation ==
  /\ world = World(<<<<>>>>, <<1>>, "Consecutive", "V2")
  /\ neg = [graph |-> <<>>, revs |-> {}, non_common_revs |-> 0, panics |-> FALSE]
  /\ client = [pc |-> "done", sent |-> <<>>, received |-> {}, updated |-> {},
                wants |-> {}, is_done |-> FALSE, in_vain |-> 0]
  /\ wire = [haves |-> <<>>, done |-> FALSE] /\ server = {}

----------------------------------------------------------------------------
(* Packs, by their objects that are no delta, and the deltas on each object *)

Pack(roots, children_of) ==
  [num_threads |-> 2, roots |-> roots, children |-> children_of, broken |-> {}, mismatched |-> {},
   interrupts |-> FALSE, spawn_fails |-> FALSE]

(* 1 has the children 2 and 3 with one child each, 4 and 5; 5 has a child, too.
   7 has no deltas. *)
Bushy == Pack(<<1, 7>>, <<<<2, 3>>, <<4>>, <<5>>, <<>>, <<6>>, <<>>, <<>>>>)

(* Just 1 with 2 and 3, and their children *)
Single == Pack(<<1>>, <<<<2, 3>>, <<4>>, <<5>>, <<>>, <<>>>>)

(* The same, and 6 without deltas *)
Pair == Pack(<<1, 6>>, <<<<2, 3>>, <<4>>, <<5>>, <<>>, <<>>, <<>>>>)

AllPacks ==
  {[Pair EXCEPT !.interrupts = TRUE],
   [Single EXCEPT !.spawn_fails = TRUE],
   [Bushy EXCEPT !.broken = {6}],
   [Single EXCEPT !.broken = {2}],
   [Bushy EXCEPT !.broken = {7}],
   [Single EXCEPT !.mismatched = {3}],
   [Pair EXCEPT !.mismatched = {4}],
   [Single EXCEPT !.num_threads = 3]}
NoPacks == {}

IdleTraversal ==
  /\ pack = [Single EXCEPT !.num_threads = 1] /\ index = 2 /\ stop = TRUE /\ interrupt = FALSE
  /\ threads_left = 1 /\ inspected = [i \in 1..5 |-> 1]
  /\ w = <<[D!NewWorker EXCEPT !.pc = "done"]>> /\ watch = "done"
  /\ main = [pc |-> "done", joined |-> 1, res |-> "Ok"]

----------------------------------------------------------------------------
(* 1 is the parent of 2, 3 and 4; 5 merges 2 and 4, which is older than its parent.
   6 and 7 are no commits, and 8 was not received. *)

Commit(parents, time) == [parents |-> parents, time |-> time]
Graph == <<Commit(<<>>, 2), Commit(<<1>>, 3), Commit(<<1>>, 3), Commit(<<1>>, 1),
           Commit(<<2, 4>>, 4)>>

Direct(name, id) == [name |-> name, id |-> id, target |-> None]
Symbolic(name, target, id) == [name |-> name, id |-> id, target |-> target]
Unborn(name, target) == Symbolic(name, target, None)

Mapping(remote, local, force) ==
  [remote |-> remote, local |-> local, force |-> force, implicit_tag |-> FALSE]

Job(mappings, rs) ==
  [mappings |-> mappings, commits |-> Graph, objects |-> 1..7, refs |-> rs, tags |-> {"tag"},
   worktrees |-> {}, bare |-> FALSE, dry_run |-> FALSE, others |-> 0]

(* Targets of references: see Id and Sym of UpdateRefs *)
AtObject(id) == [id |-> id]
AtRef(name) == [sym |-> name]

Main == "HEAD" :> AtRef("main") @@ "main" :> AtObject(1)

Branches ==
  {[Job(<<Mapping(Direct("a", new), "x", force), Mapping(Direct("b", 5), "y", FALSE)>>,
        "x" :> AtObject(old) @@ "y" :> AtObject(2) @@ Main) EXCEPT !.others = 1] :
     old \in 1..6, new \in {1, 2, 4, 5, 7, 8}, force \in BOOLEAN}
  \union
  {[Job(<<Mapping(Direct("a", new), "x", FALSE)>>, "y" :> AtObject(2) @@ Main) EXCEPT !.others = 1] :
     new \in {1, 2, 4, 5}}

(* The remote's HEAD, which was read before its main moved *)
Symrefs ==
  {[Job(<<Mapping(head, "o/HEAD", FALSE), Mapping(Direct("main", new), local, FALSE)>>,
        "o/HEAD" :> old @@ more) EXCEPT !.bare = bare] :
     head \in {Symbolic("HEAD", "main", 5), Symbolic("HEAD", "dev", 3),
               Unborn("HEAD", "gone"), Direct("HEAD", 2)},
     new \in {5, 8, 3}, local \in {"o/main", "main", None},
     old \in {AtObject(1), AtRef("o/main"), AtRef("gone"), AtRef("main"), AtRef("dev")},
     more \in {rs @@ Main : rs \in {<<>>, "o/main" :> AtObject(2), "o/main" :> AtRef("main"),
                                    "dev" :> AtObject(3), "o/main" :> AtRef("gone")}},
     bare \in BOOLEAN}

Tags ==
  {[Job(<<[Mapping(Direct("tag", new), "tag", force) EXCEPT !.implicit_tag = implicit]>>, rs @@ Main)
      EXCEPT !.dry_run = dry_run, !.worktrees = worktrees] :
     new \in {6, 7, 8}, force \in BOOLEAN, implicit \in BOOLEAN, dry_run \in BOOLEAN,
     worktrees \in {{}, {"main"}, {"tag"}}, rs \in {<<>>, "tag" :> AtObject(6)}}

AllJobs == Branches \union Symrefs \union Tags
HeadToMain ==
  {[Job(<<Mapping(Symbolic("HEAD", "main", 5), "main", FALSE)>>, Main) EXCEPT !.bare = TRUE]}
NoJobs == {}

IdleUpdate ==
  /\ job = Job(<<>>, Main) /\ refs = Main /\ phase = "applied" /\ others = 0
  /\ outcome = [edits |-> <<>>, updates |-> <<>>]
  /\ tx = [current |-> 0, read |-> <<>>, locked |-> {}]

----------------------------------------------------------------------------

Init ==
  \/ N!Init /\ IdleTraversal /\ IdleUpdate
  \/ IdleNegotiation /\ D!Init /\ IdleUpdate
  \/ IdleNegotiation /\ IdleTraversal /\ U!Init

negotiation_vars == <<world, neg, client, wire, server>>
traversal_vars == <<index, stop, interrupt, threads_left, inspected, w, watch, main, pack>>
update_vars == <<job, refs, outcome, phase, tx, others>>

Next ==
  \/ N!Next /\ UNCHANGED <<traversal_vars, update_vars>>
  \/ D!Next /\ UNCHANGED <<negotiation_vars, update_vars>>
  \/ U!Next /\ UNCHANGED <<negotiation_vars, traversal_vars>>

Spec == Init /\ [][Next]_<<negotiation_vars, traversal_vars, update_vars>> /\ D!Fairness

----------------------------------------------------------------------------
(* Properties: those of the modules *)

(* The type invariants of all. *)
TypesOK == N!TypeOK /\ D!TypeOK /\ U!TypeOK

(* Negotiator: non_common_revs counts the revisions that are left to ask about. *)
CountIsExact == N!CountIsExact

(* Negotiator: what is marked COMMON is on the server, and next_have names nothing twice
   (a stateless round repeats what is known to be common). *)
CommonIsShared == N!CommonIsShared

(* receive: references are updated only if all of their history is there. *)
FetchLeavesNoGaps == N!FetchLeavesNoGaps

(* consecutive: nothing is received that is reachable from our references or those of
   alternates. *)
PacksAreExact == N!PacksAreExact

(* push_parent, in_common_with_remote: expect() and assert!() do not fail. *)
NegotiatorNeverPanics == N!NegotiatorNeverPanics

(* Tree::traverse: every object is inspected, once, if the traversal succeeds and nobody
   interrupted it, and a node is shared with other threads once the object its deltas apply to is there. *)
DeltasAreResolved == D!InspectedOnce /\ D!BaseIsStored /\ D!SuccessIsComplete

(* Tree::traverse returns, also after errors and interrupts. *)
TraversalEnds == D!Terminates

(* update: no commits are lost without force, even if other processes change references,
   except between the moment the transaction reads a reference and the one it locks it. *)
BranchesKeepCommits == U!BranchesKeepCommits

(* update: references that lead to an object still do. *)
RefsKeepResolving == U!RefsKeepResolving

(* new_value_by_remote: the resulting references are valid. *)
ResultingRefsAreValid == U!ResultingRefsAreValid
=============================================================================
