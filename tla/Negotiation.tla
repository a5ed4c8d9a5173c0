---------------------------- MODULE Negotiation ----------------------------
(***************************************************************************)
(* Fetching from a remote: which of our commits we tell the server about,  *)
(* in rounds, until it sends a pack, and what is then missing.  The client *)
(* is gix (remote/connection/fetch) with the negotiators of gix-negotiate  *)
(* and the requests and responses of gix-protocol; the server is external. *)
(*                                                                         *)
(* A pack is a set of commits.  Tags are objects without parents; whether  *)
(* they are commits matters to the negotiators, which see only those.      *)
(***************************************************************************)
EXTENDS Naturals, Sequences, FiniteSets, FiniteSetsExt, SequencesExt, TLC

CONSTANTS Worlds,        \* the repositories, and how they talk to each other
          FirstWindow,   \* haves in the first round, 16 in the code
          PipesafeFlush, \* 32
          LargeFlush,    \* 16384
          MaxInVain,     \* 256
          None

VARIABLES world,     \* parents, time, tags, odb, refs, remote, mappings, algorithm, version, ...
          neg,       \* the graph with the flags of commits, and the negotiator
          client,    \* the state of receive()
          wire,      \* the request or the lines of the response under way
          server     \* what the server of a stateful connection knows that we have

vars == <<world, neg, client, wire, server>>

Parents(id) == world.parents[id]

(* What a loop arrives at that handles each commit at most once *)
Loop(step(_), start) ==
  FoldSet(LAMBDA i, acc : step(acc), start, 0..Cardinality(DOMAIN world.parents))

(* The history ends at the boundary of a shallow clone. *)
Ancestors(ids) ==
  Loop(LAMBDA seen : seen \union UNION {Range(Parents(id)) : id \in seen \ world.boundary}, ids)

----------------------------------------------------------------------------
(* The graph: commits are added when they are first looked at, if we have them. *)

IsCommitWeHave(id) == id \in world.odb \ world.tags

Flags(n, id) == IF id \in DOMAIN n.graph THEN n.graph[id].flags ELSE {}

(* Mutant: missing commits are inserted, too. *)
get_or_insert_any(n, id, mark) ==
  [n EXCEPT !.graph = id :> [flags |-> Flags(n, id) \union mark, ttl |-> 0, original_ttl |-> 0] @@ @]

get_or_insert_commit(n, id, mark) ==
  IF id \in DOMAIN n.graph
    THEN [n EXCEPT !.graph[id].flags = @ \union mark]
  ELSE IF IsCommitWeHave(id)
    THEN [n EXCEPT !.graph = id :> [flags |-> mark, ttl |-> 0, original_ttl |-> 0] @@ @]
  ELSE n

Newest(ids) == CHOOSE id \in ids : \A other \in ids : world.time[id] >= world.time[other]

Count(n, d) == [n EXCEPT !.non_common_revs = @ + d]
Uncount(n) == [n EXCEPT !.non_common_revs = @ - 1]

InQueue(flags) == "SEEN" \in flags /\ "POPPED" \notin flags

----------------------------------------------------------------------------
(* consecutive *)

add_to_queue(n, id, mark) ==
  LET g == get_or_insert_commit(n, id, mark)
  IN IF ~IsCommitWeHave(id) \/ Flags(n, id) \cap mark # {} THEN g
     ELSE Count([g EXCEPT !.revs = @ \union {id}], IF "COMMON" \in Flags(g, id) THEN 0 ELSE 1)

(* Mutant: a parent in the queue that becomes common is still counted. *)
mark_parents_counted(n, id, generation, queue) ==
  FoldLeft(LAMBDA acc, p :
             LET g == get_or_insert_commit(acc.n, p, {"COMMON"})
             IN IF ~IsCommitWeHave(p) \/ "COMMON" \in Flags(acc.n, p) THEN [acc EXCEPT !.n = g]
                ELSE [n |-> g, queue |-> p :> generation + 1 @@ acc.queue],
           [n |-> n, queue |-> queue], Parents(id))

(* Parents of a commit become common; those that were not are looked at next. *)
mark_parents_common(n, id, generation, queue) ==
  FoldLeft(LAMBDA acc, p :
             LET prev == Flags(acc.n, p)
                 g == get_or_insert_commit(acc.n, p, {"COMMON"})
             IN IF ~IsCommitWeHave(p) \/ "COMMON" \in prev THEN [acc EXCEPT !.n = g]
                ELSE [n |-> IF InQueue(prev) THEN Uncount(g) ELSE g,
                      queue |-> p :> generation + 1 @@ acc.queue],
           [n |-> n, queue |-> queue], Parents(id))

mark_common_loop(n, id, ancestors) ==
  Loop(LAMBDA acc :
         LET next == Newest(DOMAIN acc.queue)
             rest == [i \in DOMAIN acc.queue \ {next} |-> acc.queue[i]]
         IN IF acc.queue = <<>> THEN acc
            ELSE IF "SEEN" \notin Flags(acc.n, next)
              THEN [n |-> add_to_queue(acc.n, next, {"SEEN"}), queue |-> rest]
            ELSE IF ancestors = "AllUnseen" \/ acc.queue[next] < 2
              THEN mark_parents_common(acc.n, next, acc.queue[next], rest)
            ELSE [n |-> acc.n, queue |-> rest],
       [n |-> n, queue |-> id :> 0]).n

mark_common(n, id, mode, ancestors) ==
  LET g == get_or_insert_commit(n, id, {})
      this == get_or_insert_commit(n, id, {"COMMON"})
  IN IF ~IsCommitWeHave(id) \/ "COMMON" \in Flags(n, id) THEN g
     ELSE mark_common_loop(IF mode = "AncestorsOnly" THEN g
                           ELSE IF InQueue(Flags(n, id)) THEN Uncount(this) ELSE this,
                           id, ancestors)

consecutive_known_common(n, id) ==
  IF "SEEN" \in Flags(n, id) THEN n
  ELSE mark_common(add_to_queue(n, id, {"COMMON_REF", "SEEN"}), id,
                   "AncestorsOnly", "DirectUnseen")

(* A commit is taken from the queue, and its parents added; it may have to be sent. *)
consecutive_next_have(n) ==
  LET id == Newest(n.revs)
      popped == get_or_insert_commit([n EXCEPT !.revs = @ \ {id}], id, {"POPPED"})
      flags == Flags(n, id)
      common == flags \cap {"COMMON", "COMMON_REF"} # {}
      with_parents ==
        FoldLeft(LAMBDA g, p :
                   LET added == IF "SEEN" \in Flags(g, p) THEN g
                                ELSE add_to_queue(g, p, IF common THEN {"COMMON", "SEEN"}
                                                        ELSE {"SEEN"})
                   IN IF common THEN mark_common(added, p, "AncestorsOnly", "AllUnseen")
                      ELSE added,
                 IF "COMMON" \in flags THEN popped ELSE Uncount(popped), Parents(id))
  IN [n |-> with_parents, have |-> IF "COMMON" \in flags THEN None ELSE id]

----------------------------------------------------------------------------
(* skipping *)

skipping_add_to_queue(n, id, mark) ==
  LET g == get_or_insert_commit(n, id, mark \union {"SEEN"})
  IN IF ~IsCommitWeHave(id) THEN g
     ELSE Count([g EXCEPT !.revs = @ \union {id}], IF "COMMON" \in mark THEN 0 ELSE 1)

skipping_mark_common_loop(n, start) ==
  Loop(LAMBDA at :
         LET id == Newest(at.queue)
         IN IF at.queue = {} THEN at
            ELSE FoldLeft(LAMBDA acc, p :
                     IF p \notin DOMAIN acc.n.graph THEN acc
                     ELSE [n |-> get_or_insert_commit(acc.n, p, {"COMMON"}),
                           queue |-> IF "SEEN" \in Flags(acc.n, p) /\ "COMMON" \notin Flags(acc.n, p)
                                       THEN acc.queue \union {p} ELSE acc.queue],
                   [n |-> IF "POPPED" \in Flags(at.n, id) THEN at.n ELSE Uncount(at.n),
                    queue |-> at.queue \ {id}], Parents(id)),
       [n |-> n, queue |-> {start}]).n

skipping_mark_common(n, id) ==
  LET g == get_or_insert_commit(n, id, {"COMMON"})
  IN IF ~IsCommitWeHave(id) \/ "COMMON" \in Flags(n, id) THEN g
     ELSE skipping_mark_common_loop(g, id)

(* The ttl says how many more commits are skipped; it grows with each that is sent. *)
pass_on_ttl(n, entry, p) ==
  LET new_original_ttl == IF entry.ttl > 0 THEN entry.original_ttl
                          ELSE (entry.original_ttl * 3) \div 2 + 1
      new_ttl == IF entry.ttl > 0 THEN entry.ttl - 1 ELSE new_original_ttl
  IN IF n.graph[p].original_ttl >= new_original_ttl THEN n
     ELSE [n EXCEPT !.graph[p].original_ttl = new_original_ttl, !.graph[p].ttl = new_ttl]

(* Parents are expected to be there, which those beyond the boundary of a shallow
   clone are not. *)
push_parent(n, entry, p) ==
  IF "POPPED" \in Flags(n, p) THEN [n |-> n, pushed |-> FALSE]
  ELSE LET added == IF "SEEN" \in Flags(n, p) THEN n ELSE skipping_add_to_queue(n, p, {})
       IN [n |-> IF entry.flags \cap {"COMMON", "ADVERTISED"} # {}
                   THEN skipping_mark_common(added, p)
                 ELSE IF p \in DOMAIN added.graph THEN pass_on_ttl(added, entry, p)
                 ELSE [added EXCEPT !.panics = TRUE],
           pushed |-> TRUE]

skipping_next_have(n) ==
  LET id == Newest(n.revs)
      popped == get_or_insert_commit([n EXCEPT !.revs = @ \ {id}], id, {"POPPED"})
      entry == popped.graph[id]
      common == "COMMON" \in entry.flags
      next == FoldLeft(LAMBDA acc, p :
                LET res == push_parent(acc.n, entry, p)
                IN [n |-> res.n, pushed |-> acc.pushed \/ res.pushed],
                [n |-> IF common THEN popped ELSE Uncount(popped), pushed |-> FALSE], Parents(id))
  IN [n |-> next.n, have |-> IF ~common /\ (entry.ttl = 0 \/ ~next.pushed) THEN id ELSE None]

----------------------------------------------------------------------------
(* Negotiators *)

Skipping == world.algorithm = "Skipping"

known_common(n, id) ==
  IF ~Skipping THEN consecutive_known_common(n, id)
  ELSE IF "SEEN" \in Flags(n, id) THEN n ELSE skipping_add_to_queue(n, id, {"ADVERTISED"})

(* Mutant: our tips are taken to be on the server. *)
add_tip_common(n, id) ==
  IF ~Skipping THEN add_to_queue(n, id, {"SEEN", "COMMON"})
  ELSE IF "SEEN" \in Flags(n, id) THEN n ELSE skipping_add_to_queue(n, id, {"COMMON"})

add_tip(n, id) ==
  IF ~Skipping THEN add_to_queue(n, id, {"SEEN"})
  ELSE IF "SEEN" \in Flags(n, id) THEN n ELSE skipping_add_to_queue(n, id, {})

(* The skipping negotiator asserts that it sent what the server acknowledges. *)
in_common_with_remote(n, id) ==
  IF ~Skipping THEN mark_common(n, id, "This", "DirectUnseen")
  ELSE IF "SEEN" \in Flags(n, id) THEN skipping_mark_common(n, id)
  ELSE [n EXCEPT !.panics = TRUE]

window_size(window) ==
  IF world.stateless
    THEN IF window < LargeFlush THEN window * 2 ELSE (window * 11) \div 10
    ELSE IF window < PipesafeFlush THEN window * 2 ELSE window + PipesafeFlush

----------------------------------------------------------------------------
(* Before the first round *)

(* A mapping without want is that of an unborn branch. *)
Known(i) == world.mappings[i].want \in world.odb
Mappings == 1..Len(world.mappings)
Changed(i) == LET m == world.mappings[i] IN m.want = None \/ m.have = None \/ m.want # m.have

(* All but the tags that the server sends by itself *)
Included == {i \in Mappings : ~world.mappings[i].implicit_tag}

mark_all_refs_in_repo(n, refs) ==
  FoldSet(LAMBDA id, g : get_or_insert_commit(g, id, {"COMPLETE"}), n, refs)

(* The references of alternates, whose objects we have, too *)
mark_alternate_complete(n) ==
  mark_all_refs_in_repo(n, {id \in world.alternate_refs : IsCommitWeHave(id)})

mark_recent_complete_commits(n, tips, cutoff) ==
  Loop(LAMBDA acc :
         LET id == Newest(acc.queue)
             parents == {p \in Range(Parents(id)) : IsCommitWeHave(p)}
         IN IF acc.queue = {} THEN acc
            ELSE IF world.time[id] < cutoff THEN acc
            ELSE [n |-> FoldSet(LAMBDA p, g : get_or_insert_commit(g, p, {"COMPLETE"}),
                                acc.n, parents),
                  queue |-> (acc.queue \ {id})
                              \union {p \in parents : "COMPLETE" \notin Flags(acc.n, p)}],
       [n |-> n, queue |-> tips]).n

(* What to do, and the negotiator if we have to negotiate *)
mark_complete_and_common_ref(n) ==
  LET with_wants == FoldSet(LAMBDA i, g : get_or_insert_commit(g, world.mappings[i].want, {}),
                            n, Mappings)
      cutoffs == {world.time[world.mappings[i].want] :
                    i \in {j \in Mappings : IsCommitWeHave(world.mappings[j].want)}}
      refs == {id \in world.refs : IsCommitWeHave(id)}
      tips == refs \union {id \in world.alternate_refs : IsCommitWeHave(id)}
      with_refs == mark_alternate_complete(mark_all_refs_in_repo(with_wants, refs))
      complete == IF cutoffs = {} THEN with_refs
                  ELSE mark_recent_complete_commits(with_refs, tips, Max(cutoffs))
      common == {world.mappings[i].want : i \in {j \in Mappings :
                   ~Known(j) /\ "COMPLETE" \in Flags(complete, world.mappings[j].want)}}
      with_common == FoldSet(LAMBDA id, g : known_common(g, id), complete, common)
      only_unborn == Len(world.mappings) = 1 /\ world.mappings[1].want = None
  IN IF Mappings = {} \/ world.shallow = "Deepen(0)" THEN [action |-> "NoChange"]
     ELSE IF only_unborn THEN [action |-> "SkipToRefUpdate"]
     ELSE IF world.shallow = "NoChange" /\ \A i \in Included : ~Changed(i)
       THEN [action |-> "NoChange"]
     ELSE IF world.shallow = "NoChange" /\ \A i \in Included : Known(i)
       THEN [action |-> "SkipToRefUpdate"]
     ELSE [action |-> "MustNegotiate",
           n |-> FoldSet(LAMBDA id, g : add_tip(g, id), with_common, tips)]

(* With shallow fetches we want what we know, too, and say which tags we have. *)
add_wants ==
  LET wanted == SelectSeq([i \in Mappings |-> i],
                          LAMBDA i : i \in Included /\ (world.shallow # "NoChange" \/ ~Known(i)))
      tags == SelectSeq(wanted, LAMBDA i : world.mappings[i].want \in world.odb \cap world.tags)
  IN [wants |-> {world.mappings[wanted[i]].want : i \in 1..Len(wanted)} \ {None},
      haves |-> [i \in 1..Len(tags) |-> world.mappings[tags[i]].want]]

receive ==
  LET res == mark_complete_and_common_ref(neg)
      arguments == add_wants
  IN /\ client.pc = "receive"
     /\ IF res.action = "MustNegotiate"
          THEN /\ neg' = res.n
               /\ client' = [client EXCEPT !.pc = "round", !.wants = arguments.wants,
                                           !.haves = arguments.haves]
          ELSE /\ client' = [client EXCEPT !.pc = "update_refs"]
               /\ UNCHANGED neg
     /\ UNCHANGED <<world, wire, server>>

----------------------------------------------------------------------------
(* Rounds *)

(* What the server has in common is told to the negotiator and, if the server forgets
   it, with each request again. *)
acknowledge ==
  LET ack == Head(client.acks)
      is_common == ack.line = "common"
      informed == in_common_with_remote(neg, ack.id)
  IN /\ client.pc = "round" /\ client.acks # <<>>
     /\ neg' = IF is_common THEN informed ELSE neg
     /\ client' = [client EXCEPT !.acks = Tail(@),
          !.pc = IF is_common /\ informed.panics THEN "panic" ELSE @,
          !.acked = @ \/ is_common,
          !.common = IF is_common /\ world.stateless THEN Append(@, ack.id) ELSE @]
     /\ UNCHANGED <<world, wire, server>>

Asking ==
  /\ client.pc = "round" /\ client.acks = <<>>
  /\ ~client.over /\ Len(client.new) < client.haves_to_send

(* Mutant: a commit that need not be sent ends the walk. *)
next_have_once ==
  LET res == IF Skipping THEN skipping_next_have(neg) ELSE consecutive_next_have(neg)
  IN /\ Asking
     /\ IF neg.revs = {} \/ neg.non_common_revs = 0
          THEN /\ neg' = [neg EXCEPT !.revs = {}]
               /\ client' = [client EXCEPT !.over = TRUE]
          ELSE /\ neg' = res.n
               /\ client' = [client EXCEPT
                    !.over = res.have = None,
                    !.new = IF res.have = None THEN @ ELSE Append(@, res.have)]
     /\ UNCHANGED <<world, wire, server>>

(* One commit is taken from the queue of the negotiator, which goes on until there is
   one to send, or none that is not common. *)
next_have ==
  LET res == IF Skipping THEN skipping_next_have(neg) ELSE consecutive_next_have(neg)
  IN /\ Asking
     /\ IF neg.revs = {} \/ neg.non_common_revs = 0
          THEN /\ neg' = [neg EXCEPT !.revs = IF @ = {} THEN @ ELSE @ \ {Newest(@)}]
               /\ client' = [client EXCEPT !.over = TRUE]
          ELSE /\ neg' = res.n
               /\ client' = [client EXCEPT
                    !.pc = IF res.n.panics THEN "panic" ELSE @,
                    !.new = IF res.have = None THEN @ ELSE Append(@, res.have)]
     /\ UNCHANGED <<world, wire, server>>

(* The end of the round: the request is sent. *)
one_round ==
  LET haves_sent == Len(client.new)
      in_vain == (IF client.acked THEN 0 ELSE client.in_vain) + haves_sent
      seen_ack == client.seen_ack \/ client.acked
      is_done == haves_sent # client.haves_to_send \/ (seen_ack /\ in_vain >= MaxInVain)
  IN /\ client.pc = "round" /\ client.acks = <<>> /\ ~Asking
     /\ wire' = [haves |-> client.haves \o client.common \o client.new, done |-> is_done]
     /\ client' = [client EXCEPT !.pc = "response", !.haves = <<>>, !.new = <<>>, !.over = FALSE,
          !.acked = FALSE, !.in_vain = in_vain, !.seen_ack = seen_ack, !.is_done = is_done,
          !.haves_to_send = window_size(@), !.sent = @ \o client.new]
     /\ UNCHANGED <<world, neg, server>>

(* The server of git, as far as clients see it: it acknowledges what it has, says that
   it is ready when all that is wanted reaches what both have, and then sends a pack,
   with the older protocol only when the client is done. *)
Line(line, id) == [line |-> line, id |-> id]

serve ==
  LET known == (IF world.stateless THEN {} ELSE server) \union (Range(wire.haves) \cap world.remote)
      ready == \A id \in client.wants : Ancestors({id}) \cap known # {}
      common == SelectSeq(wire.haves, LAMBDA id : id \in world.remote)
      acks == [i \in 1..Len(common) |-> Line("common", common[i])]
      nak == <<Line("NAK", None)>>
      pack == <<Line("pack", None)>>
      final == IF known = {} THEN nak ELSE <<Line("common", Newest(known))>>
      lines == CASE world.version = "V2" /\ wire.done -> pack
                 [] world.version = "V2" /\ ~wire.done /\ ready -> acks \o <<Line("ready", None)>> \o pack
                 [] world.version = "V2" /\ ~wire.done /\ ~ready -> IF acks = <<>> THEN nak ELSE acks
                 [] world.version = "V1" /\ wire.done -> acks \o final \o pack
                 [] world.version = "V1" /\ ~wire.done ->
                      acks \o (IF ready THEN <<Line("ready", None)>> ELSE <<>>) \o nak
  IN /\ client.pc = "response" /\ "haves" \in DOMAIN wire
     /\ server' = known
     /\ wire' = [lines |-> lines, pack |-> Ancestors(client.wants) \ Ancestors(known)]
     /\ UNCHANGED <<world, neg, client>>

(* The line at which a response ends for the client: that of the pack, or with the
   older protocol the NAK that answers a request that was not the last. *)
from_line_reader(lines) ==
  LET stops == {i \in 1..Len(lines) :
                  \/ lines[i].line = "pack"
                  \/ world.version = "V1" /\ ~client.is_done /\ lines[i].line = "NAK"}
  IN IF stops = {} THEN Len(lines) + 1 ELSE Min(stops)

read_response ==
  LET end == from_line_reader(wire.lines)
      has_pack == end <= Len(wire.lines) /\ wire.lines[end].line = "pack"
  IN /\ client.pc = "response" /\ "lines" \in DOMAIN wire
     /\ client' = [client EXCEPT !.pc = IF has_pack THEN "write_pack" ELSE "round",
                                 !.acks = SubSeq(wire.lines, 1, end - 1)]
     /\ UNCHANGED <<world, neg, wire, server>>

(* The bundle is complete, with its index, before references are changed, or there is
   none. *)
write_to_directory ==
  /\ client.pc = "write_pack"
  /\ \/ client' = [client EXCEPT !.pc = "update_refs", !.received = wire.pack]
     \/ client' = [client EXCEPT !.pc = "failed"]
  /\ UNCHANGED <<world, neg, wire, server>>

(* Mutant: references are taken to exist with the pack that was wanted. *)
update_refs_unchecked ==
  /\ client.pc = "update_refs"
  /\ client' = [client EXCEPT !.pc = "done",
                  !.updated = {world.mappings[i].want : i \in Mappings} \ {None}]
  /\ UNCHANGED <<world, neg, wire, server>>

(* See UpdateRefs: mappings to objects that are missing are rejected. *)
update_refs ==
  /\ client.pc = "update_refs"
  /\ client' = [client EXCEPT !.pc = "done",
                  !.updated = {world.mappings[i].want : i \in Mappings}
                                \cap (world.odb \union client.received)]
  /\ UNCHANGED <<world, neg, wire, server>>

----------------------------------------------------------------------------

Init ==
  /\ world \in Worlds
  /\ neg = [graph |-> <<>>, revs |-> {}, non_common_revs |-> 0, panics |-> FALSE]
  /\ client = [pc |-> "receive", wants |-> {}, haves |-> <<>>, haves_to_send |-> FirstWindow,
               acks |-> <<>>, acked |-> FALSE, common |-> <<>>, new |-> <<>>, over |-> FALSE,
               seen_ack |-> FALSE, in_vain |-> 0,
               is_done |-> FALSE, sent |-> <<>>, received |-> {}, updated |-> {}]
  /\ wire = [haves |-> <<>>, done |-> FALSE]
  /\ server = {}

Next ==
  \/ receive \/ acknowledge \/ next_have \/ one_round \/ serve \/ read_response
  \/ write_to_directory \/ update_refs

Spec == Init /\ [][Next]_vars

----------------------------------------------------------------------------
(* Properties *)

TypeOK ==
  /\ neg.revs \subseteq DOMAIN neg.graph /\ DOMAIN neg.graph \subseteq world.odb
  /\ neg.non_common_revs \in Nat
  /\ client.pc \in {"receive", "round", "response", "write_pack", "update_refs", "done",
                    "failed", "panic"}

(* non_common_revs, whose end ends the walk, counts what it says: the revisions in the
   queue that are not known to be common; the skipping negotiator counts more when a
   commit becomes common before it is seen, but never fewer. *)
CountIsExact ==
  LET left == Cardinality({id \in neg.revs : "COMMON" \notin Flags(neg, id)})
  IN client.pc \in {"round", "response"} =>
       IF Skipping THEN neg.non_common_revs >= left ELSE neg.non_common_revs = left

(* "The revision is known to be in common with the remote": flags are never set on a
   commit that the server lacks, and next_have() never names a commit twice.  A
   stateless round also repeats those that are known to be common. *)
CommonIsShared ==
  /\ \A id \in DOMAIN neg.graph : "COMMON" \in Flags(neg, id) => id \in world.remote
  /\ IsInjective(client.sent)

(* References are updated only to objects whose history is there, even if there was no
   pack, and to all that was wanted if there was one. *)
FetchLeavesNoGaps ==
  client.pc = "done" =>
    /\ Ancestors(client.updated) \subseteq world.odb \union client.received
    /\ client.wants \subseteq client.updated

(* "Walk over consecutive commits and check each one.  This can be costly but assures
   packs are exactly the size they need to be", if the server lets us finish. *)
PacksAreExact ==
  client.pc = "done" /\ ~Skipping /\ client.is_done /\ client.in_vain < MaxInVain =>
    client.received \cap Ancestors(world.refs \union world.alternate_refs) = {}

(* expect("present or inserted"), assert!(was_seen): negotiators do not panic, whatever
   part of the history is there. *)
NegotiatorNeverPanics == client.pc # "panic"
=============================================================================
