------------------------------ MODULE EagerIter ------------------------------
(***************************************************************************)
(* EagerIter of gix-features: an iterator is evaluated ahead of time in a  *)
(* thread of its own, which hands over chunks of items through a bounded   *)
(* channel.  Nobody joins that thread: it has to end by itself.            *)
(***************************************************************************)
EXTENDS Naturals, Sequences

CONSTANT Iters   \* iterators: items, chunk_size, chunks_in_flight, drops

VARIABLES iter,     \* the iterator, and whether its owner may drop it early
          pos,      \* how many items the thread has taken from the iterator
          out,      \* the chunk that the thread is filling
          thread,   \* where the thread is
          channel,  \* chunks in flight
          owner,    \* where the owner is
          chunk,    \* what is left of the chunk the owner has
          got       \* the items the owner has got

vars == <<iter, pos, out, thread, channel, owner, chunk, got>>

(* Without room for chunks in flight, one is handed over when the owner waits. *)
Room ==
  \/ Len(channel) < iter.chunks_in_flight
  \/ iter.chunks_in_flight = 0 /\ owner = "recv" /\ channel = <<>>

----------------------------------------------------------------------------
(* The thread *)

push ==
  /\ thread = "iterate" /\ pos < iter.items
  /\ pos' = pos + 1
  /\ out' = Append(out, pos + 1)
  /\ thread' = IF Len(out') = iter.chunk_size THEN "send" ELSE "iterate"
  /\ UNCHANGED <<iter, channel, owner, chunk, got>>

(* What is left is sent unless there is nothing. *)
exhausted ==
  /\ thread = "iterate" /\ pos = iter.items
  /\ thread' = IF out = <<>> THEN "done" ELSE "send"
  /\ UNCHANGED <<iter, pos, out, channel, owner, chunk, got>>

send ==
  /\ thread = "send"
  /\ IF owner = "gone"
       THEN thread' = "done" /\ UNCHANGED channel
       ELSE Room /\ channel' = Append(channel, out) /\ thread' = "iterate"
  /\ out' = <<>>
  /\ UNCHANGED <<iter, pos, owner, chunk, got>>

----------------------------------------------------------------------------
(* The owner *)

next ==
  /\ owner = "idle"
  /\ IF chunk # <<>>
       THEN /\ chunk' = Tail(chunk) /\ got' = Append(got, Head(chunk))
            /\ UNCHANGED owner
       ELSE owner' = "recv" /\ UNCHANGED <<chunk, got>>
  /\ UNCHANGED <<iter, pos, out, thread, channel>>

(* The assertion that a chunk isn't empty would be violated in Head and Tail. *)
fill_buf_and_pop ==
  /\ owner = "recv" /\ channel # <<>>
  /\ channel' = Tail(channel)
  /\ chunk' = Tail(Head(channel)) /\ got' = Append(got, Head(Head(channel)))
  /\ owner' = "idle"
  /\ UNCHANGED <<iter, pos, out, thread>>

end_of_chunks ==
  /\ owner = "recv" /\ channel = <<>> /\ thread = "done"
  /\ owner' = "end"
  /\ UNCHANGED <<iter, pos, out, thread, channel, chunk, got>>

drop_iter ==
  /\ iter.drops /\ owner = "idle"
  /\ owner' = "gone" /\ channel' = <<>> /\ chunk' = <<>>
  /\ UNCHANGED <<iter, pos, out, thread, got>>

----------------------------------------------------------------------------

Init ==
  /\ iter \in Iters
  /\ pos = 0 /\ out = <<>> /\ thread = "iterate" /\ channel = <<>>
  /\ owner = "idle" /\ chunk = <<>> /\ got = <<>>

ThreadStep == push \/ exhausted \/ send
OwnerStep  == next \/ fill_buf_and_pop \/ end_of_chunks

Next == ThreadStep \/ OwnerStep \/ drop_iter

Fairness == WF_vars(ThreadStep) /\ WF_vars(OwnerStep)

Spec == Init /\ [][Next]_vars /\ Fairness

----------------------------------------------------------------------------
(* Properties *)

(* Chunks are never empty nor longer than asked for, and no more of them are in
   flight than asked for, but for the one being handed over. *)
TypeOK ==
  /\ pos \in 0..iter.items /\ Len(out) <= iter.chunk_size
  /\ thread \in {"iterate", "send", "done"} /\ owner \in {"idle", "recv", "end", "gone"}
  /\ Len(channel) <= iter.chunks_in_flight + 1
  /\ \A i \in 1..Len(channel) : Len(channel[i]) \in 1..iter.chunk_size

(* The owner sees the items of the iterator in their order, and the end only
   after all of them, for any number of items, also if they do not fill the
   last chunk. *)
SameAsIterator ==
  /\ \A i \in 1..Len(got) : got[i] = i
  /\ owner = "end" => Len(got) = iter.items

(* The thread, which nobody joins, ends on its own: when it has sent everything,
   or when the owner is gone, though it may be waiting for room then. *)
ThreadEnds == <>(thread = "done")
=============================================================================
