----------------------------- MODULE UpdateRefs -----------------------------
(***************************************************************************)
(* How a fetch updates references (remote/connection/fetch/update_refs):   *)
(* each mapping of a remote to a local reference is accepted or rejected,  *)
(* which gives a list of edits, applied by one transaction.  Meanwhile     *)
(* another process may change references.                                  *)
(*                                                                         *)
(* The target of a reference is [id |-> object] or [sym |-> name].         *)
(***************************************************************************)
EXTENDS Naturals, Sequences, FiniteSets, FiniteSetsExt, SequencesExt, TLC

CONSTANTS Jobs, \* mappings, commits, objects, refs, tags, worktrees, bare, dry_run, others
          None

VARIABLES job,     \* what is fetched, and into which repository
          refs,    \* the references of the repository
          outcome, \* edits and updates, once they are known
          phase,   \* "update", "apply", "applied" or "failed"
          tx,      \* the transaction: which edit is being prepared, what was read of each
                   \* before it was locked, and which are locked
          others   \* how often another process may still change a reference

vars == <<job, refs, outcome, phase, tx, others>>

IsId(target) == "id" \in DOMAIN target
Id(id) == [id |-> id]
Sym(name) == [sym |-> name]

(* The names a reference leads to, itself included, and the object at their end *)
Follow(rs, name) ==
  FoldSet(LAMBDA i, seen : seen \union {rs[n].sym : n \in {m \in seen \cap DOMAIN rs : ~IsId(rs[m])}},
          {name}, DOMAIN rs)

peel_to_id(rs, name) ==
  LET ends == {n \in Follow(rs, name) \cap DOMAIN rs : IsId(rs[n])}
  IN IF ends = {} THEN None ELSE rs[CHOOSE n \in ends : TRUE].id

(* What is checked out in a worktree: job.worktrees has the branches of the linked ones. *)
worktree_branches ==
  (IF job.bare THEN {} ELSE Follow(refs, "HEAD"))
    \union UNION {{"HEAD"} \union Follow(refs, head) : head \in job.worktrees}

----------------------------------------------------------------------------
(* Fast-forwards: the walk over the commits we have, newest first, does not follow the
   ones that are older than the local one. *)

Parents(id) == Range(job.commits[id].parents) \cap DOMAIN job.commits
Older(id, time) == job.commits[id].time < time

Reached(from, time) ==
  FoldSet(LAMBDA i, seen :
            seen \union {p \in UNION {Parents(id) : id \in seen} : ~Older(p, time)},
          {id \in {from} : ~Older(id, time)}, DOMAIN job.commits)

(* Mutant: anything newer than the local commit will do. *)
is_fast_forward_if_newer(local_id, remote_id) ==
  \/ job.dry_run
  \/ /\ local_id \in DOMAIN job.commits /\ remote_id \in DOMAIN job.commits
     /\ ~Older(remote_id, job.commits[local_id].time)

is_fast_forward(local_id, remote_id) ==
  \/ job.dry_run
  \/ /\ local_id \in DOMAIN job.commits /\ remote_id \in DOMAIN job.commits
     /\ local_id \in Reached(remote_id, job.commits[local_id].time)

(* What is not a commit is replaced without further ado. *)
Force(m, local_id) ==
  \/ m.force
  \/ ~job.dry_run /\ ~(local_id \in DOMAIN job.commits /\ m.remote.id \in DOMAIN job.commits)

----------------------------------------------------------------------------
(* One mapping *)

(* The branch that we store the target of a symbolic reference in, if we have one, or
   the target itself *)
new_value_by_remote(m) ==
  LET target == m.remote.target
      mapped == SelectSeq(job.mappings, LAMBDA o : o.remote.name = target /\ o.local # None)
  IN IF target = None THEN Id(m.remote.id)
     ELSE IF mapped # <<>> THEN Sym(mapped[1].local)
     ELSE IF m.remote.id = None \/ target \in DOMAIN refs THEN Sym(target)
     ELSE Id(m.remote.id)

Rejected(mode) == [mode |-> mode, edit |-> None]

Accepted(mode, m, must_exist) ==
  LET new == new_value_by_remote(m)
  IN [mode |-> mode,
      edit |-> [name |-> m.local, new |-> new, must_exist |-> must_exist,
                expected |-> IF must_exist THEN refs[m.local] ELSE new]]

update_existing(m) ==
  LET local_id == peel_to_id(refs, m.local)
      remote_id == m.remote.id
  IN CASE m.local \in worktree_branches -> Rejected("RejectedCurrentlyCheckedOut")
       [] m.local \notin worktree_branches /\ local_id = None ->
            Accepted(IF refs[m.local].sym = m.remote.target THEN "NoChangeNeeded" ELSE "Forced", m, TRUE)
       [] m.local \notin worktree_branches /\ local_id # None ->
            IF remote_id = None THEN Rejected("RejectedToReplaceWithUnborn")
            ELSE IF local_id = remote_id THEN Accepted("NoChangeNeeded", m, TRUE)
            ELSE IF m.local \in job.tags
              THEN IF m.force THEN Accepted("Forced", m, TRUE) ELSE Rejected("RejectedTagUpdate")
            ELSE IF is_fast_forward(local_id, remote_id) THEN Accepted("FastForward", m, TRUE)
            ELSE IF Force(m, local_id) THEN Accepted("Forced", m, TRUE)
            ELSE Rejected("RejectedNonFastForward")

update_one(m) ==
  IF ~job.dry_run /\ m.remote.id # None /\ m.remote.id \notin job.objects
    THEN Rejected(IF m.implicit_tag THEN "ImplicitTagNotSentByRemote"
                  ELSE "RejectedSourceObjectNotFound")
  ELSE IF m.local = None THEN Rejected("NoChangeNeeded")
  ELSE IF m.local \in DOMAIN refs THEN update_existing(m)
  ELSE Accepted("New", m, FALSE)

----------------------------------------------------------------------------
(* All of them *)

(* Mutant: only symbolic references are looked at. *)
symbolic_target_of_symref_is_missing(edit, edits) ==
  /\ ~IsId(edit.new) /\ edit.must_exist
  /\ ~IsId(edit.expected) /\ edit.expected # edit.new /\ edit.expected.sym \in DOMAIN refs
  /\ edit.new.sym \notin DOMAIN refs
  /\ edit.new.sym \notin {edits[i].name : i \in 1..Len(edits)}

(* A symbolic reference that has an object must not come to point to nothing. *)
symbolic_target_is_missing(edit, edits) ==
  /\ ~IsId(edit.new) /\ edit.must_exist
  /\ ~IsId(edit.expected) => edit.expected # edit.new /\ edit.expected.sym \in DOMAIN refs
  /\ edit.new.sym \notin DOMAIN refs
  /\ edit.new.sym \notin {edits[i].name : i \in 1..Len(edits)}

(* Mapping by mapping.  An update refers to its edit, if it has one. *)
update ==
  LET res == update_one(job.mappings[Len(outcome.updates) + 1])
      edits == IF res.edit = None THEN outcome.edits ELSE Append(outcome.edits, res.edit)
  IN /\ phase = "update" /\ Len(outcome.updates) < Len(job.mappings)
     /\ outcome' = [edits |-> edits,
                    updates |-> Append(outcome.updates,
                                       [mode |-> res.mode,
                                        edit_index |-> IF res.edit = None THEN 0 ELSE Len(edits)])]
     /\ UNCHANGED <<job, refs, phase, tx, others>>

validate ==
  LET edits == outcome.edits
      missing == {i \in 1..Len(edits) : symbolic_target_is_missing(edits[i], edits)}
  IN /\ phase = "update" /\ Len(outcome.updates) = Len(job.mappings)
     /\ outcome' =
          [edits |-> [i \in 1..Len(edits) |->
             IF i \in missing THEN [edits[i] EXCEPT !.new = edits[i].expected] ELSE edits[i]],
           updates |-> [u \in 1..Len(outcome.updates) |->
             IF outcome.updates[u].edit_index \in missing
               THEN [outcome.updates[u] EXCEPT !.mode = "RejectedToReplaceWithUnborn"]
             ELSE outcome.updates[u]]]
     /\ phase' = IF job.dry_run THEN "applied" ELSE "apply"
     /\ UNCHANGED <<job, refs, tx, others>>

----------------------------------------------------------------------------
(* The transaction of gix-ref, as far as a fetch needs it: edits are prepared one by
   one, which reads the reference, locks it, and compares what was read *)

Value(name) == IF name \in DOMAIN refs THEN refs[name] ELSE None

read_ref ==
  /\ phase = "apply" /\ tx.current = 0
  /\ \E i \in (1..Len(outcome.edits)) \ tx.locked :
       tx' = [tx EXCEPT !.current = i, !.read = i :> Value(outcome.edits[i].name) @@ @]
  /\ UNCHANGED <<job, refs, outcome, phase, others>>

(* MustExistAndMatch or ExistingMustMatch *)
Expected(edit, existing) ==
  IF existing = None THEN ~edit.must_exist ELSE existing = edit.expected

lock_ref ==
  /\ phase = "apply" /\ tx.current # 0
  /\ IF Expected(outcome.edits[tx.current], tx.read[tx.current])
       THEN /\ tx' = [tx EXCEPT !.current = 0, !.locked = @ \union {tx.current}]
            /\ UNCHANGED phase
       ELSE phase' = "failed" /\ UNCHANGED tx
  /\ UNCHANGED <<job, refs, outcome, others>>

(* Somebody else has the lock. *)
lock_fails ==
  /\ phase = "apply" /\ tx.current # 0 /\ job.others > 0
  /\ phase' = "failed"
  /\ UNCHANGED <<job, refs, outcome, tx, others>>

commit ==
  LET edits == outcome.edits
  IN /\ phase = "apply" /\ tx.locked = 1..Len(edits)
     /\ refs' = FoldLeft(LAMBDA rs, e : e.name :> e.new @@ rs, refs, edits)
     /\ phase' = "applied"
     /\ UNCHANGED <<job, outcome, tx, others>>

(* Another process moves, creates or removes a reference that is not locked. *)
others_update ==
  /\ others > 0 /\ phase \in {"update", "apply"}
  /\ others' = others - 1
  /\ \E name \in (DOMAIN refs \union {job.mappings[i].local : i \in 1..Len(job.mappings)})
                   \ {outcome.edits[i].name : i \in tx.locked} :
       \/ \E id \in job.objects : refs' = name :> Id(id) @@ refs
       \/ refs' = [n \in DOMAIN refs \ {name} |-> refs[n]]
  /\ UNCHANGED <<job, outcome, phase, tx>>

Init ==
  /\ job \in Jobs
  /\ refs = job.refs /\ phase = "update" /\ others = job.others
  /\ tx = [current |-> 0, read |-> <<>>, locked |-> {}]
  /\ outcome = [edits |-> <<>>, updates |-> <<>>]

Next ==
  \/ update \/ validate
  \/ read_ref \/ lock_ref \/ lock_fails \/ commit
  \/ others_update

Spec == Init /\ [][Next]_vars

----------------------------------------------------------------------------
(* Properties *)

TypeOK ==
  /\ phase \in {"update", "apply", "applied", "failed"}
  /\ tx.locked \subseteq 1..Len(outcome.edits)
  /\ DOMAIN tx.read = tx.locked \union ({tx.current} \ {0})
  /\ \A name \in DOMAIN refs : IsId(refs[name]) => refs[name].id \in job.objects

Ancestors(id) == Reached(id, 0)

Forced(name) ==
  \E i \in 1..Len(job.mappings) : job.mappings[i].local = name /\ job.mappings[i].force

(* "The old ref's commit was an ancestor of the new one": a fetch makes a branch lose
   commits only if it is told to, even if other processes change it after that was
   decided.  The exception is what they do between the transaction's reading of the
   reference and its lock, which nobody notices: then the commit that was read is an
   ancestor, the one that is replaced need not be. *)
BranchesKeepCommits ==
  [][commit => \A i \in 1..Len(outcome.edits) :
       LET name == outcome.edits[i].name
           old == Value(name)
       IN /\ old = tx.read[i] /\ name \in DOMAIN refs /\ ~Forced(name)
          /\ IsId(old) /\ IsId(refs'[name])
          /\ {old.id, refs'[name].id} \subseteq DOMAIN job.commits
          => old.id \in Ancestors(refs'[name].id)]_vars

Resolves(rs, name) == peel_to_id(rs, name) # None

Resolving ==
  \A name \in DOMAIN refs :
    /\ Resolves(refs, name) => Resolves(refs', name)
    /\ name \in worktree_branches => refs'[name] = refs[name]

(* The target of a symbolic reference exists, which is what the code looks for, but it is
   the reference itself, as with HEAD:refs/heads/main and no mapping for refs/heads/main,
   or it leads nowhere *)
BadTarget ==
  \E i \in 1..Len(job.mappings) :
    LET m == job.mappings[i]
        new == new_value_by_remote(m)
    IN /\ m.local # None /\ ~IsId(new) /\ new.sym \in DOMAIN refs
       /\ new = Sym(m.local) \/ ~Resolves(refs, new.sym)

(* "for setting a symref-target, we have to be sure that the target already exists or will
   exists": no reference that leads to an object leads to nothing afterwards, and what is
   checked out in a worktree is left alone.  The exceptions are a
   BadTarget and the interference of another process. *)
RefsKeepResolving == [][commit /\ job.others = 0 /\ ~BadTarget => Resolving]_vars

(* "we are fine as long as the resulting refs are valid" (new_value_by_remote): in any
   fetch that is not disturbed. *)
ResultingRefsAreValid == [][commit /\ job.others = 0 => Resolving]_vars
=============================================================================
