----------------------------- MODULE ConfigFile -----------------------------
(***************************************************************************)
(* File of gix-config: sections with ids, the order in which they appear,  *)
(* and a table that finds the ids of all sections with one header.  Files  *)
(* are loaded from several sources, include others, and are then edited.   *)
(*                                                                         *)
(* A section has at most one value, for one key; what precedes, separates  *)
(* and follows values in the text is left out.                             *)
(***************************************************************************)
EXTENDS Naturals, Sequences, FiniteSets, FiniteSetsExt, SequencesExt, TLC

CONSTANTS Disks,      \* files, sources, extra, headers, and the options of the caller
          MaxEdits,    \* no more edits than this are made
          None

VARIABLES config,  \* sections, section_lookup_tree, section_order, section_id_counter
          status,  \* "load", "ok", "error", or "panic"
          edits,   \* the names of the edits that were made, in order
          disk     \* the files, and how they are loaded

vars == <<config, status, edits, disk>>

(* Sections whose metadata passes the filter of a caller come from one source. *)
Passes(s) == s.source = "local"

----------------------------------------------------------------------------
(* Operations on files *)

NewFile == [sections |-> <<>>, section_lookup_tree |-> <<>>, section_order |-> <<>>,
            section_id_counter |-> 0, meta |-> "api"]

section_ids(f, header) ==
  IF header \in DOMAIN f.section_lookup_tree THEN f.section_lookup_tree[header] ELSE <<>>

order(f, id) == CHOOSE i \in 1..Len(f.section_order) : f.section_order[i] = id

WithSection(f, s, ids, section_order) ==
  [f EXCEPT !.sections = f.section_id_counter :> s @@ @,
            !.section_lookup_tree = s.header :> ids @@ @,
            !.section_order = section_order,
            !.section_id_counter = @ + 1]

push_section_internal(f, s) ==
  WithSection(f, s, Append(section_ids(f, s.header), f.section_id_counter),
              Append(f.section_order, f.section_id_counter))

(* Mutant: a section is inserted in front of the one with the same position. *)
find_insert_pos_by_order_before(f, ids, before_order) ==
  LET later == {i \in 1..Len(ids) : order(f, ids[i]) >= before_order}
  IN IF later = {} THEN Len(ids) + 1 ELSE Min(later)

find_insert_pos_by_order(f, ids, before_order) ==
  LET later == {i \in 1..Len(ids) : order(f, ids[i]) >= before_order}
      first == Min(later)
  IN IF later = {} THEN Len(ids) + 1
     ELSE IF order(f, ids[first]) = before_order THEN first + 1 ELSE first

insert_section_after(f, s, before) ==
  LET ids == section_ids(f, s.header)
      before_order == order(f, before)
  IN WithSection(f, s,
       InsertAt(ids, find_insert_pos_by_order(f, ids, before_order), f.section_id_counter),
       InsertAt(f.section_order, before_order + 1, f.section_id_counter))

(* All sections of another file, at the end or after one of ours *)
append_or_insert(f, other, insert_after) ==
  FoldLeft(LAMBDA acc, id :
             IF acc.after = None
               THEN [file |-> push_section_internal(acc.file, other.sections[id]),
                     after |-> None]
               ELSE [file |-> insert_section_after(acc.file, other.sections[id], acc.after),
                     after |-> acc.file.section_id_counter],
           [file |-> f, after |-> insert_after], other.section_order).file

(* An empty list stays in the table. *)
without_section(f, id) ==
  LET header == f.sections[id].header
  IN [f EXCEPT !.sections = [i \in DOMAIN f.sections \ {id} |-> f.sections[i]],
               !.section_order = RemoveFirst(@, id),
               !.section_lookup_tree = [h \in DOMAIN @ |->
                 IF h = header THEN RemoveFirst(@[h], id) ELSE @[h]]]

(* The lookups: None if there is none.  An id can lack its section. *)
last_section(f, header) ==
  LET ids == section_ids(f, header) IN IF ids = <<>> THEN None ELSE Last(ids)

last_section_filter(f, header) ==
  LET ids == section_ids(f, header)
      hits == {i \in 1..Len(ids) : ids[i] \in DOMAIN f.sections => Passes(f.sections[ids[i]])}
  IN IF hits = {} THEN None ELSE ids[Max(hits)]

----------------------------------------------------------------------------
(* Loading *)

(* A file as it is on disk, each section with its place *)
from_parse_events_no_includes(path, source) ==
  LET parsed == disk.files[path]
  IN FoldLeft(LAMBDA f, i :
                push_section_internal(f, [header |-> parsed[i].header, value |-> parsed[i].value,
                                          include |-> parsed[i].include, source |-> source,
                                          from |-> <<path, i>>]),
              [NewFile EXCEPT !.meta = source], [i \in 1..Len(parsed) |-> i])

(* What a file includes: the paths of each section, in order; a path that is not
   there is skipped. *)
include_paths(f) ==
  FlattenSeq([k \in 1..Len(f.section_order) |->
    LET id == f.section_order[k]
        there == SelectSeq(f.sections[id].include, LAMBDA p : p \in DOMAIN disk.files)
    IN [j \in 1..Len(there) |-> [id |-> id, path |-> there[j]]]])

(* Mutant: included sections are put at the end of the file. *)
append_followed_includes_last(f, included) ==
  FoldLeft(LAMBDA g, at : append_or_insert(g, included[at.path], None), f, include_paths(f))

append_followed_includes(f, included) ==
  FoldLeft(LAMBDA g, at : append_or_insert(g, included[at.path], at.id), f, include_paths(f))

(* Files by source, by how many levels of includes are still followed, and by path *)
resolve_includes_recursive(source) ==
  LET resolved[left \in 0..disk.max_depth] ==
        [path \in DOMAIN disk.files |->
           LET f == from_parse_events_no_includes(path, source)
           IN IF left = 0 THEN f ELSE append_followed_includes(f, resolved[left - 1])]
  IN resolved[disk.max_depth]

IncludeDepthExceeded(path) ==
  LET exceeded[left \in 0..disk.max_depth] ==
        [p \in DOMAIN disk.files |->
           \/ left = 0
           \/ \E i \in 1..Len(disk.files[p]) :
                \E q \in Range(disk.files[p][i].include) \cap DOMAIN disk.files :
                  exceeded[left - 1][q]]
  IN disk.err_on_max_depth /\ exceeded[disk.max_depth][path]

(* The sources in their order, each path once.  A path that is not there is skipped,
   or ends the operation (as it does for callers of from_paths_metadata), unless all
   errors are to be ignored. *)
from_paths_metadata_buf ==
  LET there(i) ==
        /\ disk.sources[i].path \in DOMAIN disk.files
        /\ \A j \in 1..i - 1 : disk.sources[j].path # disk.sources[i].path
      config_of(i) ==
        resolve_includes_recursive(disk.sources[i].source)[disk.sources[i].path]
      loaded == SelectSeq([i \in 1..Len(disk.sources) |-> i], there)
  IN /\ status = "load"
     /\ IF \/ /\ disk.err_on_non_existing_paths /\ ~disk.ignore_io_errors
              /\ \E i \in 1..Len(disk.sources) : disk.sources[i].path \notin DOMAIN disk.files
           \/ \E k \in 1..Len(loaded) : IncludeDepthExceeded(disk.sources[loaded[k]].path)
          THEN status' = "error" /\ UNCHANGED config
          ELSE /\ config' = IF loaded = <<>> THEN NewFile
                  ELSE FoldLeft(LAMBDA f, i : append_or_insert(f, config_of(i), None),
                                config_of(loaded[1]), Tail(loaded))
               /\ status' = "ok"
     /\ UNCHANGED <<edits, disk>>

----------------------------------------------------------------------------
(* Edits *)

Edit(name, f) ==
  /\ config' = f
  /\ edits' = Append(edits, name)
  /\ UNCHANGED <<status, disk>>

Panic == status' = "panic" /\ UNCHANGED <<config, edits, disk>>

(* An edit of the section with this id, which has to be there *)
EditSection(name, id, f) == IF id \in DOMAIN config.sections THEN Edit(name, f) ELSE Panic

Section(header, value) ==
  [header |-> header, value |-> value, include |-> <<>>, source |-> config.meta, from |-> <<>>]

push_section(header) ==
  Edit("push_section", push_section_internal(config, Section(header, None)))

(* The last section that passes the filter, or a new one *)
set_raw_value_filter(header) ==
  LET id == last_section_filter(config, header)
  IN IF id = None
       THEN Edit("set_raw_value_filter",
                 push_section_internal(config, Section(header, "set")))
       ELSE EditSection("set_raw_value_filter", id, [config EXCEPT !.sections[id].value = "set"])

(* A header that the table knows is expected to have sections. *)
section_mut(header) ==
  LET id == last_section(config, header)
  IN /\ header \in DOMAIN config.section_lookup_tree
     /\ EditSection("section_mut", id, [config EXCEPT !.sections[id].value = "set"])

(* The table is expected to know the section by its header. *)
remove_section_by_id(id) ==
  LET header == config.sections[id].header
      known == DOMAIN config.section_lookup_tree
  IN /\ id \in DOMAIN config.sections
     /\ IF \/ \A h \in known : h[1] # header[1]
           \/ header \in known /\ id \notin Range(section_ids(config, header))
          THEN Panic
          ELSE Edit("remove_section", without_section(config, id))

remove_section(header) ==
  LET id == last_section(config, header)
  IN id # None /\ remove_section_by_id(id)

(* The table is left alone. *)
remove_section_filter(header) ==
  LET id == last_section_filter(config, header)
  IN /\ id # None
     /\ EditSection("remove_section_filter", id,
          [config EXCEPT !.sections = [i \in DOMAIN @ \ {id} |-> @[i]],
                         !.section_order = RemoveFirst(@, id)])

(* The table is left alone, too. *)
rename_section(header, new) ==
  LET id == last_section(config, header)
  IN /\ header \in DOMAIN config.section_lookup_tree
     /\ EditSection("rename_section", id, [config EXCEPT !.sections[id].header = new])

rename_section_filter(header, new) ==
  LET id == last_section_filter(config, header)
  IN /\ id # None
     /\ EditSection("rename_section", id, [config EXCEPT !.sections[id].header = new])

append(path) ==
  Edit("append", append_or_insert(config, resolve_includes_recursive("local")[path], None))

----------------------------------------------------------------------------

Init ==
  /\ disk \in Disks
  /\ config = NewFile /\ status = "load" /\ edits = <<>>

EditSections ==
  /\ status = "ok" /\ Len(edits) < MaxEdits
  /\ \/ \E id \in DOMAIN config.sections : remove_section_by_id(id)
     \/ \E h \in disk.headers :
          \/ push_section(h) \/ set_raw_value_filter(h) \/ section_mut(h)
          \/ remove_section(h) \/ remove_section_filter(h)
          \/ \E h2 \in disk.headers : rename_section(h, h2) \/ rename_section_filter(h, h2)
     \/ \E path \in disk.extra : append(path)

Next == from_paths_metadata_buf \/ EditSections

Spec == Init /\ [][Next]_vars

----------------------------------------------------------------------------
(* Properties *)

(* The order lists every section once; ids are never used again. *)
TypeOK ==
  /\ Range(config.section_order) = DOMAIN config.sections
  /\ Len(config.section_order) = Cardinality(DOMAIN config.sections)
  /\ \A id \in DOMAIN config.sections : id < config.section_id_counter
  /\ status \in {"load", "ok", "error", "panic"}

(* These two edits do not maintain the table. *)
TableMaintained == Range(edits) \cap {"rename_section", "remove_section_filter"} = {}

(* "Note that order in Vec matters as it represents the order of section ids with
   the matched section and name, and is used for precedence management": however
   sections are inserted, appended, renamed and removed, the sections that a lookup
   by header finds are in the order of the file, so that the last one wins; and it
   finds those with that header, unless an edit was made that leaves the table alone. *)
LookupsFollowTheFile ==
  \A h \in disk.headers :
    LET ids == section_ids(config, h)
    IN /\ SelectSeq(ids, LAMBDA id : id \in DOMAIN config.sections)
            = SelectSeq(config.section_order, LAMBDA id : id \in Range(ids))
       /\ TableMaintained =>
            ids = SelectSeq(config.section_order, LAMBDA id : config.sections[id].header = h)

(* Files with their includes as one sequence of places, in reading order; of several
   paths in one section, the last is read first. *)
Expanded(path) ==
  LET expanded[left \in 0..disk.max_depth] ==
        [p \in DOMAIN disk.files |->
           FlattenSeq([i \in 1..Len(disk.files[p]) |->
             LET there == SelectSeq(disk.files[p][i].include,
                                    LAMBDA q : q \in DOMAIN disk.files)
             IN <<<<p, i>>>> \o
                  IF left = 0 THEN <<>>
                  ELSE FlattenSeq([j \in 1..Len(there) |-> expanded[left - 1][Reverse(there)[j]]])])]
  IN expanded[disk.max_depth][path]

(* "include order isn't changed also in relation to the root configuration"
   (tests): what is included comes right after the section that includes it,
   through all levels, for all sources in their order.  Of several files that one
   section includes, each is inserted before the one that was there: the last comes
   first. *)
IncludesInPlace ==
  LET path(i) == disk.sources[i].path
      first == SelectSeq([i \in 1..Len(disk.sources) |-> i],
                         LAMBDA i : /\ path(i) \in DOMAIN disk.files
                                    /\ path(i) \notin {path(j) : j \in 1..i - 1})
  IN status = "ok" /\ edits = <<>> =>
       [k \in 1..Len(config.section_order) |-> config.sections[config.section_order[k]].from]
         = FlattenSeq([k \in 1..Len(first) |-> Expanded(path(first[k]))])
=============================================================================
