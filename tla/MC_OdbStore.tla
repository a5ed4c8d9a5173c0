----------------------------- MODULE MC_OdbStore -----------------------------
(***************************************************************************)
(* Small object databases for OdbStore: the packs A and B with one object  *)
(* each, the pack C into which both are repacked, and a multi-pack index.  *)
(***************************************************************************)
EXTENDS OdbStore, TLC

CONSTANTS t1, t2, A, B, C, x, y, z   \* no pack has z

MCThread == {t1, t2}
MCPack   == {A, B, C}
MCBySize == <<Midx, C, A, B>>
MCHolds  == A :> {x} @@ B :> {y} @@ C :> {x, y}

Packs(names) == [packs |-> names, midx |-> None, loose |-> {}]
Loose(names, objects) == [packs |-> names, midx |-> None, loose |-> objects]
Multi(names, time, listed) ==
  [packs |-> names, midx |-> [mtime |-> time, packs |-> listed], loose |-> {}]

Ask(op, what) == [op |-> op, object |-> what]

Given(disks, calls1, calls2, stable_threads) ==
  [disks |-> disks, calls |-> t1 :> calls1 @@ t2 :> calls2,
   stable |-> stable_threads, slots |-> 4,
   refresh |-> [t \in MCThread |-> "AfterAllIndicesLoaded"]]

(* Both threads start with nothing loaded. *)
LazyLoading ==
  Given(<<Packs({A, B})>>, <<Ask("contains", y)>>, <<Ask("try_find", x)>>, {})

(* A thread does not look at the disk again. *)
NotRefreshing ==
  [Given(<<Packs({A}), Packs({B})>>, <<Ask("contains", x)>>, <<Ask("contains", y)>>, {})
     EXCEPT !.refresh[t1] = "Never"]

(* A pack is repacked into a bigger one. *)
Repacking ==
  Given(<<Packs({A}), Packs({C})>>, <<Ask("try_find", x)>>, <<Ask("contains", y)>>, {})

(* A pack is replaced while pack ids must remain valid. *)
StableRepacking ==
  Given(<<Packs({A}), Packs({C})>>,
        <<Ask("location_by_oid", x), Ask("entry_by_location", x)>>,
        <<Ask("contains", y)>>, {t1, t2})

(* A removed pack comes back. *)
StableReturning ==
  Given(<<Packs({A}), Packs({C}), Packs({A, C})>>,
        <<Ask("location_by_oid", x), Ask("contains", y), Ask("entry_by_location", x)>>,
        <<>>, {t1})

(* A multi-pack index appears. *)
MultiPack ==
  Given(<<Packs({A, B}), Multi({A, B}, 1, <<A, B>>)>>,
        <<Ask("contains", y)>>, <<Ask("try_find", x)>>, {})

(* A multi-pack index is replaced by one that lists its packs in another order. *)
StableMultiPack ==
  Given(<<Multi({A, B}, 1, <<A, B>>), Multi({A, B}, 2, <<B, A>>)>>,
        <<Ask("location_by_oid", x), Ask("try_find", y), Ask("entry_by_location", x)>>,
        <<Ask("contains", z)>>, {t1, t2})

(* Only one thread has a stable handle, and perhaps not before it is too late. *)
LateStable ==
  Given(<<Packs({A}), Packs({C})>>,
        <<Ask("location_by_oid", x), Ask("contains", z), Ask("entry_by_location", x)>>,
        <<Ask("contains", y)>>, {t1})

(* Loose objects are packed. *)
Loosening ==
  Given(<<Loose({}, {x, y}), Loose({A}, {x, y}), Loose({A}, {y})>>,
        <<Ask("contains", x)>>, <<Ask("try_find", x)>>, {})

(* All slots are in use or hold garbage. *)
FullSlotMap ==
  Given(<<Packs({A, B}), Packs({C}), Multi({C}, 1, <<C>>), Multi({C}, 2, <<C>>)>>,
        [i \in 1..4 |-> Ask("contains", z)], <<>>, {t1})

(* There are more packs than slots. *)
Crowded ==
  [Given(<<Packs({A, B}), Packs({A, B, C})>>,
         <<Ask("location_by_oid", x), Ask("contains", z), Ask("entry_by_location", x)>>,
         <<>>, {t1}) EXCEPT !.slots = 2]

(* A pack is replaced, and the only slot left is the one it was in. *)
Replacing ==
  [Given(<<Packs({A, B}), Packs({B, C})>>,
         <<Ask("contains", z), Ask("try_find", x)>>, <<>>, {}) EXCEPT !.slots = 2]

MCScenario ==
  {LazyLoading, NotRefreshing, Repacking, StableRepacking, StableReturning, LateStable,
   MultiPack, StableMultiPack, Loosening, FullSlotMap, Crowded, Replacing}

(* Enough for threads to wait for each other's loads and for the mutexes. *)
Waiting == {LazyLoading, StableReturning, FullSlotMap}

Sharing == {LazyLoading}
Full    == {Crowded}
=============================================================================
