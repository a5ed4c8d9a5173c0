------------------------ MODULE MC_RefTransaction ------------------------
(***************************************************************************)
(* Small stores for RefTransaction: HEAD, a symbolic ref to the branch     *)
(* main, and the branch dev, with two or three transactions at a time.     *)
(***************************************************************************)
EXTENDS RefTransaction, TLC

CONSTANTS t1, t2, t3, HEAD, main, dev, v0, v1, v2

MCName     == {HEAD, main, dev}
MCPackable == {main, dev}
MCOid      == {v0, v1, v2}

Anything      == Expect("Any", None)
MustExist     == Expect("MustExist", None)
MustNotExist  == Expect("MustNotExist", None)
MustBe(value) == Expect("MustExistAndMatch", value)
MayBe(value)  == Expect("ExistingMustMatch", value)

Loose(es) == [packed_refs |-> "DeletionsOnly", edits |-> es]
Both(es)  == [packed_refs |-> "DeletionsAndNonSymbolicUpdates", edits |-> es]
Pack(es)  == [packed_refs |-> "RemoveLooseSourceReference", edits |-> es]

AllLoose   == HEAD :> main @@ main :> v0 @@ dev :> None
BothLoose  == HEAD :> main @@ main :> v0 @@ dev :> v0
DevLoose   == HEAD :> main @@ main :> None @@ dev :> v0
NoPacked   == None
MainPacked == HEAD :> None @@ main :> v0 @@ dev :> None

(* Updates, creations and deletions without a packed-refs file; the second
   transaction takes its locks in the opposite order. *)
LooseRequests ==
  t1 :> {Loose(<<Update(main, v1, MustBe(v0), FALSE),
                 Update(dev, v1, MustNotExist, FALSE)>>),
         Loose(<<Update(HEAD, v1, Anything, TRUE)>>),
         Loose(<<Update(HEAD, v1, MustExist, FALSE)>>)}
  @@
  t2 :> {Loose(<<Update(dev, v2, MayBe(v1), FALSE),
                 Update(main, v2, Anything, FALSE)>>),
         Loose(<<Update(main, HEAD, Anything, FALSE)>>),
         Loose(<<Delete(main, MustExist, FALSE)>>),
         Loose(<<Delete(HEAD, Anything, TRUE), Delete(dev, MayBe(v1), FALSE)>>)}
  @@
  t3 :> {}

(* Updates of a branch that is packed and of one that is loose, by
   transactions that leave packed-refs alone, write to it as well, or move the
   branch into it. *)
PackingRequests ==
  t1 :> {Pack(<<Update(main, v0, MustBe(v0), FALSE),
                Update(dev, v0, MustBe(v0), FALSE)>>),
         Pack(<<Update(HEAD, v1, Anything, TRUE)>>)}
  @@
  t2 :> {Loose(<<Update(dev, v2, MustBe(v0), FALSE),
                 Update(main, v2, MustExist, FALSE)>>),
         Both(<<Update(main, v1, Anything, FALSE), Update(dev, v2, MayBe(v0), FALSE)>>),
         Loose(<<Update(HEAD, dev, MustBe(main), FALSE)>>)}
  @@
  t3 :> {}

(* Three compare-and-swap updates, one of them into packed-refs as well. *)
SwapRequests ==
  t1 :> {Loose(<<Update(dev, v1, MustBe(v0), FALSE)>>),
         Loose(<<Update(main, v1, MustBe(v0), FALSE)>>)}
  @@
  t2 :> {Both(<<Update(dev, v2, MustBe(v0), FALSE),
                Update(main, v2, MustBe(v0), FALSE)>>)}
  @@
  t3 :> {Loose(<<Update(dev, v0, MustBe(v2), FALSE)>>)}

(* Two branches locked in opposite orders, one of them through HEAD, and
   deletions that empty packed-refs or find it gone. *)
CrossingRequests ==
  t1 :> {Loose(<<Update(main, v1, Anything, FALSE), Update(dev, v1, Anything, FALSE)>>),
         Loose(<<Update(HEAD, v1, Anything, TRUE)>>),
         Both(<<Update(main, v1, Anything, FALSE)>>),
         Loose(<<Delete(dev, MustExist, FALSE), Delete(main, MustExist, FALSE)>>)}
  @@
  t2 :> {Loose(<<Update(dev, v2, MustExist, FALSE), Delete(main, Anything, FALSE)>>),
         Pack(<<Update(dev, v2, MustExist, FALSE), Delete(main, MayBe(v0), FALSE)>>),
         Pack(<<Delete(main, Anything, FALSE)>>)}
  @@
  t3 :> {}

(* Two updates that both expect the value v0. *)
RacingRequests ==
  t1 :> {Loose(<<Update(main, v1, MustBe(v0), FALSE)>>)}
  @@
  t2 :> {Loose(<<Update(main, v2, MustBe(v0), FALSE)>>)}

(* A branch is written beside a reader. *)
SoughtRequests ==
  t1 :> {Both(<<Update(dev, v1, MustExist, FALSE)>>),
         Loose(<<Delete(main, MustExist, FALSE)>>)}
  @@
  t2 :> {Loose(<<Update(dev, v2, Anything, FALSE), Update(main, v1, Anything, FALSE)>>)}
  @@
  t3 :> {}

(* A branch is moved into packed-refs while another is deleted from a copy of
   it; HEAD, which packed-refs never holds, is updated twice or moved. *)
MixedRequests ==
  t1 :> {Loose(<<Delete(main, MustExist, FALSE)>>),
         Loose(<<Update(HEAD, v2, MustBe(main), FALSE), Update(dev, v2, Anything, FALSE)>>)}
  @@
  t2 :> {Pack(<<Update(dev, v0, MustBe(v0), FALSE)>>),
         Pack(<<Update(HEAD, v1, Anything, FALSE)>>),
         Loose(<<Update(HEAD, v1, MustBe(main), FALSE)>>)}
  @@
  t3 :> {}

(* A branch is moved into packed-refs, and updated, beside a reader. *)
MovingRequests ==
  t1 :> {Pack(<<Update(dev, v0, MustBe(v0), FALSE)>>)}
  @@
  t2 :> {Loose(<<Update(dev, v2, Anything, FALSE)>>)}
  @@
  t3 :> {}

Given(loose_refs, packed_refs, request, sought) ==
  [loose |-> loose_refs, packed |-> packed_refs, request |-> request,
   sought |-> sought]

SafetyScenarios ==
  {Given(AllLoose, NoPacked, LooseRequests, {}),
   Given(DevLoose, MainPacked, PackingRequests, {}),
   Given(DevLoose, MainPacked, SwapRequests, {}),
   Given(DevLoose, MainPacked, MixedRequests, {}),
   Given(DevLoose, MainPacked, SoughtRequests, {main, dev}),
   Given(DevLoose, MainPacked, MovingRequests, {dev}),
   Given(BothLoose, NoPacked, CrossingRequests, {}),
   Given(DevLoose, MainPacked, CrossingRequests, {})}

RacingScenario   == {Given(AllLoose, NoPacked, RacingRequests, {})}

=============================================================================
