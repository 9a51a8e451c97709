-------------------------- MODULE MCKabinetAnimal --------------------------
(* Small instances of KabinetAnimal for TLC.                               *)
EXTENDS KabinetAnimal, TLC

CONSTANTS k1, k2, k3

(* A draft with these facts missing and these photos.                      *)
DraftWith(missing, photos) ==
  [listing |-> DraftListing, version |-> 0, missing |-> missing,
   photos |-> photos, everPublic |-> FALSE]

(* A card onboarded as published, and never confirmed since.               *)
Onboarded(photos) ==
  [listing |-> [kind |-> "published", publishedAt |-> 0, confirmedAt |-> 0,
                undoable |-> None],
   version |-> 0, missing |-> {}, photos |-> photos, everPublic |-> TRUE]

ReadyDraft   == {DraftWith({}, <<k1>>)}
DraftOrCard  == {DraftWith({}, <<k1>>), Onboarded(<<k1>>)}
NearlyReady  == {DraftWith({"sex", "size"}, <<k1>>), DraftWith({}, <<>>)}

Fill(facts) == [fills |-> facts, clears |-> {}, other |-> FALSE]
Clear(facts) == [fills |-> {}, clears |-> facts, other |-> FALSE]
Rename == [fills |-> {}, clears |-> {}, other |-> TRUE]

FormPatches == {Fill(PublishFacts), Clear({"description"}), Rename}
SexPatches  == FormPatches \cup {Clear({"sex"})}

MoveEvents  == ListingEvents
EditEvents  == {"publish", "withdraw", "restore_to_draft"}
NoPatches   == {}

(* The slots, and the keys no card starts with, are alike.                 *)
FreshSymmetry ==
  Permutations(Requests) \cup Permutations(PhotoKeys \ {k1})

=============================================================================
