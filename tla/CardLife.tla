------------------------------ MODULE CardLife ------------------------------
(***************************************************************************)
(* What an animal card promises whoever reads it, with no requests, races  *)
(* or retries in sight: the lifecycle it moves through one step at a time, *)
(* what it must have before it is public and keep while it is, and that a  *)
(* card which has once been public is never deleted.  KabinetAnimal is     *)
(* shown to implement it.                                                  *)
(***************************************************************************)
VARIABLES
  there,        \* the card has not been deleted
  kind,         \* its listing's kind
  complete,     \* it has a size, an age and a description
  illustrated,  \* it has a photo
  everPublic    \* it has been published, now or before

life == <<there, kind, complete, illustrated, everPublic>>

Visible(k) == k \in {"published", "reserved"}

Init ==
  /\ there = TRUE
  /\ complete \in BOOLEAN
  /\ illustrated \in BOOLEAN
  /\ \/ kind = "draft" /\ everPublic = FALSE
     \/ kind = "published" /\ everPublic = TRUE /\ complete /\ illustrated

(* Only a complete, illustrated draft becomes public.                      *)
Publish ==
  /\ there
  /\ kind = "draft" /\ complete /\ illustrated
  /\ kind' = "published"
  /\ everPublic' = TRUE
  /\ UNCHANGED <<there, complete, illustrated>>

Move(from, to) ==
  /\ there
  /\ kind \in from
  /\ kind' = to
  /\ UNCHANGED <<there, complete, illustrated, everPublic>>

Reserve  == Move({"published"}, "reserved")
Release  == Move({"reserved"}, "published")
Adopt    == Move({"published", "reserved"}, "adopted")
Withdraw == Move({"published", "reserved"}, "withdrawn")
Restore  == Move({"withdrawn"}, "draft")

(* An edit may empty a draft's facts, never a listed card's.               *)
Edit ==
  /\ there
  /\ complete' \in BOOLEAN
  /\ kind # "draft" => complete' = complete
  /\ UNCHANGED <<there, kind, illustrated, everPublic>>

(* A photo change never empties a card adopters can see.                   *)
ChangePhotos ==
  /\ there
  /\ illustrated' \in BOOLEAN
  /\ Visible(kind) => illustrated'
  /\ UNCHANGED <<there, kind, complete, everPublic>>

Delete ==
  /\ there
  /\ kind = "draft" /\ ~everPublic
  /\ there' = FALSE
  /\ UNCHANGED <<kind, complete, illustrated, everPublic>>

Next ==
  \/ Publish \/ Reserve \/ Release \/ Adopt \/ Withdraw \/ Restore
  \/ Edit \/ ChangePhotos \/ Delete

Spec == Init /\ [][Next]_life

=============================================================================
