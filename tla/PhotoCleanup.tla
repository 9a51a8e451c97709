---------------------------- MODULE PhotoCleanup ----------------------------
(***************************************************************************)
(* The clean-up of photo storage: packages/db/src/r2-cleanup-run.ts and    *)
(* repos/r2-cleanup-repo.ts, next to what they race: uploads, removals,    *)
(* reveals, and a restore of the database to an earlier moment.            *)
(*                                                                         *)
(* The bucket and the database are two stores that nothing writes          *)
(* together.  A run lists the bucket, tracks since when each object was    *)
(* seen unreferenced, and deletes those past the grace period; it may die  *)
(* before any statement.  Runs do not overlap: one a day, and an operator's *)
(* by hand beside none.  A photo is one file per variant.  A shelter's    *)
(* logo is stored, referenced and cleaned up as an animal's photo is.      *)
(*                                                                         *)
(* Time is in ticks.  A tick is longer than a request or a run may live    *)
(* (maxDuration), so one of them sees at most one pass.  The manual run    *)
(* with another grace period, after a full reset, is not modelled.         *)
(***************************************************************************)
EXTENDS Naturals, FiniteSets

CONSTANTS
  None,
  Photos,      \* storage keys: each is fresh, for one upload
  Variants,    \* IMAGE_VARIANT_NAMES
  Caps,        \* maxDelete, in objects: the default, and what the CLI may ask for
  BatchSize,   \* DELETE_BATCH_SIZE
  Grace,       \* R2_CLEANUP_GRACE_PERIOD_DAYS, in ticks
  Window       \* how far back the database may be restored, in ticks

(* The grace period outlasts the window by the ticks that a run and an     *)
(* upload may see.                                                         *)
ASSUME CleanupAssumption ==
  /\ Grace \in Nat /\ Window \in Nat
  /\ Window + 1 < Grace
  /\ None \notin Nat

Objects == Photos \X Variants

PhotosOf(objects) == {o[1] : o \in objects}

ObjectsOf(p) == {p} \X Variants

(* A tracking row is since when its object was seen unreferenced: its age. *)
(* Past the grace period ages are not told apart.                          *)
Ages == 0 .. Grace + 1

Older(age) == IF age = None THEN None ELSE IF age > Grace THEN age ELSE age + 1

VARIABLES
  bucket,      \* the objects in R2
  onCards,     \* the photos that rows of animals name
  snapshots,   \* the photos that reveals' snapshots name
  tracked,     \* r2_unreferenced_objects
  upload,      \* each photo's upload
  run,         \* the clean-up
  backup,      \* a moment the database may still be restored to
  cutShort     \* history: snapshots whose run died before it nulled them

db == <<onCards, snapshots, tracked>>

vars == <<bucket, db, upload, run, backup, cutShort>>

Done == [pc |-> "done", late |-> 0]

NoRun == [pc |-> "idle", late |-> 0, listed |-> {}, cards |-> {}, hand |-> {}]

Init ==
  /\ bucket = {}
  /\ onCards = {}
  /\ snapshots = {}
  /\ tracked = [o \in Objects |-> None]
  /\ upload = [p \in Photos |-> [pc |-> "none", late |-> 0]]
  /\ run = NoRun
  /\ backup = None
  /\ cutShort = {}

-----------------------------------------------------------------------------
(* Requests.                                                               *)

(* One variant after another, and then the photo on the card.              *)
Stores(p, v) ==
  /\ upload[p].pc \in {"none", "storing"}
  /\ <<p, v>> \notin bucket
  /\ bucket' = bucket \cup {<<p, v>>}
  /\ upload' = [upload EXCEPT ![p].pc = "storing"]
  /\ UNCHANGED <<db, run, backup, cutShort>>

Attaches(p) ==
  /\ upload[p].pc = "storing"
  /\ ObjectsOf(p) \subseteq bucket
  /\ onCards' = onCards \cup {p}
  /\ upload' = [upload EXCEPT ![p] = Done]
  /\ UNCHANGED <<bucket, snapshots, tracked, run, backup, cutShort>>

(* The card is full or gone, or the server died: orphans.                  *)
UploadFails(p) ==
  /\ upload[p].pc = "storing"
  /\ upload' = [upload EXCEPT ![p] = Done]
  /\ UNCHANGED <<bucket, db, run, backup, cutShort>>

(* A photo taken off its card, or a draft deleted with its photos.         *)
Removes(p) ==
  /\ p \in onCards
  /\ onCards' = onCards \ {p}
  /\ UNCHANGED <<bucket, snapshots, tracked, upload, run, backup, cutShort>>

(* The card's first photo goes into the reveal's snapshot.                 *)
Reveals(p) ==
  /\ p \in onCards
  /\ snapshots' = snapshots \cup {p}
  /\ UNCHANGED <<bucket, onCards, tracked, upload, run, backup, cutShort>>

-----------------------------------------------------------------------------
(* A run of the clean-up.                                                  *)

AtPc(pc) == run.pc = pc

(* The run's `now`, and with it the bucket's listing.                      *)
Starts ==
  /\ AtPc("idle")
  /\ run' = [run EXCEPT !.pc = "read", !.listed = bucket]
  /\ UNCHANGED <<bucket, db, upload, backup, cutShort>>

ReadsCards ==
  /\ AtPc("read")
  /\ run' = [run EXCEPT !.pc = "track", !.cards = onCards]
  /\ UNCHANGED <<bucket, db, upload, backup, cutShort>>

(* First seen at the run's `now`, unless it was seen before.               *)
Tracks ==
  /\ AtPc("track")
  /\ tracked' = [o \in Objects |->
       IF o \in run.listed /\ o[1] \notin run.cards /\ tracked[o] = None
       THEN run.late ELSE tracked[o]]
  /\ run' = [run EXCEPT !.pc = "clear", !.listed = {}]
  /\ UNCHANGED <<bucket, onCards, snapshots, upload, backup, cutShort>>

(* Mutant: a photo on a card again stays tracked.                          *)
ClearsNothing ==
  /\ AtPc("clear")
  /\ run' = [run EXCEPT !.pc = "due", !.cards = {}]
  /\ UNCHANGED <<bucket, db, upload, backup, cutShort>>

Clears ==
  /\ AtPc("clear")
  /\ tracked' = [o \in Objects |->
       IF o[1] \in run.cards THEN None ELSE tracked[o]]
  /\ run' = [run EXCEPT !.pc = "due", !.cards = {}]
  /\ UNCHANGED <<bucket, onCards, snapshots, upload, backup, cutShort>>

(* Mutant: the day before.                                                 *)
PastGraceOrSoon(age, late) == age # None /\ age >= Grace + late - 1

(* The age at the run's `now`, however late it is.                         *)
PastGrace(age, late) == age # None /\ age >= Grace + late

(* Nothing due, or more than the cap: the run ends.                        *)
FindsDue ==
  /\ AtPc("due")
  /\ LET due == {o \in Objects : PastGrace(tracked[o], run.late)}
     IN \E cap \in Caps :
          run' = IF due = {} \/ Cardinality(due) > cap THEN NoRun
                 ELSE [run EXCEPT !.pc = "recheck", !.listed = due]
  /\ UNCHANGED <<bucket, db, upload, backup, cutShort>>

(* The next batch, without what is on a card again.                        *)
Rechecks ==
  /\ AtPc("recheck")
  /\ \E batch \in SUBSET run.listed :
       /\ \/ Cardinality(batch) = BatchSize
          \/ batch = run.listed /\ Cardinality(batch) < BatchSize
       /\ run' = [run EXCEPT !.pc = "delete",
            !.listed = @ \ batch,
            !.hand = {o \in batch : o[1] \notin onCards}]
  /\ UNCHANGED <<bucket, db, upload, backup, cutShort>>

(* Some may fail, and stay in place, and tracked.  One that is gone        *)
(* already counts as deleted.                                              *)
Deletes ==
  /\ AtPc("delete")
  /\ \E deleted \in SUBSET run.hand :
       /\ bucket' = bucket \ deleted
       /\ run' = [run EXCEPT !.pc = "untrack", !.hand = deleted]
  /\ UNCHANGED <<db, upload, backup, cutShort>>

Untracks ==
  /\ AtPc("untrack")
  /\ tracked' = [o \in Objects |->
       IF o \in run.hand THEN None ELSE tracked[o]]
  /\ run' = [run EXCEPT !.pc = "null"]
  /\ UNCHANGED <<bucket, onCards, snapshots, upload, backup, cutShort>>

(* Mutant: only a photo deleted whole leaves its snapshots.                *)
DanglingWhole(objects) == {p \in Photos : ObjectsOf(p) \subseteq objects}

(* A photo is gone with the first of its variants.                         *)
Dangling(objects) == PhotosOf(objects)

Nulls ==
  /\ AtPc("null")
  /\ snapshots' = snapshots \ Dangling(run.hand)
  /\ run' = IF run.listed = {} THEN NoRun
            ELSE [run EXCEPT !.pc = "recheck", !.hand = {}]
  /\ UNCHANGED <<bucket, onCards, tracked, upload, backup, cutShort>>

(* A statement fails, or the server dies.                                  *)
RunDies ==
  /\ ~AtPc("idle")
  /\ run' = NoRun
  /\ cutShort' = IF AtPc("null") THEN cutShort \cup PhotosOf(run.hand)
                 ELSE cutShort
  /\ UNCHANGED <<bucket, db, upload, backup>>

CleansUp ==
  \/ Starts \/ ReadsCards \/ Tracks \/ Clears
  \/ FindsDue \/ Rechecks \/ Deletes \/ Untracks \/ Nulls
  \/ RunDies

-----------------------------------------------------------------------------
(* The database's host, and time.                                          *)

(* Two kinds of moment are not restored to.  While a card's photo is       *)
(* tracked (a scan saw it before its upload put it on the card, and the    *)
(* next has not cleared it): once off the card it is due too soon for the  *)
(* window.  Between a run's last two statements: as if the run had died.   *)
Settled ==
  /\ \A o \in Objects : o[1] \in onCards => tracked[o] = None
  /\ ~AtPc("null")

(* Any moment is one to restore to; one is followed.                       *)
KeepsMoment ==
  /\ backup = None
  /\ Settled
  /\ backup' = [onCards |-> onCards, snapshots |-> snapshots,
                tracked |-> tracked, age |-> 0]
  /\ UNCHANGED <<bucket, db, upload, run, cutShort>>

(* Not between a run's re-check and its delete.                            *)
Restores ==
  /\ backup # None
  /\ ~AtPc("delete")
  /\ onCards' = backup.onCards
  /\ snapshots' = backup.snapshots
  /\ tracked' = backup.tracked
  /\ backup' = None
  /\ UNCHANGED <<bucket, upload, run, cutShort>>

(* The tracked rows of the moment age with it.                             *)
Aged(moment) ==
  IF moment = None \/ moment.age = Window THEN None
  ELSE [moment EXCEPT !.age = @ + 1,
                      !.tracked = [o \in Objects |-> Older(@[o])]]

Tick ==
  /\ \A p \in Photos : upload[p].pc = "storing" => upload[p].late = 0
  /\ ~AtPc("idle") => run.late = 0
  /\ tracked' = [o \in Objects |-> Older(tracked[o])]
  /\ upload' = [p \in Photos |->
       IF upload[p].pc = "storing" THEN [upload[p] EXCEPT !.late = 1] ELSE upload[p]]
  /\ run' = IF AtPc("idle") THEN run ELSE [run EXCEPT !.late = 1]
  /\ backup' = Aged(backup)
  /\ UNCHANGED <<bucket, onCards, snapshots, cutShort>>

Next ==
  \/ \E p \in Photos :
       \/ \E v \in Variants : Stores(p, v)
       \/ Attaches(p) \/ UploadFails(p) \/ Removes(p) \/ Reveals(p)
  \/ CleansUp
  \/ KeepsMoment \/ Restores \/ Tick

Spec == Init /\ [][Next]_vars

-----------------------------------------------------------------------------
(* Safety.                                                                 *)

(* Every photo on a card has all its files, through removals, uploads the  *)
(* scan runs into, and a restore: "if the database is ever restored a few  *)
(* days back, the restored rows still find their photos".                  *)
CardsHaveFiles == \A p \in onCards : ObjectsOf(p) \subseteq bucket

(* The grace period keeps what is on a card out of a run's hands; the      *)
(* re-check before a batch is a second line.                               *)
GraceSuffices ==
  AtPc("recheck") =>
    \A o \in run.listed : o[1] \notin onCards

(* A snapshot's missing file is found: it is still tracked, so a next run  *)
(* nulls the snapshot ("so nothing points at a missing file"), or this run *)
(* is about to, unless it died in between.                                 *)
Found(o) ==
  \/ tracked[o] # None
  \/ AtPc("null") /\ o[1] \in PhotosOf(run.hand)

SnapshotsFollow ==
  \A o \in Objects \ bucket :
    o[1] \in snapshots \ cutShort => Found(o)

=============================================================================
