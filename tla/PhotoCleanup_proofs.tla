------------------------ MODULE PhotoCleanup_proofs ------------------------
(***************************************************************************)
(* The clean-up keeps what cards need and loses no missing file, for any   *)
(* photos, variants, batches, caps, grace period and window.               *)
(*                                                                         *)
(* The argument: an object is only due when it was tracked for longer than *)
(* the window and a request together, and whatever could still want it is  *)
(* younger.  A photo came onto its card within a request of being tracked, *)
(* or its row was cleared by the run at hand; a moment that names it does  *)
(* not track it, so it has been tracked for less than the moment's age.    *)
(***************************************************************************)
EXTENDS PhotoCleanup, TLAPS

UploadStates == [pc : {"none", "storing", "done"}, late : 0 .. 1]

RunStates ==
  [pc : {"idle", "read", "track", "clear", "due", "recheck", "delete",
         "untrack", "null"},
   late : 0 .. 1, listed : SUBSET Objects, cards : SUBSET Photos,
   hand : SUBSET Objects]

Tracking == [Objects -> Ages \cup {None}]

Moments ==
  [onCards : SUBSET Photos, snapshots : SUBSET Photos, tracked : Tracking,
   age : 0 .. Window]

TypeOK ==
  /\ bucket \subseteq Objects
  /\ onCards \subseteq Photos
  /\ snapshots \subseteq Photos
  /\ tracked \in Tracking
  /\ upload \in [Photos -> UploadStates]
  /\ run \in RunStates
  /\ backup \in Moments \cup {None}

(* On a card now, or on one again if the database is restored.             *)
Wanted(p) == p \in onCards \/ (backup # None /\ p \in backup.onCards)

WantedHeld ==
  \A p \in Photos : Wanted(p) => ObjectsOf(p) \subseteq bucket /\ upload[p].pc = "done"

(* Nothing knows an object before its upload, ...                          *)
NoneYet ==
  \A o \in Objects : upload[o[1]].pc = "none" =>
    /\ o \notin bucket /\ o \notin run.listed
    /\ tracked[o] = None
    /\ backup # None => backup.tracked[o] = None

(* ... and what a scan finds of one in flight is no older than it.         *)
UploadsYoung ==
  \A o \in Objects : upload[o[1]].pc = "storing" =>
    /\ tracked[o] # None => tracked[o] <= upload[o[1]].late
    /\ backup # None /\ backup.tracked[o] # None =>
         backup.tracked[o] <= upload[o[1]].late
    /\ run.pc \in {"read", "track"} /\ o \in run.listed =>
         run.late <= upload[o[1]].late

(* A run that goes on to what is due has cleared what was on a card, so a  *)
(* tracked photo there came onto it since.                                 *)
ReadBefore(p) == run.pc = "due" \/ (run.pc \in {"track", "clear"} /\ p \notin run.cards)

CardsYoung ==
  \A o \in Objects :
    o[1] \in onCards /\ tracked[o] # None /\ ReadBefore(o[1]) =>
      tracked[o] <= 1 + run.late

(* What a moment does not track has been tracked for no longer than it.    *)
MomentYoung ==
  backup # None =>
    \A o \in Objects :
      /\ o[1] \in backup.onCards => backup.tracked[o] = None
      /\ backup.tracked[o] = None /\ tracked[o] # None =>
           tracked[o] <= backup.age + 1

(* Between runs the run's slot is as it was at first.                      *)
RunAtRest == run.pc = "idle" => run = NoRun

InHand(o) ==
  \/ run.pc \in {"recheck", "delete", "untrack", "null"} /\ o \in run.listed
  \/ run.pc = "delete" /\ o \in run.hand

(* What a run has yet to delete is wanted by nobody, and tracked.          *)
DueUnwanted ==
  \A o \in Objects : InHand(o) =>
    /\ ~Wanted(o[1])
    /\ upload[o[1]].pc = "done"
    /\ tracked[o] # None
    /\ backup # None => backup.tracked[o] # None

BatchApart ==
  run.pc \in {"delete", "untrack", "null"} => run.listed \cap run.hand = {}

CardsRead ==
  run.pc \in {"track", "clear"} => \A p \in run.cards : ObjectsOf(p) \subseteq bucket

(* A restore brings back no snapshot of a file nobody would find missing.  *)
MomentFollows ==
  backup # None =>
    \A o \in Objects \ bucket :
      o[1] \in backup.snapshots \ cutShort => backup.tracked[o] # None

CleanupInv ==
  /\ TypeOK /\ WantedHeld /\ NoneYet /\ UploadsYoung /\ CardsYoung
  /\ MomentYoung /\ DueUnwanted /\ BatchApart /\ CardsRead
  /\ RunAtRest /\ SnapshotsFollow /\ MomentFollows

-----------------------------------------------------------------------------

LEMMA ObjectPhoto ==
  /\ \A o \in Objects : o[1] \in Photos
  /\ \A p \in Photos : \A o : o \in ObjectsOf(p) <=> o \in Objects /\ o[1] = p
BY DEF Objects, ObjectsOf

THEOREM InitCleanup == Init => CleanupInv
BY ObjectPhoto, CleanupAssumption
   DEF Init, CleanupAssumption, CleanupInv, TypeOK, UploadStates, RunStates,
       Tracking, Moments, Ages, WantedHeld, Wanted, NoneYet, UploadsYoung,
       CardsYoung, ReadBefore, MomentYoung, DueUnwanted, InHand, BatchApart,
       CardsRead, RunAtRest, SnapshotsFollow, Found, MomentFollows, NoRun,
       AtPc

(* A variant stored: its object is new, and no run has it in hand.         *)
LEMMA StoresKeeps ==
  ASSUME CleanupInv, NEW p \in Photos, NEW v \in Variants, Stores(p, v)
  PROVE  CleanupInv'
<1> USE ObjectPhoto, CleanupAssumption DEF CleanupInv, CleanupAssumption
<1>a. /\ bucket' = bucket \cup {<<p, v>>} /\ <<p, v>> \in Objects
      /\ upload' = [upload EXCEPT ![p] = [upload[p] EXCEPT !.pc = "storing"]]
      /\ upload[p] \in UploadStates /\ upload[p].pc \in {"none", "storing"}
  BY DEF TypeOK, UploadStates, Stores, Objects
<1>b. /\ upload' \in [Photos -> UploadStates]
      /\ upload'[p].pc = "storing" /\ upload'[p].late = upload[p].late
      /\ \A q \in Photos : q # p => upload'[q] = upload[q]
  BY <1>a DEF TypeOK, UploadStates
<1>1. TypeOK'
  BY <1>a, <1>b DEF Stores, db, TypeOK
<1>2. UploadsYoung'
  <2> SUFFICES ASSUME NEW o \in Objects, upload'[o[1]].pc = "storing"
               PROVE  /\ tracked[o] # None => tracked[o] <= upload'[o[1]].late
                      /\ backup # None /\ backup.tracked[o] # None =>
                           backup.tracked[o] <= upload'[o[1]].late
                      /\ run.pc \in {"read", "track"} /\ o \in run.listed =>
                           run.late <= upload'[o[1]].late
    BY DEF UploadsYoung, Stores, db
  <2>1. CASE o[1] = p /\ upload[p].pc = "none"
    BY <2>1 DEF NoneYet
  <2>2. CASE o[1] = p /\ upload[p].pc = "storing"
    BY <2>2, <1>b DEF UploadsYoung
  <2>3. CASE o[1] # p
    BY <2>3, <1>b DEF UploadsYoung
  <2> QED
    BY <2>1, <2>2, <2>3, <1>a
<1>3. /\ WantedHeld' /\ NoneYet' /\ CardsYoung' /\ MomentYoung' /\ RunAtRest'
      /\ DueUnwanted' /\ BatchApart' /\ CardsRead' /\ SnapshotsFollow'
      /\ MomentFollows'
  BY DEF TypeOK, UploadStates, RunStates, Tracking, Moments, Ages, WantedHeld,
         Wanted, NoneYet, CardsYoung, ReadBefore, MomentYoung, RunAtRest,
         DueUnwanted, InHand, BatchApart, CardsRead, SnapshotsFollow, Found,
         MomentFollows, Stores, db, AtPc, NoRun, Done
<1> QED
  BY <1>1, <1>2, <1>3 DEF CleanupInv

(* A photo put on a card: its files are there, and what tracks them young. *)
LEMMA AttachesKeeps ==
  ASSUME CleanupInv, NEW p \in Photos, Attaches(p)
  PROVE  CleanupInv'
<1> USE ObjectPhoto, CleanupAssumption DEF CleanupInv, CleanupAssumption
<1>1. CardsYoung'
  <2> SUFFICES ASSUME NEW o \in Objects, o[1] \in onCards', tracked[o] # None,
                      ReadBefore(o[1])
               PROVE  tracked[o] <= 1 + run.late
    BY DEF CardsYoung, ReadBefore, Attaches
  <2>1. CASE o[1] = p
    <3>1. tracked[o] <= upload[p].late
      BY <2>1 DEF UploadsYoung, Attaches
    <3> QED
      BY <3>1 DEF TypeOK, UploadStates, RunStates, Tracking, Ages
  <2>2. CASE o[1] # p
    BY <2>2 DEF CardsYoung, Attaches
  <2> QED
    BY <2>1, <2>2
<1>2. /\ TypeOK' /\ WantedHeld' /\ NoneYet' /\ UploadsYoung' /\ MomentYoung'
      /\ RunAtRest' /\ DueUnwanted' /\ BatchApart' /\ CardsRead'
      /\ SnapshotsFollow' /\ MomentFollows'
  BY DEF TypeOK, UploadStates, RunStates, Tracking, Moments, Ages, WantedHeld,
         Wanted, NoneYet, UploadsYoung, MomentYoung, RunAtRest, DueUnwanted,
         InHand, BatchApart, CardsRead, SnapshotsFollow, Found, MomentFollows,
         Attaches, db, AtPc, NoRun, Done
<1> QED
  BY <1>1, <1>2 DEF CleanupInv

(* An upload given up: its photo can no longer come onto a card.           *)
LEMMA UploadFailsKeeps ==
  ASSUME CleanupInv, NEW p \in Photos, UploadFails(p)
  PROVE  CleanupInv'
<1> USE ObjectPhoto, CleanupAssumption DEF CleanupInv, CleanupAssumption
<1>1. /\ TypeOK' /\ WantedHeld' /\ NoneYet' /\ UploadsYoung' /\ CardsYoung'
      /\ MomentYoung' /\ RunAtRest' /\ DueUnwanted' /\ BatchApart'
      /\ CardsRead' /\ SnapshotsFollow' /\ MomentFollows'
  BY DEF TypeOK, UploadStates, RunStates, Tracking, Moments, Ages, WantedHeld,
         Wanted, NoneYet, UploadsYoung, CardsYoung, ReadBefore, MomentYoung,
         RunAtRest, DueUnwanted, InHand, BatchApart, CardsRead,
         SnapshotsFollow, Found, MomentFollows, UploadFails, db, AtPc, NoRun,
         Done
<1> QED
  BY <1>1 DEF CleanupInv

(* A photo taken off its card: nothing is wanted that was not.             *)
LEMMA RemovesKeeps ==
  ASSUME CleanupInv, NEW p \in Photos, Removes(p)
  PROVE  CleanupInv'
<1> USE ObjectPhoto, CleanupAssumption DEF CleanupInv, CleanupAssumption
<1>1. /\ TypeOK' /\ WantedHeld' /\ NoneYet' /\ UploadsYoung' /\ CardsYoung'
      /\ MomentYoung' /\ RunAtRest' /\ DueUnwanted' /\ BatchApart'
      /\ CardsRead' /\ SnapshotsFollow' /\ MomentFollows'
  BY DEF TypeOK, UploadStates, RunStates, Tracking, Moments, Ages, WantedHeld,
         Wanted, NoneYet, UploadsYoung, CardsYoung, ReadBefore, MomentYoung,
         RunAtRest, DueUnwanted, InHand, BatchApart, CardsRead,
         SnapshotsFollow, Found, MomentFollows, Removes, db, AtPc, NoRun, Done
<1> QED
  BY <1>1 DEF CleanupInv

(* A snapshot taken: of a photo on a card, whose files are there.          *)
LEMMA RevealsKeeps ==
  ASSUME CleanupInv, NEW p \in Photos, Reveals(p)
  PROVE  CleanupInv'
<1> USE ObjectPhoto, CleanupAssumption DEF CleanupInv, CleanupAssumption
<1>1. SnapshotsFollow'
  <2>1. ObjectsOf(p) \subseteq bucket
    BY DEF Reveals, WantedHeld, Wanted
  <2> QED
    BY <2>1 DEF SnapshotsFollow, Found, Reveals, AtPc
<1>2. /\ TypeOK' /\ WantedHeld' /\ NoneYet' /\ UploadsYoung' /\ CardsYoung'
      /\ MomentYoung' /\ RunAtRest' /\ DueUnwanted' /\ BatchApart'
      /\ CardsRead' /\ MomentFollows'
  BY DEF TypeOK, UploadStates, RunStates, Tracking, Moments, Ages, WantedHeld,
         Wanted, NoneYet, UploadsYoung, CardsYoung, ReadBefore, MomentYoung,
         RunAtRest, DueUnwanted, InHand, BatchApart, CardsRead, MomentFollows,
         Reveals, db, AtPc, NoRun, Done
<1> QED
  BY <1>1, <1>2 DEF CleanupInv

(* A run starts: what it lists of an upload in flight is no older.         *)
LEMMA StartsKeeps ==
  ASSUME CleanupInv, Starts
  PROVE  CleanupInv'
<1> USE ObjectPhoto, CleanupAssumption DEF CleanupInv, CleanupAssumption
<1>a. /\ run'.pc = "read" /\ run'.late = run.late
      /\ run'.listed = bucket /\ run' \in RunStates
  BY DEF Starts, TypeOK, RunStates
<1>1. UploadsYoung'
  <2>1. run.late = 0
    BY DEF RunAtRest, Starts, AtPc, NoRun
  <2> QED
    BY <1>a, <2>1 DEF UploadsYoung, Starts, db, TypeOK, UploadStates
<1>2. /\ TypeOK' /\ WantedHeld' /\ NoneYet' /\ CardsYoung' /\ MomentYoung'
      /\ RunAtRest' /\ DueUnwanted' /\ BatchApart' /\ CardsRead'
      /\ SnapshotsFollow' /\ MomentFollows'
  BY DEF TypeOK, UploadStates, RunStates, Tracking, Moments, Ages, WantedHeld,
         Wanted, NoneYet, CardsYoung, ReadBefore, MomentYoung, RunAtRest,
         DueUnwanted, InHand, BatchApart, CardsRead, SnapshotsFollow, Found,
         MomentFollows, Starts, db, AtPc, NoRun, Done
<1> QED
  BY <1>1, <1>2 DEF CleanupInv

(* The cards read: their photos have their files.                          *)
LEMMA ReadsCardsKeeps ==
  ASSUME CleanupInv, ReadsCards
  PROVE  CleanupInv'
<1> USE ObjectPhoto, CleanupAssumption DEF CleanupInv, CleanupAssumption
<1>1. CardsRead'
  <2>1. run'.cards = onCards
    BY DEF ReadsCards, TypeOK, RunStates
  <2> QED
    BY <2>1 DEF CardsRead, ReadsCards, WantedHeld, Wanted, TypeOK
<1>2. /\ TypeOK' /\ WantedHeld' /\ NoneYet' /\ UploadsYoung' /\ CardsYoung'
      /\ MomentYoung' /\ RunAtRest' /\ DueUnwanted' /\ BatchApart'
      /\ SnapshotsFollow' /\ MomentFollows'
  BY DEF TypeOK, UploadStates, RunStates, Tracking, Moments, Ages, WantedHeld,
         Wanted, NoneYet, UploadsYoung, CardsYoung, ReadBefore, MomentYoung,
         RunAtRest, DueUnwanted, InHand, BatchApart, SnapshotsFollow, Found,
         MomentFollows, ReadsCards, db, AtPc, NoRun, Done
<1> QED
  BY <1>1, <1>2 DEF CleanupInv

(* Objects tracked: since the run, which is no older than a tick.          *)
LEMMA TracksKeeps ==
  ASSUME CleanupInv, Tracks
  PROVE  CleanupInv'
<1> USE ObjectPhoto, CleanupAssumption DEF CleanupInv, CleanupAssumption
<1>1. TypeOK'
  <2>1. \A o \in Objects : tracked'[o] \in Ages \cup {None}
    BY DEF Tracks, TypeOK, Tracking, RunStates, Ages
  <2>2. tracked' \in Tracking
    BY <2>1 DEF Tracks, Tracking
  <2>3. run' \in RunStates
    BY DEF Tracks, TypeOK, RunStates
  <2> QED
    BY <2>2, <2>3 DEF Tracks, TypeOK
<1>2. /\ WantedHeld' /\ NoneYet' /\ UploadsYoung' /\ CardsYoung'
      /\ MomentYoung' /\ RunAtRest' /\ DueUnwanted' /\ BatchApart'
      /\ CardsRead' /\ SnapshotsFollow' /\ MomentFollows'
  BY DEF TypeOK, UploadStates, RunStates, Tracking, Moments, Ages, WantedHeld,
         Wanted, NoneYet, UploadsYoung, CardsYoung, ReadBefore, MomentYoung,
         RunAtRest, DueUnwanted, InHand, BatchApart, CardsRead,
         SnapshotsFollow, Found, MomentFollows, Tracks, db, AtPc, NoRun, Done
<1> QED
  BY <1>1, <1>2 DEF CleanupInv

(* Rows cleared: of photos with their files, so no missing one is lost.    *)
LEMMA ClearsKeeps ==
  ASSUME CleanupInv, Clears
  PROVE  CleanupInv'
<1> USE ObjectPhoto, CleanupAssumption DEF CleanupInv, CleanupAssumption
<1>a. /\ \A o \in Objects : tracked'[o] = IF o[1] \in run.cards THEN None ELSE tracked[o]
      /\ UNCHANGED <<bucket, onCards, snapshots, upload, backup, cutShort>>
      /\ run.pc = "clear" /\ run'.pc = "due"
  BY DEF Clears, AtPc, TypeOK, RunStates
<1>1. SnapshotsFollow'
  <2> SUFFICES ASSUME NEW o \in Objects \ bucket, o[1] \in snapshots \ cutShort
               PROVE  tracked'[o] # None
    BY <1>a DEF SnapshotsFollow, Found
  <2>1. tracked[o] # None
    BY <1>a DEF SnapshotsFollow, Found, AtPc
  <2>2. o[1] \notin run.cards
    BY <1>a DEF CardsRead, TypeOK, RunStates
  <2> QED
    BY <1>a, <2>1, <2>2
<1>2. /\ TypeOK' /\ WantedHeld' /\ NoneYet' /\ UploadsYoung' /\ CardsYoung'
      /\ MomentYoung' /\ RunAtRest' /\ DueUnwanted' /\ BatchApart'
      /\ CardsRead' /\ MomentFollows'
  BY DEF TypeOK, UploadStates, RunStates, Tracking, Moments, Ages, WantedHeld,
         Wanted, NoneYet, UploadsYoung, CardsYoung, ReadBefore, MomentYoung,
         RunAtRest, DueUnwanted, InHand, BatchApart, CardsRead, MomentFollows,
         Clears, db, AtPc, NoRun, Done
<1> QED
  BY <1>1, <1>2 DEF CleanupInv

(* What is due was tracked for longer than any moment, upload or card.     *)
LEMMA FindsDueKeeps ==
  ASSUME CleanupInv, FindsDue
  PROVE  CleanupInv'
<1> USE ObjectPhoto, CleanupAssumption DEF CleanupInv, CleanupAssumption
<1> DEFINE due == {o \in Objects : PastGrace(tracked[o], run.late)}
<1>a. /\ run.pc = "due"
      /\ run' = NoRun \/ run' = [run EXCEPT !.pc = "recheck", !.listed = due]
      /\ UNCHANGED <<bucket, db, upload, backup, cutShort>>
  BY DEF FindsDue, AtPc
<1>b. /\ due \subseteq Objects
      /\ \A o \in due : PastGrace(tracked[o], run.late)
  OBVIOUS
<1> HIDE DEF due
<1>c. /\ run' \in RunStates
      /\ \/ run' = NoRun
         \/ run'.pc = "recheck" /\ run'.listed = due
  <2>1. CASE run' = NoRun
    BY <2>1 DEF RunStates, NoRun
  <2>2. CASE run' = [run EXCEPT !.pc = "recheck", !.listed = due]
    BY <1>b, <2>2 DEF TypeOK, RunStates
  <2> QED
    BY <1>a, <2>1, <2>2
<1>d. ASSUME NEW o \in due
      PROVE  /\ ~Wanted(o[1]) /\ upload[o[1]].pc = "done" /\ tracked[o] # None
             /\ backup # None => backup.tracked[o] # None
  <2>1. /\ tracked[o] # None /\ tracked[o] \in Nat /\ run.late \in 0 .. 1
        /\ tracked[o] >= Grace + run.late /\ o \in Objects
    BY <1>b DEF PastGrace, TypeOK, Tracking, Ages, RunStates
  <2>2. o[1] \notin onCards
    BY <1>a, <2>1 DEF CardsYoung, ReadBefore
  <2>3. backup # None => backup.tracked[o] # None /\ o[1] \notin backup.onCards
    BY <2>1 DEF MomentYoung, TypeOK, Moments
  <2>4. upload[o[1]].pc = "done"
    BY <2>1 DEF NoneYet, UploadsYoung, TypeOK, UploadStates
  <2> QED
    BY <2>1, <2>2, <2>3, <2>4 DEF Wanted
<1>1. TypeOK'
  BY <1>a, <1>c DEF db, TypeOK
<1>2. NoneYet'
  BY <1>a, <1>c, <1>d DEF db, NoneYet, NoRun
<1>3. DueUnwanted'
  <2> SUFFICES ASSUME NEW o \in Objects, InHand(o)'
               PROVE  o \in due
    BY <1>a, <1>d DEF DueUnwanted, Wanted, db
  <2> QED
    BY <1>c DEF InHand, NoRun
<1>4. /\ WantedHeld' /\ UploadsYoung' /\ CardsYoung' /\ MomentYoung'
      /\ RunAtRest' /\ BatchApart' /\ CardsRead' /\ SnapshotsFollow'
      /\ MomentFollows'
  BY DEF TypeOK, UploadStates, RunStates, Tracking, Moments, Ages, WantedHeld,
         Wanted, UploadsYoung, CardsYoung, ReadBefore, MomentYoung, RunAtRest,
         BatchApart, CardsRead, SnapshotsFollow, Found, MomentFollows,
         FindsDue, db, AtPc, NoRun, Done
<1> QED
  BY <1>1, <1>2, <1>3, <1>4 DEF CleanupInv

(* A batch taken from what is due.                                         *)
LEMMA RechecksKeeps ==
  ASSUME CleanupInv, Rechecks
  PROVE  CleanupInv'
<1> USE ObjectPhoto, CleanupAssumption DEF CleanupInv, CleanupAssumption
<1>a. PICK batch \in SUBSET run.listed :
        run' = [run EXCEPT !.pc = "delete", !.listed = @ \ batch,
                           !.hand = {o \in batch : o[1] \notin onCards}]
  BY DEF Rechecks
<1>b. /\ run'.pc = "delete" /\ run'.listed = run.listed \ batch
      /\ run'.hand = {o \in batch : o[1] \notin onCards}
      /\ run'.late = run.late /\ run'.cards = run.cards /\ run' \in RunStates
  BY <1>a DEF TypeOK, RunStates
<1>1. TypeOK'
  BY <1>b DEF Rechecks, TypeOK, db
<1>2. /\ WantedHeld' /\ NoneYet' /\ UploadsYoung' /\ CardsYoung'
      /\ MomentYoung' /\ RunAtRest' /\ DueUnwanted' /\ BatchApart'
      /\ CardsRead' /\ SnapshotsFollow' /\ MomentFollows'
  BY DEF TypeOK, UploadStates, RunStates, Tracking, Moments, Ages, WantedHeld,
         Wanted, NoneYet, UploadsYoung, CardsYoung, ReadBefore, MomentYoung,
         RunAtRest, DueUnwanted, InHand, BatchApart, CardsRead,
         SnapshotsFollow, Found, MomentFollows, Rechecks, db, AtPc, NoRun, Done
<1> QED
  BY <1>1, <1>2 DEF CleanupInv

(* Objects deleted: wanted by nobody, and tracked.                         *)
LEMMA DeletesKeeps ==
  ASSUME CleanupInv, Deletes
  PROVE  CleanupInv'
<1> USE ObjectPhoto, CleanupAssumption DEF CleanupInv, CleanupAssumption
<1>a. PICK deleted \in SUBSET run.hand :
        bucket' = bucket \ deleted
          /\ run' = [run EXCEPT !.pc = "untrack", !.hand = deleted]
  BY DEF Deletes
<1>b. /\ run.pc = "delete" /\ deleted \subseteq Objects
      /\ run'.pc = "untrack" /\ run'.hand = deleted /\ run'.listed = run.listed
      /\ run' \in RunStates
      /\ UNCHANGED <<onCards, snapshots, tracked, upload, backup, cutShort>>
  BY <1>a DEF Deletes, AtPc, TypeOK, RunStates, db
<1>c. \A o \in deleted :
        /\ o \in Objects /\ ~Wanted(o[1]) /\ tracked[o] # None
        /\ backup # None => backup.tracked[o] # None
  BY <1>a, <1>b DEF DueUnwanted, InHand
<1>1. TypeOK'
  BY <1>a, <1>b DEF TypeOK
<1>2. WantedHeld'
  BY <1>a, <1>b, <1>c DEF WantedHeld, Wanted
<1>3. SnapshotsFollow'
  BY <1>a, <1>b, <1>c DEF SnapshotsFollow, Found, AtPc
<1>4. MomentFollows'
  BY <1>a, <1>b, <1>c DEF MomentFollows
<1>5. /\ NoneYet' /\ UploadsYoung' /\ CardsYoung' /\ MomentYoung' /\ RunAtRest'
      /\ DueUnwanted' /\ BatchApart' /\ CardsRead'
  BY DEF TypeOK, UploadStates, RunStates, Tracking, Moments, Ages, NoneYet,
         UploadsYoung, CardsYoung, ReadBefore, MomentYoung, RunAtRest,
         DueUnwanted, InHand, Wanted, BatchApart, CardsRead, Deletes, db, AtPc,
         NoRun, Done
<1> QED
  BY <1>1, <1>2, <1>3, <1>4, <1>5 DEF CleanupInv

(* Rows cleared of the batch alone.                                        *)
LEMMA UntracksKeeps ==
  ASSUME CleanupInv, Untracks
  PROVE  CleanupInv'
<1> USE ObjectPhoto, CleanupAssumption DEF CleanupInv, CleanupAssumption
<1>a. /\ \A o \in Objects : tracked'[o] = IF o \in run.hand THEN None ELSE tracked[o]
      /\ run.pc = "untrack" /\ run'.pc = "null"
      /\ run'.hand = run.hand /\ run'.listed = run.listed /\ run.hand \subseteq Objects
      /\ UNCHANGED <<bucket, onCards, snapshots, upload, backup, cutShort>>
  BY DEF Untracks, AtPc, TypeOK, RunStates
<1>1. DueUnwanted'
  <2> SUFFICES ASSUME NEW o \in Objects, o \in run.listed
               PROVE  tracked'[o] # None /\ InHand(o)
    BY <1>a DEF DueUnwanted, InHand, Wanted
  <2>1. InHand(o) /\ o \notin run.hand
    BY <1>a DEF InHand, BatchApart
  <2> QED
    BY <1>a, <2>1 DEF DueUnwanted
<1>2. SnapshotsFollow'
  <2> SUFFICES ASSUME NEW o \in Objects \ bucket, o[1] \in snapshots \ cutShort,
                      o \notin run.hand
               PROVE  tracked'[o] # None
    BY <1>a DEF SnapshotsFollow, Found, AtPc, PhotosOf
  <2> QED
    BY <1>a DEF SnapshotsFollow, Found, AtPc
<1>3. /\ TypeOK' /\ WantedHeld' /\ NoneYet' /\ UploadsYoung' /\ CardsYoung'
      /\ MomentYoung' /\ RunAtRest' /\ BatchApart' /\ CardsRead'
      /\ MomentFollows'
  BY DEF TypeOK, UploadStates, RunStates, Tracking, Moments, Ages, WantedHeld,
         Wanted, NoneYet, UploadsYoung, CardsYoung, ReadBefore, MomentYoung,
         RunAtRest, BatchApart, CardsRead, MomentFollows, Untracks, db, AtPc,
         NoRun, Done
<1> QED
  BY <1>1, <1>2, <1>3 DEF CleanupInv

(* Snapshots nulled of the batch alone.                                    *)
LEMMA NullsKeeps ==
  ASSUME CleanupInv, Nulls
  PROVE  CleanupInv'
<1> USE ObjectPhoto, CleanupAssumption DEF CleanupInv, CleanupAssumption
<1>a. /\ run.pc = "null" /\ snapshots' = snapshots \ PhotosOf(run.hand)
      /\ UNCHANGED <<bucket, onCards, tracked, upload, backup, cutShort>>
  BY DEF Nulls, AtPc, Dangling
<1>b. /\ run' \in RunStates
      /\ \/ run' = NoRun
         \/ /\ run'.pc = "recheck" /\ run'.listed = run.listed
            /\ run'.hand = {}
  <2>1. CASE run.listed = {}
    BY <2>1 DEF Nulls, RunStates, NoRun
  <2>2. CASE run.listed # {}
    <3>1. run' = [run EXCEPT !.pc = "recheck", !.hand = {}]
      BY <2>2 DEF Nulls
    <3> QED
      BY <3>1 DEF TypeOK, RunStates
  <2> QED
    BY <2>1, <2>2
<1>1. TypeOK'
  BY <1>a, <1>b DEF TypeOK
<1>2. SnapshotsFollow'
  BY <1>a DEF SnapshotsFollow, Found, AtPc
<1>3. /\ WantedHeld' /\ NoneYet' /\ UploadsYoung' /\ CardsYoung'
      /\ MomentYoung' /\ RunAtRest' /\ DueUnwanted' /\ BatchApart'
      /\ CardsRead' /\ MomentFollows'
  BY DEF TypeOK, UploadStates, RunStates, Tracking, Moments, Ages, WantedHeld,
         Wanted, NoneYet, UploadsYoung, CardsYoung, ReadBefore, MomentYoung,
         RunAtRest, DueUnwanted, InHand, BatchApart, CardsRead, MomentFollows,
         Nulls, db, AtPc, NoRun, Done
<1> QED
  BY <1>1, <1>2, <1>3 DEF CleanupInv

(* A run that dies.                                                        *)
LEMMA RunDiesKeeps ==
  ASSUME CleanupInv, RunDies
  PROVE  CleanupInv'
<1> USE ObjectPhoto, CleanupAssumption DEF CleanupInv, CleanupAssumption
<1>1. /\ TypeOK' /\ WantedHeld' /\ NoneYet' /\ UploadsYoung' /\ CardsYoung'
      /\ MomentYoung' /\ RunAtRest' /\ DueUnwanted' /\ BatchApart'
      /\ CardsRead' /\ SnapshotsFollow' /\ MomentFollows'
  BY DEF TypeOK, UploadStates, RunStates, Tracking, Moments, Ages, WantedHeld,
         Wanted, NoneYet, UploadsYoung, CardsYoung, ReadBefore, MomentYoung,
         RunAtRest, DueUnwanted, InHand, BatchApart, CardsRead,
         SnapshotsFollow, Found, MomentFollows, RunDies, db, AtPc, NoRun, Done
<1> QED
  BY <1>1 DEF CleanupInv

(* A moment kept: it is as the database is.                                *)
LEMMA KeepsMomentKeeps ==
  ASSUME CleanupInv, KeepsMoment
  PROVE  CleanupInv'
<1> USE ObjectPhoto, CleanupAssumption DEF CleanupInv, CleanupAssumption
<1>a. /\ /\ run.pc # "null"
      /\ \A o \in Objects : o[1] \in onCards => tracked[o] = None
      /\ backup'.onCards = onCards /\ backup'.snapshots = snapshots
      /\ backup'.tracked = tracked /\ backup'.age = 0 /\ backup' \in Moments
      /\ UNCHANGED <<bucket, onCards, snapshots, tracked, upload, run, cutShort>>
  BY DEF KeepsMoment, Settled, AtPc, db, TypeOK, Moments
<1>1. TypeOK'
  BY <1>a DEF TypeOK
<1>2. MomentYoung'
  BY <1>a DEF MomentYoung
<1>3. MomentFollows'
  BY <1>a DEF MomentFollows, SnapshotsFollow, Found, AtPc
<1>4. /\ WantedHeld' /\ NoneYet' /\ UploadsYoung' /\ CardsYoung' /\ RunAtRest'
      /\ DueUnwanted' /\ BatchApart' /\ CardsRead' /\ SnapshotsFollow'
  BY DEF TypeOK, UploadStates, RunStates, Tracking, Moments, Ages, WantedHeld,
         Wanted, NoneYet, UploadsYoung, CardsYoung, ReadBefore, RunAtRest,
         DueUnwanted, InHand, BatchApart, CardsRead, SnapshotsFollow, Found,
         KeepsMoment, db, AtPc, NoRun, Done
<1> QED
  BY <1>1, <1>2, <1>3, <1>4 DEF CleanupInv

(* The database restored: the moment kept what it needs.                   *)
LEMMA RestoresKeeps ==
  ASSUME CleanupInv, Restores
  PROVE  CleanupInv'
<1> USE ObjectPhoto, CleanupAssumption DEF CleanupInv, CleanupAssumption
<1>a. /\ backup # None /\ backup \in Moments
      /\ onCards' = backup.onCards /\ snapshots' = backup.snapshots
      /\ tracked' = backup.tracked /\ backup' = None
      /\ UNCHANGED <<bucket, upload, run, cutShort>>
  BY DEF Restores, TypeOK
<1>1. CardsYoung'
  BY <1>a DEF CardsYoung, MomentYoung
<1>2. SnapshotsFollow'
  BY <1>a DEF SnapshotsFollow, Found, MomentFollows
<1>3. /\ TypeOK' /\ WantedHeld' /\ NoneYet' /\ UploadsYoung' /\ MomentYoung'
      /\ RunAtRest' /\ DueUnwanted' /\ BatchApart' /\ CardsRead'
      /\ MomentFollows'
  BY DEF TypeOK, UploadStates, RunStates, Tracking, Moments, Ages, WantedHeld,
         Wanted, NoneYet, UploadsYoung, MomentYoung, RunAtRest, DueUnwanted,
         InHand, BatchApart, CardsRead, MomentFollows, Restores, db, AtPc,
         NoRun, Done
<1> QED
  BY <1>1, <1>2, <1>3 DEF CleanupInv

(* A tick ages the rows, the moment and what is in flight alike.           *)
LEMMA TickKeeps ==
  ASSUME CleanupInv, Tick
  PROVE  CleanupInv'
<1> USE ObjectPhoto, CleanupAssumption DEF CleanupInv, CleanupAssumption
<1>a. /\ run'.pc = run.pc /\ run'.listed = run.listed /\ run'.cards = run.cards
      /\ run'.hand = run.hand /\ run' \in RunStates
      /\ run.pc # "idle" => run.late = 0 /\ run'.late = 1
      /\ run.pc = "idle" => run' = run
  BY DEF Tick, AtPc, TypeOK, RunStates
<1>b. \A q \in Photos :
        /\ upload'[q] \in UploadStates /\ upload'[q].pc = upload[q].pc
        /\ upload[q].pc = "storing" => upload[q].late = 0 /\ upload'[q].late = 1
  BY DEF Tick, TypeOK, UploadStates
<1>c. \A age \in Ages \cup {None} :
        /\ Older(age) \in Ages \cup {None}
        /\ Older(age) = None <=> age = None
        /\ age # None => Older(age) <= age + 1
  BY DEF Older, Ages
<1>d. \A o \in Objects :
        tracked[o] \in Ages \cup {None} /\ tracked'[o] = Older(tracked[o])
  BY DEF Tick, TypeOK, Tracking
<1>e. backup' # None =>
        /\ backup # None /\ backup \in Moments /\ backup' \in Moments
        /\ backup'.onCards = backup.onCards /\ backup'.snapshots = backup.snapshots
        /\ backup'.age = backup.age + 1
        /\ \A o \in Objects : /\ backup.tracked[o] \in Ages \cup {None}
                             /\ backup'.tracked[o] = Older(backup.tracked[o])
  <2> SUFFICES ASSUME backup' # None
               PROVE  /\ backup # None /\ backup \in Moments /\ backup' \in Moments
                      /\ backup'.onCards = backup.onCards
                      /\ backup'.snapshots = backup.snapshots
                      /\ backup'.age = backup.age + 1
                      /\ \A o \in Objects :
                           /\ backup.tracked[o] \in Ages \cup {None}
                           /\ backup'.tracked[o] = Older(backup.tracked[o])
    OBVIOUS
  <2>1. /\ backup # None /\ backup \in Moments /\ backup.age # Window
        /\ backup' = [backup EXCEPT !.age = backup.age + 1,
             !.tracked = [o \in Objects |-> Older(backup.tracked[o])]]
    BY DEF Tick, Aged, TypeOK
  <2>2. /\ backup'.onCards = backup.onCards /\ backup'.snapshots = backup.snapshots
        /\ backup'.age = backup.age + 1
        /\ backup'.tracked = [o \in Objects |-> Older(backup.tracked[o])]
    BY <2>1 DEF Moments
  <2>3. \A o \in Objects : backup.tracked[o] \in Ages \cup {None}
    BY <2>1 DEF Moments, Tracking
  <2>4. backup'.tracked \in Tracking
    BY <1>c, <2>2, <2>3 DEF Tracking
  <2>5. backup' \in Moments
    <3>1. backup.age + 1 \in 0 .. Window
      BY <2>1 DEF Moments
    <3>2. backup' = [onCards |-> backup.onCards, snapshots |-> backup.snapshots,
                     tracked |-> backup'.tracked, age |-> backup.age + 1]
      BY <2>1 DEF Moments
    <3> QED
      BY <2>1, <2>4, <3>1, <3>2 DEF Moments
  <2> QED
    BY <2>1, <2>2, <2>3, <2>5
<1>f. UNCHANGED <<bucket, onCards, snapshots, cutShort>>
  BY DEF Tick
<1>1. TypeOK'
  <2>1. tracked' \in Tracking
    BY <1>c, <1>d DEF Tick, Tracking
  <2>2. upload' \in [Photos -> UploadStates]
    BY <1>b DEF Tick
  <2> QED
    BY <1>a, <1>e, <1>f, <2>1, <2>2 DEF TypeOK
<1>2. WantedHeld'
  BY <1>b, <1>e, <1>f DEF WantedHeld, Wanted
<1>3. NoneYet'
  BY <1>a, <1>b, <1>c, <1>d, <1>e, <1>f DEF NoneYet
<1>4. UploadsYoung'
  <2> SUFFICES ASSUME NEW o \in Objects, upload[o[1]].pc = "storing"
               PROVE  /\ tracked'[o] # None => tracked'[o] <= 1
                      /\ backup' # None /\ backup'.tracked[o] # None =>
                           backup'.tracked[o] <= 1
                      /\ run'.late <= 1
    BY <1>b DEF UploadsYoung
  <2>1. upload[o[1]].late = 0
    BY <1>b
  <2>2. tracked'[o] # None => tracked'[o] <= 1
    <3>1. tracked[o] # None => tracked[o] = 0
      BY <1>d, <2>1 DEF UploadsYoung, Ages
    <3>2. Older(0) <= 1 /\ Older(None) = None
      BY DEF Older
    <3> QED
      BY <1>d, <3>1, <3>2
  <2>3. backup' # None /\ backup'.tracked[o] # None => backup'.tracked[o] <= 1
    <3> SUFFICES ASSUME backup' # None, backup'.tracked[o] # None
                 PROVE  backup'.tracked[o] <= 1
      OBVIOUS
    <3>1. backup.tracked[o] # None
      BY <1>c, <1>e
    <3>2. backup.tracked[o] = 0
      BY <1>e, <2>1, <3>1 DEF UploadsYoung, Ages
    <3>3. backup'.tracked[o] = Older(0)
      BY <1>e, <3>2
    <3>4. Older(0) <= 1
      BY DEF Older
    <3> QED
      BY <3>3, <3>4
  <2> QED
    BY <1>a, <2>2, <2>3 DEF RunStates
<1>5. CardsYoung'
  <2> SUFFICES ASSUME NEW o \in Objects, o[1] \in onCards, tracked'[o] # None,
                      ReadBefore(o[1])
               PROVE  tracked'[o] <= 1 + run'.late
    BY <1>a, <1>f DEF CardsYoung, ReadBefore
  <2>1. tracked[o] # None /\ run.late = 0 /\ run'.late = 1
    BY <1>a, <1>c, <1>d DEF ReadBefore
  <2>2. tracked[o] <= 1 + run.late
    BY <2>1 DEF CardsYoung
  <2> QED
    BY <1>c, <1>d, <2>1, <2>2 DEF Ages
<1>6. MomentYoung'
  <2> SUFFICES ASSUME NEW o \in Objects, backup' # None
               PROVE  /\ o[1] \in backup.onCards => backup'.tracked[o] = None
                      /\ backup'.tracked[o] = None /\ tracked'[o] # None =>
                           tracked'[o] <= backup.age + 2
    BY <1>e DEF MomentYoung, Moments
  <2>1. /\ backup # None /\ backup.age \in Nat
        /\ backup'.tracked[o] = None <=> backup.tracked[o] = None
        /\ tracked'[o] = None <=> tracked[o] = None
    BY <1>c, <1>d, <1>e DEF Moments
  <2>2. tracked[o] # None => tracked'[o] <= tracked[o] + 1 /\ tracked[o] \in Nat /\ tracked'[o] \in Nat
    BY <1>c, <1>d DEF Ages
  <2> QED
    BY <2>1, <2>2 DEF MomentYoung
<1>7. RunAtRest'
  BY <1>a DEF RunAtRest
<1>8. DueUnwanted'
  BY <1>a, <1>b, <1>c, <1>d, <1>e, <1>f DEF DueUnwanted, InHand, Wanted
<1>9. BatchApart'
  BY <1>a DEF BatchApart
<1>10. CardsRead'
  BY <1>a, <1>f DEF CardsRead
<1>11. SnapshotsFollow'
  BY <1>a, <1>c, <1>d, <1>f DEF SnapshotsFollow, Found, AtPc
<1>12. MomentFollows'
  BY <1>c, <1>e, <1>f DEF MomentFollows
<1> QED
  BY <1>1, <1>2, <1>3, <1>4, <1>5, <1>6, <1>7, <1>8, <1>9, <1>10, <1>11, <1>12
     DEF CleanupInv

THEOREM CleanupStep == CleanupInv /\ [Next]_vars => CleanupInv'
<1> SUFFICES ASSUME CleanupInv, [Next]_vars PROVE CleanupInv'
  OBVIOUS
<1>1. ASSUME NEW p \in Photos,
             \/ \E v \in Variants : Stores(p, v)
             \/ Attaches(p) \/ UploadFails(p) \/ Removes(p) \/ Reveals(p)
      PROVE  CleanupInv'
  BY <1>1, StoresKeeps, AttachesKeeps, UploadFailsKeeps, RemovesKeeps, RevealsKeeps
<1>2. CASE CleansUp
  BY <1>2, StartsKeeps, ReadsCardsKeeps, TracksKeeps, ClearsKeeps, FindsDueKeeps,
     RechecksKeeps, DeletesKeeps, UntracksKeeps, NullsKeeps, RunDiesKeeps
     DEF CleansUp
<1>3. CASE KeepsMoment \/ Restores \/ Tick
  BY <1>3, KeepsMomentKeeps, RestoresKeeps, TickKeeps
<1>4. CASE UNCHANGED vars
  BY <1>4
     DEF vars, db, CleanupInv, TypeOK, WantedHeld, Wanted, NoneYet, UploadsYoung,
         CardsYoung, ReadBefore, MomentYoung, DueUnwanted, InHand, BatchApart,
         CardsRead, RunAtRest, SnapshotsFollow, Found, MomentFollows, AtPc
<1> QED
  BY <1>1, <1>2, <1>3, <1>4 DEF Next

-----------------------------------------------------------------------------

(* Every photo on a card keeps all its files, also after a restore: "the   *)
(* restored rows still find their photos".                                 *)
THEOREM CardsKeepFiles == Spec => []CardsHaveFiles
<1>1. CleanupInv => CardsHaveFiles
  BY DEF CleanupInv, TypeOK, WantedHeld, Wanted, CardsHaveFiles
<1> QED
  BY <1>1, InitCleanup, CleanupStep, PTL DEF Spec

(* What a run is about to delete is on no card, before it looks again.     *)
THEOREM GraceIsEnough == Spec => []GraceSuffices
<1>1. CleanupInv => GraceSuffices
  BY DEF CleanupInv, TypeOK, RunStates, DueUnwanted, InHand, Wanted,
         GraceSuffices,
         AtPc
<1> QED
  BY <1>1, InitCleanup, CleanupStep, PTL DEF Spec

(* However runs fail and the database is restored, a snapshot's missing    *)
(* file is tracked still, but for a run that died between its last two     *)
(* statements.                                                             *)
THEOREM MissingFilesFound == Spec => []SnapshotsFollow
<1>1. CleanupInv => SnapshotsFollow
  BY DEF CleanupInv
<1> QED
  BY <1>1, InitCleanup, CleanupStep, PTL DEF Spec

=============================================================================
