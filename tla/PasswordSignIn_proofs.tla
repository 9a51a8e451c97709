------------------------ MODULE PasswordSignIn_proofs ------------------------
(***************************************************************************)
(* No session made with an old password outlives the write of a new one,   *)
(* however many sign-ins and writes overlap, and no invitee is stranded.   *)
(*                                                                         *)
(* The argument: the numbers a sign-in reads only grow, so when its second *)
(* read finds what the first did, the password it checked in between is    *)
(* still the last one.  From then on its session is either there when a    *)
(* write's trigger runs, and doomed, or the write has not run.             *)
(***************************************************************************)
EXTENDS PasswordSignIn, TLAPS

(* Every write has a number above the last committed one.                  *)
NumbersGrow ==
  /\ credential <= written
  /\ flight # None => flight = written /\ credential < flight

(* Only one writer's statement is open, and it is the flight.              *)
OneFlight ==
  /\ \A w \in Writers :
       /\ writer[w].pc = "commit" => flight # None
       /\ writer[w].pc \in {"commit", "renew"} => writer[w].write # 0
  /\ \A w1, w2 \in Writers :
       writer[w1].pc = "commit" /\ writer[w2].pc = "commit" => w1 = w2

(* What a sign-in past its check knows: the password it checked is no      *)
(* older than its first read, and was committed.                           *)
CheckedBetween ==
  \A r \in SignIns :
    /\ signIn[r].pc # "idle" => signIn[r].secret # 0
    /\ signIn[r].pc \in {"check", "insert", "settle", "answer", "refuse"}
         => signIn[r].seen <= credential
    /\ signIn[r].pc \in {"insert", "settle", "answer", "refuse"}
         => /\ signIn[r].seen <= signIn[r].secret
            /\ signIn[r].secret <= credential
    /\ signIn[r].session # None
         => /\ signIn[r].pc \in {"settle", "answer", "refuse"}
            /\ signIn[r].session.write = signIn[r].secret
            /\ signIn[r].session.by = "sign_in"

(* The session is of the last password, and doomed once a write runs.      *)
Sound(session) ==
  /\ session.write = credential
  /\ flight # None => session.doomed

SettledSound ==
  \A r \in SignIns :
    signIn[r].pc = "answer" /\ signIn[r].session # None
      => Sound(signIn[r].session)

GivenSound == \A s \in sessions : s.by = "sign_in" => Sound(s)

RaceInv ==
  /\ TypeOK
  /\ NumbersGrow
  /\ OneFlight
  /\ CheckedBetween
  /\ SettledSound
  /\ GivenSound

-----------------------------------------------------------------------------

THEOREM InitRace == Init => RaceInv
<1> SUFFICES ASSUME Init PROVE RaceInv
  OBVIOUS
<1> USE PasswordSignInAssumption DEF Init, NoSignIn, NoWriter
<1>1. TypeOK
  BY DEF TypeOK, SignInStates, WriterStates, Writes
<1>2. NumbersGrow /\ OneFlight
  BY DEF NumbersGrow, OneFlight
<1>3. CheckedBetween /\ SettledSound /\ GivenSound
  BY DEF CheckedBetween, SettledSound, GivenSound
<1> QED
  BY <1>1, <1>2, <1>3 DEF RaceInv

LEMMA SignInStep ==
  ASSUME RaceInv, NEW r \in SignIns, SignsIn(r)
  PROVE  RaceInv'
<1> USE PasswordSignInAssumption DEF RaceInv, account
<1> DEFINE Parts == /\ NumbersGrow' /\ OneFlight' /\ CheckedBetween'
                    /\ SettledSound' /\ GivenSound'
<1>1. CASE Arrives(r)
  <2>1. TypeOK'
    BY <1>1 DEF Arrives, Writes, NoSignIn, TypeOK, SignInStates
  <2>2. Parts
    BY <1>1 DEF Arrives, Writes, NoSignIn, TypeOK, SignInStates, NumbersGrow,
         OneFlight, CheckedBetween, SettledSound, GivenSound, Sound
  <2> QED BY <2>1, <2>2
<1>2. CASE Begins(r)
  <2>1. TypeOK'
    BY <1>2 DEF Begins, Writes, NoSignIn, TypeOK, SignInStates
  <2>2. Parts
    BY <1>2 DEF Begins, Writes, NoSignIn, TypeOK, SignInStates, NumbersGrow,
         OneFlight, CheckedBetween, SettledSound, GivenSound, Sound
  <2> QED BY <2>1, <2>2
<1>3. CASE Checks(r)
  <2>1. TypeOK'
    BY <1>3 DEF Checks, SignInEnds, Writes, NoSignIn, TypeOK, SignInStates
  <2>2. Parts
    BY <1>3 DEF Checks, SignInEnds, Writes, NoSignIn, TypeOK, SignInStates, NumbersGrow,
         OneFlight, CheckedBetween, SettledSound, GivenSound, Sound
  <2> QED BY <2>1, <2>2
<1>4. CASE Inserts(r)
  <2>a. signIn[r].secret \in Writes
    BY <1>4 DEF Inserts, TypeOK, SignInStates, CheckedBetween, Writes
  <2>b. [by |-> "sign_in", write |-> signIn[r].secret, doomed |-> FALSE] \in SessionRows
    BY <2>a DEF SessionRows
  <2>1. TypeOK'
    BY <1>4, <2>b DEF Inserts, TypeOK, SignInStates
  <2>2. Parts
    BY <1>4 DEF Inserts, SessionRows, Writes, NoSignIn, TypeOK, SignInStates, NumbersGrow,
         OneFlight, CheckedBetween, SettledSound, GivenSound, Sound
  <2> QED BY <2>1, <2>2
<1>5. CASE Settles(r)
  <2>1. TypeOK'
    BY <1>5 DEF Settles, ReadWaits, Writes, NoSignIn, TypeOK, SignInStates
  <2>2. Parts
    <3>1. CASE signIn' = [signIn EXCEPT ![r].pc = "refuse"]
      BY <1>5, <3>1 DEF Settles, TypeOK, SignInStates, NumbersGrow, OneFlight,
                        CheckedBetween, SettledSound, GivenSound, Sound
    <3>2. CASE /\ ~ReadWaits
               /\ signIn[r].seen = credential
               /\ signIn' = [signIn EXCEPT ![r].pc = "answer"]
      <4>a. /\ signIn[r].seen <= signIn[r].secret
            /\ signIn[r].secret <= credential
            /\ signIn[r].secret # 0
        BY <1>5 DEF Settles, CheckedBetween
      <4>b. /\ signIn[r].seen \in Nat /\ signIn[r].secret \in Nat
            /\ credential \in Nat
        BY DEF TypeOK, SignInStates
      <4>1. signIn[r].secret = credential /\ credential # 0
        BY <3>2, <4>a, <4>b
      <4>2. flight = None
        BY <3>2, <4>1 DEF ReadWaits
      <4>3. CheckedBetween'
        BY <1>5, <3>2 DEF Settles, CheckedBetween, TypeOK, SignInStates
      <4>4. SettledSound'
        BY <1>5, <3>2, <4>1, <4>2 DEF Settles, SettledSound, CheckedBetween, Sound,
                                      TypeOK, SignInStates
      <4> QED
        BY <1>5, <4>3, <4>4 DEF Settles, NumbersGrow, OneFlight, GivenSound, Sound
    <3> QED
      BY <1>5, <3>1, <3>2 DEF Settles
  <2> QED BY <2>1, <2>2
<1>6. CASE Refuses(r)
  <2>1. TypeOK'
    BY <1>6 DEF Refuses, SignInEnds, NoSignIn, TypeOK, SignInStates
  <2>2. Parts
    BY <1>6 DEF Refuses, SignInEnds, NoSignIn, TypeOK, SignInStates, NumbersGrow,
         OneFlight, CheckedBetween, SettledSound, GivenSound, Sound
  <2> QED BY <2>1, <2>2
<1>7. CASE Answers(r)
  <2>1. TypeOK'
    BY <1>7 DEF Answers, SignInEnds, NoSignIn, TypeOK, SignInStates
  <2>2. Parts
    BY <1>7 DEF Answers, SignInEnds, NoSignIn, TypeOK, SignInStates, NumbersGrow,
         OneFlight, CheckedBetween, SettledSound, GivenSound, Sound
  <2> QED BY <2>1, <2>2
<1>8. CASE SignInDies(r)
  <2>1. TypeOK'
    BY <1>8 DEF SignInDies, SignInEnds, NoSignIn, TypeOK, SignInStates
  <2>2. Parts
    BY <1>8 DEF SignInDies, SignInEnds, NoSignIn, TypeOK, SignInStates, NumbersGrow,
         OneFlight, CheckedBetween, SettledSound, GivenSound, Sound
  <2> QED BY <2>1, <2>2
<1> QED
  BY <1>1, <1>2, <1>3, <1>4, <1>5, <1>6, <1>7, <1>8 DEF SignsIn

LEMMA DoomedRow ==
  ASSUME NEW session \in SessionRows, NEW doomed \in BOOLEAN
  PROVE  [session EXCEPT !.doomed = doomed] \in SessionRows
BY DEF SessionRows

(* What a trigger deletes, or a rollback gives back, stays of its type.    *)
LEMMA DoomingTyped ==
  ASSUME TypeOK, NEW doomed \in BOOLEAN
  PROVE  /\ RowsDoomed(doomed) \subseteq SessionRows
         /\ HeldDoomed(doomed) \in [SignIns -> SignInStates]
<1>1. RowsDoomed(doomed) \subseteq SessionRows
  BY DoomedRow DEF RowsDoomed, TypeOK
<1>2. ASSUME NEW r \in SignIns
      PROVE  HeldDoomed(doomed)[r] \in SignInStates
  <2>1. signIn[r] \in SignInStates
    BY DEF TypeOK
  <2>2. Dooming(signIn[r].session, doomed) \in SessionRows \cup {None}
    BY <2>1, DoomedRow DEF Dooming, SignInStates
  <2> QED
    BY <2>1, <2>2 DEF HeldDoomed, SignInStates
<1> QED
  BY <1>1, <1>2 DEF HeldDoomed

LEMMA WriterStep ==
  ASSUME RaceInv, NEW w \in Writers, WritesPassword(w)
  PROVE  RaceInv'
<1> USE PasswordSignInAssumption DEF RaceInv, account
<1> DEFINE Parts == /\ NumbersGrow' /\ OneFlight' /\ CheckedBetween'
                    /\ SettledSound' /\ GivenSound'
<1>1. CASE Starts(w)
  <2>1. TypeOK'
    BY <1>1 DEF Starts, NoWriter, TypeOK, WriterStates, WriteKinds
  <2>2. Parts
    BY <1>1 DEF Starts, NoWriter, TypeOK, WriterStates, SignInStates, NumbersGrow,
         OneFlight, CheckedBetween, SettledSound, GivenSound, Sound
  <2> QED BY <2>1, <2>2
<1>2. CASE Consumes(w)
  <2>1. TypeOK'
    BY <1>2 DEF Consumes, NoWriter, TypeOK, WriterStates, WriteKinds
  <2>2. Parts
    BY <1>2 DEF Consumes, NoWriter, TypeOK, WriterStates, SignInStates, NumbersGrow,
         OneFlight, CheckedBetween, SettledSound, GivenSound, Sound
  <2> QED BY <2>1, <2>2
<1>3. CASE MarksVerified(w)
  <2>1. TypeOK'
    BY <1>3 DEF MarksVerified, NoWriter, TypeOK, WriterStates, WriteKinds
  <2>2. Parts
    BY <1>3 DEF MarksVerified, NoWriter, TypeOK, WriterStates, SignInStates, NumbersGrow,
         OneFlight, CheckedBetween, SettledSound, GivenSound, Sound
  <2> QED BY <2>1, <2>2
<1>4. CASE Runs(w)
  <2>a. /\ RowsDoomed(TRUE) \subseteq SessionRows
        /\ HeldDoomed(TRUE) \in [SignIns -> SignInStates]
    BY DoomingTyped
  <2>b. written + 1 \in Writes /\ written + 1 \in 0 .. MaxWrites
    BY <1>4 DEF Runs, TypeOK, Writes
  <2>1. TypeOK'
    BY <1>4, <2>a, <2>b DEF Runs, TypeOK, WriterStates
  <2>2. Parts
    BY <1>4 DEF Runs, HeldDoomed, RowsDoomed, Dooming, SessionRows, Writes, NoWriter, TypeOK, WriterStates, SignInStates, NumbersGrow,
         OneFlight, CheckedBetween, SettledSound, GivenSound, Sound
  <2> QED BY <2>1, <2>2
<1>5. CASE Commits(w)
  <2>1. flight \in Writes /\ flight \in Nat /\ credential < flight
    BY <1>5 DEF Commits, TypeOK, OneFlight, NumbersGrow, Writes
  <2>2. signIn' \in [SignIns -> SignInStates]
    BY <1>5 DEF Commits, TypeOK, SignInStates
  <2>3. writer' \in [Writers -> WriterStates]
    BY <1>5 DEF Commits, WriterEnds, NoWriter, TypeOK, WriterStates
  <2>4. TypeOK'
    BY <1>5, <2>1, <2>2, <2>3 DEF Commits, TypeOK, Writes
  <2>5. NumbersGrow'
    BY <1>5, <2>1 DEF Commits, NumbersGrow, TypeOK
  <2>6. \A v \in Writers : v # w => writer'[v] = writer[v] /\ writer[v].pc # "commit"
    BY <1>5 DEF Commits, WriterEnds, TypeOK, OneFlight
  <2>7. OneFlight'
    BY <1>5, <2>6 DEF Commits, WriterEnds, NoWriter, TypeOK, WriterStates, OneFlight
  <2>8. ASSUME NEW r \in SignIns
        PROVE  /\ signIn'[r].pc = signIn[r].pc
               /\ signIn'[r].secret = signIn[r].secret
               /\ signIn'[r].seen = signIn[r].seen
               /\ signIn'[r].session # None
                    => /\ signIn'[r].session = signIn[r].session
                       /\ ~signIn[r].session.doomed
    BY <1>5 DEF Commits, TypeOK, SignInStates
  <2>9. CheckedBetween'
    BY <1>5, <2>1, <2>8 DEF Commits, CheckedBetween, TypeOK, SignInStates
  <2>10. SettledSound'
    BY <1>5, <2>8 DEF Commits, SettledSound, Sound, OneFlight
  <2>11. GivenSound'
    BY <1>5 DEF Commits, GivenSound, Sound, OneFlight
  <2> QED
    BY <2>4, <2>5, <2>7, <2>9, <2>10, <2>11
<1>6. CASE RollsBack(w)
  <2>a. /\ RowsDoomed(FALSE) \subseteq SessionRows
        /\ HeldDoomed(FALSE) \in [SignIns -> SignInStates]
    BY DoomingTyped
  <2>1. TypeOK'
    <3>1. writer' \in [Writers -> WriterStates]
      BY <1>6 DEF RollsBack, WriterEnds, NoWriter, TypeOK, WriterStates
    <3> QED
      BY <1>6, <2>a, <3>1 DEF RollsBack, TypeOK
  <2>2. Parts
    BY <1>6 DEF RollsBack, WriterEnds, HeldDoomed, RowsDoomed, Dooming, SessionRows, NoWriter, TypeOK, WriterStates, SignInStates, NumbersGrow,
         OneFlight, CheckedBetween, SettledSound, GivenSound, Sound
  <2> QED BY <2>1, <2>2
<1>7. CASE Renews(w)
  <2>a. writer[w].write \in Writes
    BY <1>7 DEF Renews, TypeOK, WriterStates, OneFlight, Writes
  <2>b. [by |-> "change", write |-> writer[w].write, doomed |-> FALSE] \in SessionRows
    BY <2>a DEF SessionRows
  <2>1. TypeOK'
    <3>1. writer' \in [Writers -> WriterStates]
      BY <1>7 DEF Renews, WriterEnds, NoWriter, TypeOK, WriterStates
    <3> QED
      BY <1>7, <2>b, <3>1 DEF Renews, TypeOK
  <2>2. Parts
    BY <1>7 DEF Renews, WriterEnds, SessionRows, Writes, NoWriter, TypeOK, WriterStates, SignInStates, NumbersGrow,
         OneFlight, CheckedBetween, SettledSound, GivenSound, Sound
  <2> QED BY <2>1, <2>2
<1>8. CASE WriterDies(w)
  <2>1. TypeOK'
    BY <1>8 DEF WriterDies, WriterEnds, NoWriter, TypeOK, WriterStates, WriteKinds
  <2>2. Parts
    BY <1>8 DEF WriterDies, WriterEnds, NoWriter, TypeOK, WriterStates, SignInStates, NumbersGrow,
         OneFlight, CheckedBetween, SettledSound, GivenSound, Sound
  <2> QED BY <2>1, <2>2
<1> QED
  BY <1>1, <1>2, <1>3, <1>4, <1>5, <1>6, <1>7, <1>8 DEF WritesPassword

-----------------------------------------------------------------------------

LEMMA RaceStep == RaceInv /\ [Next]_vars => RaceInv'
<1> SUFFICES ASSUME RaceInv, [Next]_vars PROVE RaceInv'
  OBVIOUS
<1>1. CASE \E r \in SignIns : SignsIn(r)
  BY <1>1, SignInStep
<1>2. CASE \E w \in Writers : WritesPassword(w)
  BY <1>2, WriterStep
<1>3. CASE Resends
  BY <1>3 DEF Resends, RaceInv, TypeOK, NumbersGrow, OneFlight, CheckedBetween,
              SettledSound, GivenSound, Sound
<1>4. CASE UNCHANGED vars
  BY <1>4 DEF vars, account, RaceInv, TypeOK, NumbersGrow, OneFlight,
              CheckedBetween, SettledSound, GivenSound, Sound
<1> QED
  BY <1>1, <1>2, <1>3, <1>4 DEF Next

(* The types are kept, whatever the slots and the number of writes.        *)
THEOREM SignInTypes == Spec => []TypeOK
<1>1. RaceInv => TypeOK
  BY DEF RaceInv
<1> QED
  BY InitRace, RaceStep, <1>1, PTL DEF Spec

(* PW1-F6, for any number of sign-ins and writes: a session a sign-in gave *)
(* away was made with the password as it is now.                           *)
THEOREM OldPasswordsKeepNoSession == Spec => []NoOldPasswordSession
<1>1. RaceInv => NoOldPasswordSession
  BY DEF RaceInv, GivenSound, Sound, NoOldPasswordSession
<1> QED
  BY InitRace, RaceStep, <1>1, PTL DEF Spec

-----------------------------------------------------------------------------

(* Whoever writes a password has a verified address.                       *)
WritersVerified ==
  /\ NeverStranded
  /\ member => verified
  /\ flight # None => verified
  /\ \A w \in Writers : writer[w].pc = "run" => verified

(* A crash at any step of the invitation's form leaves the invitee a way   *)
(* in, for any number of forms, resets and writes.                         *)
THEOREM InviteeNotStranded == Spec => []NeverStranded
<1>1. Init => WritersVerified
  BY DEF Init, NoWriter, WritersVerified, NeverStranded
<1>2. ASSUME RaceInv, WritersVerified, [Next]_vars
      PROVE  WritersVerified'
  <2> USE <1>2 DEF RaceInv, TypeOK, WriterStates, WritersVerified, NeverStranded,
               account
  <2>1. ASSUME NEW r \in SignIns, SignsIn(r)
        PROVE  WritersVerified'
    BY <2>1 DEF SignsIn, Arrives, Begins, Checks, Inserts, Settles, Refuses,
                Answers, SignInDies
  <2>2. ASSUME NEW w \in Writers, WritesPassword(w)
        PROVE  WritersVerified'
    <3>1. CASE Starts(w)
      BY <3>1 DEF Starts
    <3>2. CASE Consumes(w) \/ MarksVerified(w)
      BY <3>2 DEF Consumes, MarksVerified
    <3>3. CASE Runs(w)
      BY <3>3 DEF Runs
    <3>4. CASE Commits(w)
      BY <3>4 DEF Commits, WriterEnds, NoWriter, OneFlight
    <3>5. CASE RollsBack(w)
      BY <3>5 DEF RollsBack, WriterEnds, NoWriter
    <3>6. CASE Renews(w)
      BY <3>6 DEF Renews, WriterEnds, NoWriter
    <3>7. CASE WriterDies(w)
      BY <3>7 DEF WriterDies, WriterEnds, NoWriter
    <3> QED
      BY <2>2, <3>1, <3>2, <3>3, <3>4, <3>5, <3>6, <3>7 DEF WritesPassword
  <2>3. CASE Resends
    BY <2>3 DEF Resends
  <2>4. CASE UNCHANGED vars
    BY <2>4 DEF vars
  <2> QED
    BY <2>1, <2>2, <2>3, <2>4 DEF Next
<1>3. WritersVerified => NeverStranded
  BY DEF WritersVerified
<1> QED
  BY <1>1, <1>2, <1>3, InitRace, RaceStep, PTL DEF Spec

=============================================================================
