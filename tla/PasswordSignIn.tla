--------------------------- MODULE PasswordSignIn ---------------------------
(***************************************************************************)
(* Password sign-ins of one address that race the writes of its password:  *)
(* apps/web/src/kabinet/sign-in-race.ts, password-hooks.ts and             *)
(* invite-password.ts over the auth_account and auth_session tables.       *)
(*                                                                         *)
(* A sign-in reads the credential, lets Better Auth read it again, check   *)
(* the password and insert a session, and then reads the credential once   *)
(* more, waiting for a write in flight.  A password write is one statement *)
(* whose trigger (drizzle/0013) deletes the user's sessions; what it does  *)
(* is seen by others when it commits.                                      *)
(*                                                                         *)
(* A write is known by its number: its stamp and its salted hash are new   *)
(* each time, so the number stands for both, and for the password it sets. *)
(* The delay before a sign-in is in SignInDelay.  Better Auth and Postgres *)
(* are outside the repository: what they do is as its comments rely on it. *)
(***************************************************************************)
EXTENDS Naturals

CONSTANTS
  None,
  SignIns,     \* the slots in which the servers run sign-ins
  Writers,     \* the slots in which they run password writes
  MaxWrites    \* bound on the password writes of a behaviour

ASSUME PasswordSignInAssumption ==
  /\ MaxWrites \in Nat
  /\ None \notin Nat

(* 0 is no credential: a user who has no password yet.                     *)
Writes == 1 .. MaxWrites

WriteKinds == {"reset", "change", "accept"}

(* A session row.  Doomed: a write in flight has deleted it.               *)
SessionRows == [by : {"sign_in", "change"}, write : Writes, doomed : BOOLEAN]

VARIABLES
  credential,  \* the last committed write
  flight,      \* the write whose statement runs, not yet committed
  written,     \* writes begun so far
  sessions,    \* the session rows whose token left the server
  signIn,      \* the sign-in in each slot
  writer,      \* the write in each slot
  verified,    \* whether the address is verified
  member,      \* whether its user is a shelter's admin
  link         \* whether the invitation's link still works

account == <<verified, member, link>>

vars == <<credential, flight, written, sessions, signIn, writer, account>>

NoSignIn == [pc |-> "idle", secret |-> 0, seen |-> 0, session |-> None]

NoWriter == [pc |-> "idle", kind |-> None, write |-> 0]

Init ==
  /\ flight = None
  /\ credential \in {0, 1} \cap 0 .. MaxWrites
  /\ written = credential
  /\ sessions = {}
  /\ signIn = [r \in SignIns |-> NoSignIn]
  /\ writer = [w \in Writers |-> NoWriter]
  /\ member \in BOOLEAN
  /\ verified = member
  /\ link = ~member
  /\ credential # 0 => member

-----------------------------------------------------------------------------
(* A sign-in.                                                              *)

(* With the password of some write, the last one or another.               *)
Arrives(r) ==
  /\ signIn[r].pc = "idle"
  /\ \E secret \in Writes :
       signIn' = [signIn EXCEPT ![r] = [pc |-> "begin", secret |-> secret,
                                        seen |-> 0, session |-> None]]
  /\ UNCHANGED <<credential, flight, written, sessions, writer, account>>

SignInEnds(r) == signIn' = [signIn EXCEPT ![r] = NoSignIn]

(* The first read: plain, of what is committed.                            *)
Begins(r) ==
  /\ signIn[r].pc = "begin"
  /\ signIn' = [signIn EXCEPT ![r].pc = "check", ![r].seen = credential]
  /\ UNCHANGED <<credential, flight, written, sessions, writer, account>>

(* Better Auth reads the hash.  A wrong password is answered, after a      *)
(* second read that decides nothing.                                       *)
Checks(r) ==
  /\ signIn[r].pc = "check"
  /\ IF signIn[r].secret = credential
     THEN signIn' = [signIn EXCEPT ![r].pc = "insert"]
     ELSE SignInEnds(r)
  /\ UNCHANGED <<credential, flight, written, sessions, writer, account>>

(* Some time later it inserts the session.                                 *)
Inserts(r) ==
  /\ signIn[r].pc = "insert"
  /\ signIn' = [signIn EXCEPT ![r].pc = "settle",
                  ![r].session = [by |-> "sign_in", write |-> signIn[r].secret,
                                  doomed |-> FALSE]]
  /\ UNCHANGED <<credential, flight, written, sessions, writer, account>>

(* Mutant: a second read that does not wait for a write in flight.         *)
ReadWaitsNever == FALSE

(* FOR SHARE waits for the statement that updates the row; a first         *)
(* password has no row to wait on.                                         *)
ReadWaits == flight # None /\ credential # 0

(* The second read finds what the first did, or another write.  It may     *)
(* also fail, and fails closed.                                            *)
Settles(r) ==
  /\ signIn[r].pc = "settle"
  /\ \/ /\ ~ReadWaits
        /\ signIn[r].seen = credential
        /\ signIn' = [signIn EXCEPT ![r].pc = "answer"]
     \/ /\ ~ReadWaits
        /\ signIn[r].seen # credential
        /\ signIn' = [signIn EXCEPT ![r].pc = "refuse"]
     \/ signIn' = [signIn EXCEPT ![r].pc = "refuse"]
  /\ UNCHANGED <<credential, flight, written, sessions, writer, account>>

(* Refused: the cookie is dropped and the row deleted.  A delete that      *)
(* fails leaves a row whose token nobody has.                              *)
Refuses(r) ==
  /\ signIn[r].pc = "refuse"
  /\ SignInEnds(r)
  /\ UNCHANGED <<credential, flight, written, sessions, writer, account>>

(* The answer carries the token of the session, if its row is still there. *)
(* Signing in accepts the invitation, for a verified address.              *)
Answers(r) ==
  /\ signIn[r].pc = "answer"
  /\ sessions' = sessions \cup ({signIn[r].session} \ {None})
  /\ member' = (member \/ verified)
  /\ SignInEnds(r)
  /\ UNCHANGED <<credential, flight, written, writer, verified, link>>

(* The server dies: no answer leaves it.                                   *)
SignInDies(r) ==
  /\ signIn[r].pc # "idle"
  /\ SignInEnds(r)
  /\ UNCHANGED <<credential, flight, written, sessions, writer, account>>

SignsIn(r) ==
  Arrives(r) \/ Begins(r) \/ Checks(r) \/ Inserts(r) \/ Settles(r)
    \/ Refuses(r) \/ Answers(r) \/ SignInDies(r)

-----------------------------------------------------------------------------
(* A password write.                                                       *)

WriterEnds(w) == writer' = [writer EXCEPT ![w] = NoWriter]

(* A reset, or a change of a password there is, is for an admin.           *)
Starts(w) ==
  /\ writer[w].pc = "idle"
  /\ member
  /\ written < MaxWrites
  /\ \E kind \in WriteKinds \ {"accept"} :
       /\ kind = "change" => credential # 0
       /\ writer' = [writer EXCEPT ![w] = [pc |-> "run", kind |-> kind,
                                           write |-> 0]]
  /\ UNCHANGED <<credential, flight, written, sessions, signIn, account>>

(* Mutant: the password is written before the address is verified.         *)
ConsumesAndWrites(w) ==
  /\ writer[w].pc = "idle"
  /\ link /\ ~member
  /\ credential = 0
  /\ written < MaxWrites
  /\ link' = FALSE
  /\ writer' = [writer EXCEPT ![w] = [pc |-> "run", kind |-> "accept",
                                      write |-> 0]]
  /\ UNCHANGED <<credential, flight, written, sessions, signIn, verified, member>>

(* The invitation's form uses its link up before it writes anything.       *)
Consumes(w) ==
  /\ writer[w].pc = "idle"
  /\ link /\ ~member
  /\ credential = 0
  /\ written < MaxWrites
  /\ link' = FALSE
  /\ writer' = [writer EXCEPT ![w] = [pc |-> "verify", kind |-> "accept",
                                      write |-> 0]]
  /\ UNCHANGED <<credential, flight, written, sessions, signIn, verified, member>>

MarksVerified(w) ==
  /\ writer[w].pc = "verify"
  /\ verified' = TRUE
  /\ writer' = [writer EXCEPT ![w].pc = "run"]
  /\ UNCHANGED <<credential, flight, written, sessions, signIn, member, link>>

Dooming(session, doomed) ==
  IF session = None THEN None ELSE [session EXCEPT !.doomed = doomed]

HeldDoomed(doomed) ==
  [r \in SignIns |->
     [signIn[r] EXCEPT !.session = Dooming(@, doomed)]]

RowsDoomed(doomed) == {[s EXCEPT !.doomed = doomed] : s \in sessions}

(* The statement runs, and with it the trigger: the row is locked, every   *)
(* session there is now is deleted.  Another write waits for the lock; two *)
(* first passwords are taken one after the other too.                      *)
Runs(w) ==
  /\ writer[w].pc = "run"
  /\ flight = None
  /\ written < MaxWrites
  /\ written' = written + 1
  /\ flight' = written + 1
  /\ writer' = [writer EXCEPT ![w].pc = "commit", ![w].write = written + 1]
  /\ sessions' = RowsDoomed(TRUE)
  /\ signIn' = HeldDoomed(TRUE)
  /\ UNCHANGED <<credential, account>>

(* A change then signs its own device in anew.                             *)
Commits(w) ==
  /\ writer[w].pc = "commit"
  /\ credential' = flight
  /\ flight' = None
  /\ sessions' = {s \in sessions : ~s.doomed}
  /\ signIn' = [r \in SignIns |->
                  [signIn[r] EXCEPT
                     !.session = IF @ # None /\ @.doomed THEN None ELSE @]]
  /\ IF writer[w].kind = "change"
     THEN writer' = [writer EXCEPT ![w].pc = "renew"]
     ELSE WriterEnds(w)
  /\ UNCHANGED <<written, account>>

RollsBack(w) ==
  /\ writer[w].pc = "commit"
  /\ flight' = None
  /\ sessions' = RowsDoomed(FALSE)
  /\ signIn' = HeldDoomed(FALSE)
  /\ WriterEnds(w)
  /\ UNCHANGED <<credential, written, account>>

Renews(w) ==
  /\ writer[w].pc = "renew"
  /\ sessions' = sessions \cup {[by |-> "change", write |-> writer[w].write,
                                 doomed |-> FALSE]}
  /\ WriterEnds(w)
  /\ UNCHANGED <<credential, flight, written, signIn, account>>

(* The server dies between two statements.                                 *)
WriterDies(w) ==
  /\ writer[w].pc \in {"verify", "run", "renew"}
  /\ WriterEnds(w)
  /\ UNCHANGED <<credential, flight, written, sessions, signIn, account>>

WritesPassword(w) ==
  Starts(w) \/ Consumes(w) \/ MarksVerified(w) \/ Runs(w) \/ Commits(w)
    \/ RollsBack(w) \/ Renews(w) \/ WriterDies(w)

(* A resend gives the invitation another link.  No form of the old one is  *)
(* under way: two would write two credentials.                             *)
Resends ==
  /\ ~link /\ ~member
  /\ credential = 0
  /\ \A w \in Writers : writer[w].kind # "accept"
  /\ link' = TRUE
  /\ UNCHANGED <<credential, flight, written, sessions, signIn, writer, verified, member>>

-----------------------------------------------------------------------------

Next ==
  \/ \E r \in SignIns : SignsIn(r)
  \/ \E w \in Writers : WritesPassword(w)
  \/ Resends

Spec == Init /\ [][Next]_vars

SignInStates ==
  [pc : {"idle", "begin", "check", "insert", "settle", "answer", "refuse"},
   secret : 0 .. MaxWrites, seen : 0 .. MaxWrites,
   session : SessionRows \cup {None}]

WriterStates ==
  [pc : {"idle", "verify", "run", "commit", "renew"},
   kind : WriteKinds \cup {None}, write : 0 .. MaxWrites]

TypeOK ==
  /\ credential \in 0 .. MaxWrites
  /\ flight \in Writes \cup {None}
  /\ written \in 0 .. MaxWrites
  /\ sessions \subseteq SessionRows
  /\ signIn \in [SignIns -> SignInStates]
  /\ writer \in [Writers -> WriterStates]
  /\ verified \in BOOLEAN
  /\ member \in BOOLEAN
  /\ link \in BOOLEAN

-----------------------------------------------------------------------------
(* Safety.                                                                 *)

(* However a sign-in and a write overlap, "every order of the two requests *)
(* ends with no session made with the old password": one that a sign-in    *)
(* gave away was made with the password as it is now.                      *)
NoOldPasswordSession ==
  \A s \in sessions : s.by = "sign_in" => s.write = credential

(* No crash leaves an invitee with a password on an address nobody         *)
(* verified: "a resend's link reads usable and finishes".                  *)
NeverStranded == credential # 0 => verified

=============================================================================
