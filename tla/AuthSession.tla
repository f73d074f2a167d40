----------------------------- MODULE AuthSession -----------------------------
(***************************************************************************)
(* Authentication: bootstrap, login and logout of stores/authStore.ts over *)
(* the three keychain entries of auth/tokenStorage.ts.                     *)
(*                                                                         *)
(* saveSession issues three writes at once and clear three erasures; the   *)
(* native keychain executes them one by one in the order they were issued, *)
(* while other calls go on.  The first write that fails rejects the whole  *)
(* save (Promise.all) but leaves its other writes on their way; a clear    *)
(* waits for all three and ignores failures (Promise.allSettled).          *)
(* The continuation of a save or clear is folded into the keychain         *)
(* operation that settles it.  Killing the app loses the store and every   *)
(* operation not yet executed.                                             *)
(***************************************************************************)
EXTENDS Naturals, Sequences

CONSTANTS
  Logouts,      \* identities for concurrent logout() calls
  MaxSessions, MaxMishaps   \* bounds: sessions issued; kills of the app and failing keychain calls

ASSUME AuthBounds == /\ MaxSessions \in Nat /\ MaxMishaps \in Nat
ASSUME LogoutsAssumption == Logouts \cap {"boot", "login", "nobody"} = {}

Sessions == 1..MaxSessions
None     == 0
Services == {"access", "refresh", "meta"}
Calls    == {"boot", "login"} \cup Logouts

VARIABLES
  autoLogin,                       \* a development build with the mock provider, which logs in by itself
  status, session, isSubmitting,   \* the Zustand store
  confirming,                      \* the confirmation alert of ProfileScreen is open
  keychain,                        \* the three entries, each of the session that wrote it
  operations,                      \* writes and erasures issued and not yet executed
  pc, current,                     \* the suspended calls, and the session a call holds
  issued, expired, ended,          \* sessions issued, about to expire, logged out
  crashes, faults,                 \* kills of the app, keychain calls that failed
  cuts                             \* the kills that lost keychain operations on their way

store  == <<status, session, isSubmitting>>
served == <<issued, expired>>
counters == <<crashes, faults, cuts>>
vars == <<autoLogin, store, confirming, keychain, operations, pc, current, served, ended, counters>>

Nothing == [e \in Services |-> None]
Whole(s) == [e \in Services |-> s]

\* The order in which saveSession and clear issue their operations.
\* Mutant: the entry with the expiry time is written first.
EntriesMetaFirst == <<"meta", "access", "refresh">>
Entries == <<"access", "refresh", "meta">>
Last == Entries[Len(Entries)]

Init ==
  /\ autoLogin \in BOOLEAN
  /\ status = "booting" /\ session = Nothing /\ isSubmitting = FALSE /\ confirming = FALSE
  /\ keychain = Nothing /\ operations = <<>>
  /\ pc = [c \in Calls |-> IF c = "boot" THEN "load" ELSE "none"]
  /\ current = [c \in Calls |-> None]
  /\ issued = 0 /\ expired = {} /\ ended = {}
  /\ crashes = 0 /\ faults = 0 /\ cuts = 0

Goto(c, label) == pc' = [pc EXCEPT ![c] = label]
Hold(c, s) == current' = [current EXCEPT ![c] = s]

\* The three operations of saveSession(s), or with s = None of clear().
Batch(c, s) == [n \in DOMAIN Entries |-> [call |-> c, entry |-> Entries[n], value |-> s]]
Issue(c, s) == operations' = operations \o Batch(c, s)

Authed(triple) == status' = "authed" /\ session' = triple
Anonymous == status' = "anonymous" /\ session' = Nothing

\* The provider issues a session never seen before.
Fresh(s) == issued < MaxSessions /\ s = issued + 1 /\ issued' = s /\ UNCHANGED expired

-----------------------------------------------------------------------------
(* bootstrap.  Nothing else runs while the splash screen shows.             *)

\* Mutant: only the access token is asked for.
IncompleteAccess == keychain["access"] = None
Incomplete == \E e \in Services : keychain[e] = None
ExpiredOrSoon == keychain["meta"] \in expired

\* loadSession finds no session; a development build logs in by itself.
LoadNothing ==
  /\ (pc["boot"] = "load" /\ Incomplete) \/ pc["boot"] = "erased"
  /\ \/ autoLogin /\ Goto("boot", "autoLogin") /\ UNCHANGED store
     \/ ~autoLogin /\ Goto("boot", "none") /\ Anonymous /\ UNCHANGED isSubmitting
  /\ UNCHANGED <<autoLogin, confirming, keychain, operations, current, served, ended, counters>>

LoadSession ==
  /\ pc["boot"] = "load" /\ ~Incomplete /\ ~ExpiredOrSoon
  /\ Goto("boot", "none")
  /\ Authed(keychain) /\ UNCHANGED isSubmitting
  /\ UNCHANGED <<autoLogin, confirming, keychain, operations, current, served, ended, counters>>

LoadExpired ==
  /\ pc["boot"] = "load" /\ ~Incomplete /\ ExpiredOrSoon
  /\ Goto("boot", "refresh")
  /\ UNCHANGED <<autoLogin, store, confirming, keychain, operations, current, served, ended, counters>>

\* The stored meta entry does not parse: everything is erased, and nothing was found.
LoadDamaged ==
  /\ pc["boot"] = "load" /\ ~Incomplete
  /\ crashes + faults < MaxMishaps /\ faults' = faults + 1
  /\ Goto("boot", "eraseDamaged") /\ Issue("boot", None)
  /\ UNCHANGED <<autoLogin, store, confirming, keychain, current, served, ended, crashes, cuts>>

\* Mutant: a rejected read leaves the app on the splash screen.
LoadFailsBooting ==
  /\ pc["boot"] = "load"
  /\ crashes + faults < MaxMishaps /\ faults' = faults + 1
  /\ Goto("boot", "none")
  /\ UNCHANGED <<autoLogin, store, confirming, keychain, operations, current, served, ended, crashes, cuts>>

\* A keychain read is rejected.
LoadFails ==
  /\ pc["boot"] = "load"
  /\ crashes + faults < MaxMishaps /\ faults' = faults + 1
  /\ Goto("boot", "none")
  /\ Anonymous /\ UNCHANGED isSubmitting
  /\ UNCHANGED <<autoLogin, confirming, keychain, operations, current, served, ended, crashes, cuts>>

\* provider.refresh, or the login of a development build, answers with a session.
BootObtains ==
  /\ pc["boot"] \in {"refresh", "autoLogin"}
  /\ \E s \in Sessions : Fresh(s) /\ Hold("boot", s) /\ Issue("boot", s)
  /\ Goto("boot", IF pc["boot"] = "refresh" THEN "saveRefreshed" ELSE "saveAuto")
  /\ UNCHANGED <<autoLogin, store, confirming, keychain, ended, counters>>

\* A refresh that is refused erases the stored session; a login that is refused erases nothing.
RefreshRefused ==
  /\ pc["boot"] = "refresh"
  /\ Goto("boot", "clear") /\ Issue("boot", None)
  /\ UNCHANGED <<autoLogin, store, confirming, keychain, current, served, ended, counters>>

AutoLoginRefused ==
  /\ pc["boot"] = "autoLogin"
  /\ Goto("boot", "none")
  /\ Anonymous /\ UNCHANGED isSubmitting
  /\ UNCHANGED <<autoLogin, confirming, keychain, operations, current, served, ended, counters>>

-----------------------------------------------------------------------------
(* login, from the login screen, whose buttons isSubmitting disables.       *)

Login ==
  /\ status = "anonymous" /\ ~isSubmitting
  /\ isSubmitting' = TRUE
  /\ Goto("login", "provider")
  /\ UNCHANGED <<autoLogin, status, session, confirming, keychain, operations, current, served, ended, counters>>

LoginObtains ==
  /\ pc["login"] = "provider"
  /\ \E s \in Sessions : Fresh(s) /\ Hold("login", s) /\ Issue("login", s)
  /\ Goto("login", "save")
  /\ UNCHANGED <<autoLogin, store, confirming, keychain, ended, counters>>

\* Mutant: the flag that disables the buttons is not reset.
LoginRefusedSubmitting ==
  /\ pc["login"] = "provider"
  /\ Goto("login", "none")
  /\ UNCHANGED <<autoLogin, store, confirming, keychain, operations, current, served, ended, counters>>

LoginRefused ==
  /\ pc["login"] = "provider"
  /\ isSubmitting' = FALSE
  /\ Goto("login", "none")
  /\ UNCHANGED <<autoLogin, status, session, confirming, keychain, operations, current, served, ended, counters>>

-----------------------------------------------------------------------------
(* logout: asked for on the profile screen, confirmed in an alert that may   *)
(* outlive the screen; nothing keeps a second call from running.             *)

AskLogout ==
  /\ status = "authed" /\ ~confirming
  /\ confirming' = TRUE
  /\ UNCHANGED <<autoLogin, store, keychain, operations, pc, current, served, ended, counters>>

CancelLogout ==
  /\ confirming
  /\ confirming' = FALSE
  /\ UNCHANGED <<autoLogin, store, keychain, operations, pc, current, served, ended, counters>>

\* Without a session the server is not asked.
ConfirmLogout(c) ==
  /\ confirming /\ pc[c] = "none"
  /\ confirming' = FALSE
  /\ Hold(c, session["access"])
  /\ IF session = Nothing THEN Goto(c, "clear") /\ Issue(c, None)
     ELSE Goto(c, "server") /\ UNCHANGED operations
  /\ UNCHANGED <<autoLogin, store, keychain, served, ended, counters>>

\* Mutant: logout does not wait for the erasures.
LogoutAnsweredEarly(c) ==
  /\ pc[c] = "server"
  /\ operations' = operations \o Batch("nobody", None)
  /\ Anonymous /\ UNCHANGED isSubmitting
  /\ ended' = ended \cup {current[c]}
  /\ Goto(c, "none")
  /\ UNCHANGED <<autoLogin, confirming, keychain, current, served, counters>>

\* The server answered the logout, or refused, or was not reached.
LogoutAnswered(c) ==
  /\ pc[c] = "server"
  /\ Goto(c, "clear") /\ Issue(c, None)
  /\ UNCHANGED <<autoLogin, store, confirming, keychain, current, served, ended, counters>>

-----------------------------------------------------------------------------
(* The keychain executes the operation issued first.                        *)

Op == Head(operations)
Saving == operations # <<>> /\ Op.call # "nobody" /\ pc[Op.call] \in {"save", "saveRefreshed", "saveAuto"}
Settles == operations # <<>> /\ Op.call # "nobody" /\ Op.entry = Last

Execute == keychain' = [keychain EXCEPT ![Op.entry] = Op.value] /\ operations' = Tail(operations)

\* An operation in the middle of a save or clear, or one of a save given up.
EntryWritten ==
  /\ operations # <<>> /\ ~Settles
  /\ Execute
  /\ UNCHANGED <<autoLogin, store, confirming, pc, current, served, ended, counters>>

\* The last write of a save: bootstrap and login go on with the session.
SessionSaved ==
  /\ Saving /\ Settles
  /\ Execute
  /\ Authed(Whole(Op.value))
  /\ isSubmitting' = (isSubmitting /\ Op.call # "login")
  /\ Goto(Op.call, "none")
  /\ UNCHANGED <<autoLogin, confirming, current, served, ended, counters>>

\* The writes of a rejected save that are still on their way settle nothing any more.
Abandoned(q, c) == [n \in DOMAIN q |-> IF q[n].call = c THEN [q[n] EXCEPT !.call = "nobody"] ELSE q[n]]

\* Mutant: a login whose session could not be stored succeeds.
SaveRejectedIgnored ==
  /\ Saving
  /\ crashes + faults < MaxMishaps /\ faults' = faults + 1
  /\ operations' = Abandoned(Tail(operations), Op.call)
  /\ Authed(Whole(Op.value)) /\ isSubmitting' = FALSE
  /\ Goto(Op.call, "none")
  /\ UNCHANGED <<autoLogin, confirming, keychain, current, served, ended, crashes, cuts>>

\* Mutant: saveSession is called outside the try of login, so that its failure is not caught.
SaveRejectedUncaught ==
  /\ Saving
  /\ crashes + faults < MaxMishaps /\ faults' = faults + 1
  /\ LET rest == Abandoned(Tail(operations), Op.call) IN
     \/ /\ pc[Op.call] = "saveRefreshed"
        /\ operations' = rest \o Batch(Op.call, None)
        /\ Goto(Op.call, "clear")
        /\ UNCHANGED store
     \/ /\ pc[Op.call] = "saveAuto"
        /\ operations' = rest
        /\ Goto(Op.call, "none")
        /\ Anonymous /\ UNCHANGED isSubmitting
     \/ /\ pc[Op.call] = "save"
        /\ operations' = rest
        /\ Goto(Op.call, "none")
        /\ UNCHANGED store
  /\ UNCHANGED <<autoLogin, confirming, keychain, current, served, ended, crashes, cuts>>

\* A write of a save fails: a refresh erases everything, a development login ends anonymous,
\* and login reports the error.
SaveRejected ==
  /\ Saving
  /\ crashes + faults < MaxMishaps /\ faults' = faults + 1
  /\ LET rest == Abandoned(Tail(operations), Op.call) IN
     \/ /\ pc[Op.call] = "saveRefreshed"
        /\ operations' = rest \o Batch(Op.call, None)
        /\ Goto(Op.call, "clear")
        /\ UNCHANGED store
     \/ /\ pc[Op.call] = "saveAuto"
        /\ operations' = rest
        /\ Goto(Op.call, "none")
        /\ Anonymous /\ UNCHANGED isSubmitting
     \/ /\ pc[Op.call] = "save"
        /\ operations' = rest
        /\ Goto(Op.call, "none")
        /\ isSubmitting' = FALSE /\ UNCHANGED <<status, session>>
  /\ UNCHANGED <<autoLogin, confirming, keychain, current, served, ended, crashes, cuts>>

\* Any other operation that fails leaves its entry and is ignored.
Skip == keychain' = keychain /\ operations' = Tail(operations)
Ignored == crashes + faults < MaxMishaps /\ faults' = faults + 1 /\ UNCHANGED <<crashes, cuts>>

EntryKept ==
  /\ operations # <<>> /\ ~Saving /\ ~Settles
  /\ Skip /\ Ignored
  /\ UNCHANGED <<autoLogin, store, confirming, pc, current, served, ended>>

\* The last erasure of a clear, executed or failed: the caller goes on, anonymous.
Cleared ==
  /\ Settles /\ ~Saving /\ pc[Op.call] = "clear"
  /\ (Execute /\ UNCHANGED counters) \/ (Skip /\ Ignored)
  /\ Anonymous /\ UNCHANGED isSubmitting
  /\ ended' = ended \cup ({current[Op.call]} \ {None})
  /\ Goto(Op.call, "none")
  /\ UNCHANGED <<autoLogin, confirming, current, served>>

\* The same within loadSession, which then reports that there is no session.
DamageErased ==
  /\ Settles /\ ~Saving /\ pc[Op.call] = "eraseDamaged"
  /\ (Execute /\ UNCHANGED counters) \/ (Skip /\ Ignored)
  /\ Goto(Op.call, "erased")
  /\ UNCHANGED <<autoLogin, store, confirming, current, served, ended>>

-----------------------------------------------------------------------------
Expire(s) ==
  /\ s \in 1..issued /\ s \notin expired
  /\ expired' = expired \cup {s}
  /\ UNCHANGED <<autoLogin, store, confirming, keychain, operations, pc, current, issued, ended, counters>>

Crash ==
  /\ crashes + faults < MaxMishaps /\ crashes' = crashes + 1
  /\ status' = "booting" /\ session' = Nothing /\ isSubmitting' = FALSE /\ confirming' = FALSE
  /\ operations' = <<>>
  /\ cuts' = IF operations = <<>> THEN cuts ELSE cuts + 1
  /\ pc' = [c \in Calls |-> IF c = "boot" THEN "load" ELSE "none"]
  /\ current' = [c \in Calls |-> None]
  /\ UNCHANGED <<autoLogin, keychain, served, ended, faults>>

-----------------------------------------------------------------------------
BootStep == \/ LoadNothing \/ LoadSession \/ LoadExpired \/ LoadDamaged \/ LoadFails
            \/ BootObtains \/ RefreshRefused \/ AutoLoginRefused
KeychainStep == EntryWritten \/ SessionSaved \/ SaveRejected \/ EntryKept \/ Cleared \/ DamageErased
LoginAnswered == LoginObtains \/ LoginRefused

Next == \/ BootStep \/ KeychainStep \/ LoginAnswered
        \/ Login \/ AskLogout \/ CancelLogout \/ Crash
        \/ \E c \in Logouts : ConfirmLogout(c) \/ LogoutAnswered(c)
        \/ \E s \in Sessions : Expire(s)

Spec == Init /\ [][Next]_vars

\* The keychain and the provider answer; the event loop runs what they resume.
FairSpec == Spec /\ WF_vars(BootStep) /\ WF_vars(KeychainStep) /\ WF_vars(LoginAnswered)

-----------------------------------------------------------------------------
(* Properties.                                                              *)

Labels == {"none", "load", "eraseDamaged", "erased", "refresh", "autoLogin", "saveRefreshed",
           "saveAuto", "clear", "provider", "save", "server"}
Entry == Sessions \cup {None}

\* Every variable holds a value the code can put there; a session always has its three parts.
TypeOK ==
  /\ status \in {"booting", "anonymous", "authed"} /\ isSubmitting \in BOOLEAN
  /\ session \in {Nothing} \cup [Services -> Sessions] /\ (session = Nothing <=> status # "authed")
  /\ keychain \in [Services -> Entry]
  /\ confirming \in BOOLEAN /\ autoLogin \in BOOLEAN
  /\ operations \in Seq([call : Calls \cup {"nobody"}, entry : Services, value : Entry])
  /\ pc \in [Calls -> Labels] /\ current \in [Calls -> Entry]
  /\ issued \in 0..MaxSessions /\ expired \subseteq Sessions /\ ended \subseteq Sessions
  /\ crashes \in 0..MaxMishaps /\ faults \in 0..MaxMishaps /\ cuts \in 0..crashes

\* As long as no keychain call fails: the session in use is one the provider issued, never a
\* mixture of two that a kill between the writes of saveSession left in the keychain.
SessionIsWhole == session # Nothing /\ faults = 0 => \E s \in 1..issued : session = Whole(s)

\* It takes two kills between the operations of one saveSession or clear and their last to mix two
\* sessions in the keychain: after one such kill bootstrap finds a whole session, or none, or one
\* that it refreshes.
WholeUnlessCutTwice ==
  session # Nothing /\ faults = 0 /\ cuts <= 1 => \E s \in 1..issued : session = Whole(s)

\* The splash screen shows, and the login buttons are disabled, only for a bootstrap or a login that
\* still runs: no failure of the provider or of a keychain call ends one and leaves them behind.
BusyHasCall == /\ status = "booting" => pc["boot"] # "none"
               /\ isSubmitting => pc["login"] # "none"

\* Whatever kills interrupted saveSession and clear, as long as no keychain call fails: the expiry
\* time that bootstrap relied on is not that of a later session than the tokens it restored, so
\* that no outdated token passes for fresh.
MetaIsOldest == session # Nothing /\ faults = 0 => session["meta"] <= session["access"] /\ session["meta"] <= session["refresh"]

\* What apiRequest and the next boot will find is the session in use, once the keychain is at
\* rest: whatever logins, repeated logouts and failing entries went before.
AuthedIsStored == status = "authed" /\ operations = <<>> => keychain = session

\* A logout that has finished leaves none of the tokens of its session, neither a later kill
\* nor a write on its way brings them back; clear ignores calls of the keychain that fail.
LogoutErases == faults = 0 => \A e \in Services : keychain[e] \notin ended

\* The splash screen ends.
BootEnds == status = "booting" ~> status # "booting"

\* The login screen's buttons are enabled again.
SubmittingEnds == isSubmitting ~> ~isSubmitting
=============================================================================
