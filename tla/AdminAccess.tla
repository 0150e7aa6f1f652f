----------------------------- MODULE AdminAccess -----------------------------
(***************************************************************************)
(* The administrator's password and session: auth/session.go,               *)
(* admin/password.go with its file, the handlers of admin/http.go that log  *)
(* in, log out and change the password, and the two ways to reset it: over  *)
(* the control socket of the running service (control.go), or directly      *)
(* while no service holds the service lock (reset_password.go).             *)
(*                                                                         *)
(* PasswordManager and SessionManager each have a mutex, and no lock spans  *)
(* both: a handler that verified a password creates its session later, and  *)
(* one whose session was accepted acts later.  A password is the number of  *)
(* the save that brought it; time is left out, so a session may expire at   *)
(* any moment.  The limiter, which only refuses logins, is left out.        *)
(***************************************************************************)
EXTENDS Naturals

CONSTANTS Browsers, Console,   \* who sends requests
          None,
          MaxSaves, MaxLogins  \* bounds: passwords saved, sessions created

VARIABLES
  saved,      \* the password in the file, 0 before there is one
  up,         \* a service runs, and holds the service lock
  session,    \* SessionManager.active
  made,       \* sessions created so far, over all processes
  cookie,     \* the session each browser was given, 0 for none
  request,    \* the handler that runs for each browser and the console
  changing    \* who holds PasswordManager.mu between a save and its revocation

vars == <<saved, up, session, made, cookie, request, changing>>

Callers == Browsers \cup {Console}
Idle == [at |-> "idle"]
Init ==
  /\ saved = 0 /\ up = FALSE
  /\ session = None /\ made = 0 /\ cookie = [b \in Browsers |-> 0]
  /\ request = [c \in Callers |-> Idle] /\ changing = None

Goes(c, stage) == request' = [request EXCEPT ![c] = stage]
At(c, stage) == up /\ request[c].at = stage
CanSave == saved < MaxSaves

-----------------------------------------------------------------------------
(***************************************************************************)
(* The process.                                                            *)
(***************************************************************************)
\* PasswordManager.Initialize, at the start of the service: the first one makes
\* a password, and if that cannot be saved the start fails.
Start ==
  /\ ~up /\ up' = TRUE
  /\ IF saved = 0 THEN saved' = 1 ELSE UNCHANGED saved
  /\ UNCHANGED <<session, made, cookie, request, changing>>

\* A stop or a crash, between any two steps: what is not in the file is gone.
Stop ==
  /\ up /\ up' = FALSE
  /\ session' = None /\ request' = [c \in Callers |-> Idle] /\ changing' = None
  /\ UNCHANGED <<saved, made, cookie>>

\* The workflow finds no control socket and gets the service lock.
ResetDirectly ==
  /\ ~up /\ CanSave /\ saved' = saved + 1
  /\ UNCHANGED <<up, session, made, cookie, request, changing>>

-----------------------------------------------------------------------------
(***************************************************************************)
(* Sessions.                                                               *)
(***************************************************************************)
\* Authenticate accepts the password in the file; a refused login changes
\* nothing here.
Authenticate(b) ==
  /\ At(b, "idle") /\ saved > 0 /\ changing = None
  /\ Goes(b, [at |-> "verified"])
  /\ UNCHANGED <<saved, up, session, made, cookie, changing>>

\* SessionManager.Create replaces whatever session there is.
Create(b) ==
  /\ At(b, "verified") /\ made < MaxLogins
  /\ made' = made + 1
  /\ session' = [token |-> made', since |-> saved]
  /\ cookie' = [cookie EXCEPT ![b] = made']
  /\ Goes(b, Idle)
  /\ UNCHANGED <<saved, up, changing>>

CreateFails(b) ==
  /\ At(b, "verified") /\ Goes(b, Idle)
  /\ UNCHANGED <<saved, up, session, made, cookie, changing>>

\* validateLocked: any request may find that the session is too old.
Expire ==
  /\ session # None /\ session' = None
  /\ UNCHANGED <<saved, up, made, cookie, request, changing>>

\* RequireMutation accepts the cookie and its CSRF token; the handler runs later.
Admit(b, operation) ==
  /\ At(b, "idle") /\ session # None /\ cookie[b] = session.token
  /\ Goes(b, [at |-> operation])
  /\ UNCHANGED <<saved, up, session, made, cookie, changing>>

\* handleLogout revokes the session there is, and so does handleChangePassword
\* once more after Change has returned.
Revoke(b) ==
  /\ At(b, "revoke")
  /\ session' = None /\ cookie' = [cookie EXCEPT ![b] = 0]
  /\ Goes(b, Idle)
  /\ UNCHANGED <<saved, up, made, changing>>

-----------------------------------------------------------------------------
(***************************************************************************)
(* Passwords.                                                              *)
(***************************************************************************)
\* Change verifies the current password and saves its replacement, Reset saves
\* one without being asked for another.  The mutex stays held.
Save(c) ==
  /\ IF c = Console THEN At(c, "idle") ELSE At(c, "change")
  /\ changing = None /\ CanSave
  /\ saved' = saved + 1 /\ changing' = c
  /\ UNCHANGED <<up, session, made, cookie, request>>

\* The current password is wrong, or the file cannot be replaced.
SaveFails(b) ==
  /\ At(b, "change") /\ changing = None
  /\ Goes(b, Idle)
  /\ UNCHANGED <<saved, up, session, made, cookie, changing>>

\* Mutant: the console's manager has no sessions to revoke (noOpSessionRevoker)
RevokeOwn(c) ==
  /\ changing = c /\ changing' = None
  /\ IF c = Console THEN UNCHANGED <<session, request>>
     ELSE session' = None /\ Goes(c, [at |-> "revoke"])
  /\ UNCHANGED <<saved, up, made, cookie>>

\* The end of Change and Reset, which release the mutex.
RevokeAll(c) ==
  /\ changing = c /\ changing' = None
  /\ session' = None
  /\ IF c = Console THEN UNCHANGED request ELSE Goes(c, [at |-> "revoke"])
  /\ UNCHANGED <<saved, up, made, cookie>>

Next ==
  \/ Start \/ Stop \/ ResetDirectly \/ Expire
  \/ \E b \in Browsers :
       \/ Authenticate(b) \/ Create(b) \/ CreateFails(b)
       \/ \E operation \in {"revoke", "change"} : Admit(b, operation)
       \/ Revoke(b) \/ SaveFails(b)
  \/ \E c \in Callers : Save(c) \/ RevokeAll(c)

Spec == Init /\ [][Next]_vars

(***************************************************************************)
(* Properties                                                              *)
(***************************************************************************)
\* When the password has been replaced, by the service or while it was down,
\* no session is in force that was when the replacement was saved, whoever
\* logged in, logged out or changed it at the same time, and wherever the
\* process died.  A login that had verified the old password before may still
\* create its session afterwards.
NoneOutlivesItsPassword ==
  session # None /\ changing = None => session.since = saved
=============================================================================
