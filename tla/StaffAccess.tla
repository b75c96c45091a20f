----------------------------- MODULE StaffAccess -----------------------------
(***************************************************************************)
(* The accounts of the staff, their passwords and sessions, as staffLogin, *)
(* staffOnly, saveStaff, createStaff (httpapi) and SetStaffPassword,       *)
(* Login, BootstrapStaff, CreateStaff (store) read and write them.         *)
(*                                                                         *)
(* No row is locked from one statement to the next, so that every request  *)
(* may be overtaken after each of its statements:                          *)
(*                                                                         *)
(*   matched  the login has compared the password, not yet inserted the    *)
(*            session                                                      *)
(*   acting   requireAdmin has read the role, the handler not yet written  *)
(*   created  the new account is inserted, its password not yet set        *)
(***************************************************************************)
EXTENDS FiniteSets

CONSTANTS
  Accounts,      \* the accounts there may be
  FirstRoles,    \* the roles of those the migrations insert, "NONE" for the others
  Passwords,     \* what the staff and administrators enter
  Bootstrap,     \* STAFF_BOOTSTRAP_PASSWORD
  RolesInUse,    \* a bound: the roles an administrator gives
  Callers        \* requests handled at the same time

StaffRoles   == {"ADMIN", "OPERATOR", "EXPERT"}
Placeholders == {"development-only", "invite-pending"}

ASSUME FirstRolesAreRoles == FirstRoles \in [Accounts -> StaffRoles \cup {"NONE"}]
ASSUME BootstrapIsPassword == Bootstrap \in Passwords
ASSUME PasswordsAreChosen == Passwords \cap Placeholders = {}
ASSUME RolesAreRoles == RolesInUse \subseteq StaffRoles

VARIABLES
  accounts,  \* staff_users; the role of an account there is not is "NONE"
  sessions,  \* staff_sessions, with the password each was opened with
  req        \* the requests being handled

staffVars == <<accounts, sessions, req>>

Rows     == [role : StaffRoles \cup {"NONE"}, active : BOOLEAN,
             secret : Passwords \cup Placeholders]
\* raced: since the login compared the password, another request has written it.
Tickets  == [who : Accounts, secret : Passwords, raced : BOOLEAN]
Requests == [pc : {"matched"}, who : Accounts, secret : Passwords]
              \cup [pc : {"acting", "created"}, who : Accounts]
Idle     == [pc |-> "idle"]

Present(u) == accounts[u].role # "NONE"

\* Who may administrate now.
Administrators == {u \in Accounts : accounts[u].active /\ accounts[u].role = "ADMIN"}

StaffInit ==
  /\ accounts = [u \in Accounts |-> [role |-> FirstRoles[u], active |-> TRUE,
                                     secret |-> "development-only"]]
  /\ sessions = {}
  /\ req = [c \in Callers |-> Idle]

-----------------------------------------------------------------------------
(***************************************************************************)
(* Login and logout.                                                       *)
(***************************************************************************)
\* Slip: a column that is no hash is compared as it is.
ComparesAlways(secret) == TRUE

\* CompareHashAndPassword, with a password that was set; a placeholder is no hash
\* and matches nothing.
Compares(secret) == secret \in Passwords

\* Login, first statement: an active account whose hash the password matches.
Match(c, u) ==
  /\ req[c] = Idle
  /\ Present(u) /\ accounts[u].active
  /\ Compares(accounts[u].secret)
  /\ req' = [req EXCEPT ![c] = [pc |-> "matched", who |-> u,
                                secret |-> accounts[u].secret]]
  /\ UNCHANGED <<accounts, sessions>>

\* Login, second statement: the session, whatever has become of the account.
OpenStaffSession(c) ==
  /\ req[c].pc = "matched"
  /\ sessions' = sessions \cup
       {[who |-> req[c].who, secret |-> req[c].secret,
         raced |-> req[c].secret # accounts[req[c].who].secret]}
  /\ req' = [req EXCEPT ![c] = Idle]
  /\ UNCHANGED accounts

\* The session is logged out of or expires.
CloseStaffSession(s) ==
  /\ sessions' = sessions \ {s}
  /\ UNCHANGED <<accounts, req>>

\* requireAdmin: the session and the role of its account, read once.
RequireAdmin(c, s) ==
  /\ req[c] = Idle
  /\ s.who \in Administrators
  /\ req' = [req EXCEPT ![c] = [pc |-> "acting", who |-> s.who]]
  /\ UNCHANGED <<accounts, sessions>>

\* The handler refuses, the client goes away or the connection breaks.
Drop(c) ==
  /\ req[c] # Idle
  /\ req' = [req EXCEPT ![c] = Idle]
  /\ UNCHANGED <<accounts, sessions>>

-----------------------------------------------------------------------------
(***************************************************************************)
(* Accounts.                                                               *)
(***************************************************************************)
\* Slip: administrators may lock themselves out.
MaySaveAny(author, u, role, active) == TRUE

\* The check of saveStaff: one's own account stays an active administrator.
MaySave(author, u, role, active) == u = author => active /\ role = "ADMIN"

\* Slip: the sessions of a saved account live on.
KeepSessions(u) == sessions

\* DELETE FROM staff_sessions of a saved account.
Revoke(u) == {s \in sessions : s.who # u}

\* saveStaff, one transaction: the whole row, the password only if one was
\* entered, and the sessions of the account.
SaveStaff(c, u, role, active, secret) ==
  /\ req[c].pc = "acting"
  /\ Present(u)
  /\ MaySave(req[c].who, u, role, active)
  /\ secret \in Passwords \cup {accounts[u].secret}
  /\ accounts' = [accounts EXCEPT ![u] = [role |-> role, active |-> active,
                                          secret |-> secret]]
  /\ sessions' = Revoke(u)
  /\ req' = [req EXCEPT ![c] = Idle]

\* createStaff, first statement: the account is there, with no password yet.
CreateStaff(c, u, role) ==
  /\ req[c].pc = "acting"
  /\ ~Present(u)
  /\ role # "ADMIN"
  /\ accounts' = [accounts EXCEPT ![u] = [role |-> role, active |-> TRUE,
                                          secret |-> "invite-pending"]]
  /\ req' = [req EXCEPT ![c] = [pc |-> "created", who |-> u]]
  /\ UNCHANGED sessions

\* createStaff, second statement: SetStaffPassword.  No session is revoked: one
\* that was opened meanwhile, with a password saveStaff has set, lives on.
SetStaffPassword(c, secret) ==
  LET u == req[c].who IN
  /\ req[c].pc = "created"
  /\ accounts' = [accounts EXCEPT ![u] = [@ EXCEPT !.secret = secret]]
  /\ sessions' = {IF s.who = u /\ s.secret # secret
                  THEN [s EXCEPT !.raced = TRUE] ELSE s : s \in sessions}
  /\ req' = [req EXCEPT ![c] = Idle]

\* Slip: every start resets the passwords.
BootstrapAll(u) == Bootstrap

\* BootstrapStaff: the accounts of the migrations that nobody has used yet.
AfterBootstrap(u) ==
  IF accounts[u].secret = "development-only" /\ Present(u) THEN Bootstrap
  ELSE accounts[u].secret

\* The process starts again: what it was handling is lost, and the passwords of
\* the migrations are replaced if a password is configured.
Restart(configured) ==
  /\ accounts' = [u \in Accounts |->
       [accounts[u] EXCEPT !.secret = IF configured THEN AfterBootstrap(u) ELSE @]]
  /\ req' = [c \in Callers |-> Idle]
  /\ UNCHANGED sessions

-----------------------------------------------------------------------------
StaffNext ==
  \/ \E c \in Callers :
       \/ \E u \in Accounts : Match(c, u)
       \/ OpenStaffSession(c) \/ Drop(c)
       \/ \E s \in sessions : RequireAdmin(c, s)
       \/ \E u \in Accounts, role \in RolesInUse, active \in BOOLEAN :
            \E secret \in Passwords \cup Placeholders : SaveStaff(c, u, role, active, secret)
       \/ \E u \in Accounts, role \in RolesInUse : CreateStaff(c, u, role)
       \/ \E secret \in Passwords : SetStaffPassword(c, secret)
  \/ \E s \in sessions : CloseStaffSession(s)
  \/ \E configured \in BOOLEAN : Restart(configured)

StaffSpec == StaffInit /\ [][StaffNext]_staffVars

-----------------------------------------------------------------------------
(***************************************************************************)
(* Properties.                                                             *)
(***************************************************************************)

\* The type invariant; nobody is logged in with a placeholder.
StaffTypeOK ==
  /\ accounts \in [Accounts -> Rows]
  /\ sessions \subseteq Tickets
  /\ req \in [Callers -> Requests \cup {Idle}]

\* A session was opened with the password its account has now: a password that
\* is replaced lets nobody in any longer.  The exceptions are races: the login
\* had compared the old password when the new one was written, or createStaff
\* wrote its password over one that was in use already.
OldPasswordsEnd ==
  \A s \in sessions : s.secret = accounts[s.who].secret \/ s.raced

\* Whoever administrates keeps the right to: the last administrator can only be
\* lost by a request whose author has stopped being one since it began.
AdministrationLostOnlyByStaleSave ==
  [][Administrators # {} /\ Administrators' = {} =>
       \E c \in Callers : req[c].pc = "acting" /\ req'[c] = Idle
                            /\ req[c].who \notin Administrators]_staffVars

\* A password that somebody has set is replaced by a request of an administrator
\* only, and never by a restart.
PasswordsSurviveRestart ==
  [][\A u \in Accounts :
       accounts[u].secret \in Passwords /\ accounts'[u].secret # accounts[u].secret =>
         \E c \in Callers : req[c].pc \in {"acting", "created"} /\ req'[c] = Idle]_staffVars
=============================================================================
