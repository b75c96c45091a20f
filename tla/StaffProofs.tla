---------------------------- MODULE StaffProofs ----------------------------
(***************************************************************************)
(* Theorems about StaffAccess and Routing, for any number of accounts,     *)
(* passwords and requests.                                                 *)
(***************************************************************************)
EXTENDS Routing, Integers, TLAPS

-----------------------------------------------------------------------------
(***************************************************************************)
(* The inductive invariant.  A session is bound to the password of its     *)
(* account because every statement that writes a password either ends the  *)
(* sessions of the account, or writes to an account that has none: one     *)
(* that is not there yet, or one with the placeholder of the migrations.   *)
(***************************************************************************)
UsedAccountsAreThere ==
  /\ \A s \in sessions : Present(s.who)
  /\ \A c \in Callers : req[c].pc \in {"matched", "created"} => Present(req[c].who)

NobodyHasNoPassword == \A u \in Accounts : ~Present(u) => accounts[u].secret \notin Passwords

AccessInv == StaffTypeOK /\ OldPasswordsEnd /\ UsedAccountsAreThere /\ NobodyHasNoPassword

\* The initial states satisfy the invariant.
LEMMA AccessInit == StaffInit => AccessInv
<1> SUFFICES ASSUME StaffInit PROVE AccessInv
  OBVIOUS
<1> USE FirstRolesAreRoles, PasswordsAreChosen DEF StaffInit
<1>1. StaffTypeOK
  BY DEF StaffTypeOK, Rows, Placeholders, Idle
<1>2. OldPasswordsEnd /\ UsedAccountsAreThere
  BY DEF OldPasswordsEnd, UsedAccountsAreThere, Idle
<1>3. NobodyHasNoPassword
  BY DEF NobodyHasNoPassword, Placeholders
<1> QED
  BY <1>1, <1>2, <1>3 DEF AccessInv

\* A login keeps the invariant: the session it opens is the one it compared.
LEMMA LoginKeepsAccess ==
  ASSUME NEW c \in Callers, AccessInv,
         (\E u \in Accounts : Match(c, u)) \/ OpenStaffSession(c) \/ Drop(c)
  PROVE  AccessInv'
<1> USE DEF AccessInv
<1>1. ASSUME NEW u \in Accounts, Match(c, u) PROVE AccessInv'
  <2>1. req'[c] = [pc |-> "matched", who |-> u, secret |-> accounts[u].secret]
    BY <1>1 DEF Match, StaffTypeOK
  <2>2. req'[c] \in Requests
    BY <1>1, <2>1 DEF Match, StaffTypeOK, Rows, Requests, Compares
  <2>3. StaffTypeOK'
    BY <1>1, <2>1, <2>2 DEF Match, StaffTypeOK
  <2>4. UsedAccountsAreThere'
    BY <1>1, <2>1 DEF Match, StaffTypeOK, UsedAccountsAreThere, Present
  <2> QED
    BY <1>1, <2>3, <2>4 DEF Match, OldPasswordsEnd, NobodyHasNoPassword, Present
<1>2. CASE OpenStaffSession(c)
  <2> DEFINE new == [who |-> req[c].who, secret |-> req[c].secret,
                     raced |-> req[c].secret # accounts[req[c].who].secret]
  <2>1. req[c].who \in Accounts /\ req[c].secret \in Passwords
    BY <1>2 DEF OpenStaffSession, StaffTypeOK, Requests, Idle
  <2>2. new \in Tickets
    <3>1. (req[c].secret # accounts[req[c].who].secret) \in BOOLEAN
      OBVIOUS
    <3> QED
      BY <2>1, <3>1 DEF Tickets
  <2>3. sessions' = sessions \cup {new} /\ UNCHANGED accounts
    BY <1>2 DEF OpenStaffSession
  <2>4. \A d \in Callers : req'[d] = req[d] \/ req'[d] = Idle
    BY <1>2 DEF OpenStaffSession, StaffTypeOK
  <2>5. StaffTypeOK'
    BY <1>2, <2>2, <2>3 DEF OpenStaffSession, StaffTypeOK
  <2>6. OldPasswordsEnd'
    <3>1. ASSUME NEW s \in sessions'
          PROVE  s.secret = accounts'[s.who].secret \/ s.raced
      <4>1. CASE s \in sessions
        BY <2>3, <4>1 DEF OldPasswordsEnd
      <4>2. CASE s = new
        BY <2>3, <4>2
      <4> QED
        BY <2>3, <4>1, <4>2
    <3> QED
      BY <3>1 DEF OldPasswordsEnd
  <2>7. Present(new.who)
    BY <1>2 DEF OpenStaffSession, UsedAccountsAreThere
  <2>8. UsedAccountsAreThere'
    BY <2>3, <2>4, <2>7 DEF UsedAccountsAreThere, Present, Idle
  <2> QED
    BY <2>3, <2>5, <2>6, <2>8 DEF NobodyHasNoPassword, Present
<1>3. CASE Drop(c)
  <2>1. \A d \in Callers : req'[d] = req[d] \/ req'[d] = Idle
    BY <1>3 DEF Drop, StaffTypeOK
  <2>2. StaffTypeOK'
    BY <1>3 DEF Drop, StaffTypeOK
  <2>3. UsedAccountsAreThere'
    BY <1>3, <2>1 DEF Drop, UsedAccountsAreThere, Present, Idle
  <2> QED
    BY <1>3, <2>2, <2>3 DEF Drop, OldPasswordsEnd, NobodyHasNoPassword, Present
<1> QED
  BY <1>1, <1>2, <1>3

\* An administrator's request keeps the invariant.
LEMMA SavingKeepsAccess ==
  ASSUME NEW c \in Callers, NEW u \in Accounts, NEW role \in RolesInUse,
         NEW active \in BOOLEAN, NEW secret, AccessInv,
         SaveStaff(c, u, role, active, secret)
  PROVE  AccessInv'
<1> USE RolesAreRoles DEF AccessInv
<1>1. secret \in Passwords \cup Placeholders
  BY DEF SaveStaff, StaffTypeOK, Rows
<1>2. accounts' = [accounts EXCEPT ![u] = [role |-> role, active |-> active,
                                           secret |-> secret]]
  BY DEF SaveStaff
<1>3. role \in StaffRoles /\ role # "NONE"
  BY DEF StaffRoles
<1>4. StaffTypeOK'
  BY <1>1, <1>2, <1>3 DEF SaveStaff, StaffTypeOK, Rows, Revoke
<1>5. \A v \in Accounts : Present(v) => Present(v)'
  BY <1>2, <1>3 DEF Present, StaffTypeOK
<1>6. \A d \in Callers : req'[d] = req[d] \/ req'[d] = Idle
  BY DEF SaveStaff, StaffTypeOK
<1>7. \A s \in sessions' : s \in sessions /\ s.who # u
  BY DEF SaveStaff, Revoke
<1>8. OldPasswordsEnd'
  BY <1>2, <1>7 DEF OldPasswordsEnd, StaffTypeOK, Tickets
<1>9. UsedAccountsAreThere'
  <2>1. \A s \in sessions' : Present(s.who)'
    BY <1>5, <1>7 DEF UsedAccountsAreThere, StaffTypeOK, Tickets
  <2>2. \A d \in Callers : req'[d].pc \in {"matched", "created"} => Present(req[d].who) /\ req'[d] = req[d]
    BY <1>6 DEF UsedAccountsAreThere, Idle
  <2>3. \A d \in Callers : req'[d].pc \in {"matched", "created"} => req[d].who \in Accounts
    BY <2>2 DEF StaffTypeOK, Requests, Idle
  <2> QED
    BY <1>5, <2>1, <2>2, <2>3 DEF UsedAccountsAreThere, Present
<1>10. NobodyHasNoPassword'
  BY <1>2, <1>3 DEF NobodyHasNoPassword, Present, StaffTypeOK
<1> QED
  BY <1>4, <1>8, <1>9, <1>10

\* createStaff keeps the invariant: nobody uses the account before its first
\* statement, and the second one marks the sessions it makes stale.
LEMMA CreatingKeepsAccess ==
  ASSUME NEW c \in Callers, AccessInv,
         \/ \E u \in Accounts, role \in RolesInUse : CreateStaff(c, u, role)
         \/ \E secret \in Passwords : SetStaffPassword(c, secret)
  PROVE  AccessInv'
<1> USE RolesAreRoles DEF AccessInv
<1>1. ASSUME NEW u \in Accounts, NEW role \in RolesInUse, CreateStaff(c, u, role)
      PROVE  AccessInv'
  <2>1. accounts' = [accounts EXCEPT ![u] = [role |-> role, active |-> TRUE,
                                             secret |-> "invite-pending"]]
    BY <1>1 DEF CreateStaff
  <2>2. role \in StaffRoles /\ role # "NONE"
    BY DEF StaffRoles
  <2>3. /\ req' = [req EXCEPT ![c] = [pc |-> "created", who |-> u]]
        /\ sessions' = sessions
    BY <1>1 DEF CreateStaff
  <2>4. StaffTypeOK'
    BY <2>1, <2>2, <2>3 DEF StaffTypeOK, Rows, Requests, Placeholders
  <2>5. \A v \in Accounts : Present(v) => accounts'[v] = accounts[v]
    BY <1>1, <2>1 DEF CreateStaff, StaffTypeOK
  <2>6. \A s \in sessions : s.who \in Accounts /\ accounts'[s.who] = accounts[s.who]
    BY <2>5 DEF UsedAccountsAreThere, StaffTypeOK, Tickets
  <2>7. OldPasswordsEnd'
    BY <2>3, <2>6 DEF OldPasswordsEnd
  <2>8. \A s \in sessions' : Present(s.who)'
    BY <2>3, <2>6 DEF UsedAccountsAreThere, Present
  <2>9. ASSUME NEW d \in Callers, req'[d].pc \in {"matched", "created"}
        PROVE  Present(req[d].who)'
    <3>1. CASE d = c
      BY <2>1, <2>2, <2>3, <3>1 DEF Present, StaffTypeOK
    <3>2. CASE d # c
      <4>1. req'[d] = req[d]
        BY <2>3, <3>2 DEF StaffTypeOK
      <4>2. req[d].who \in Accounts /\ Present(req[d].who)
        BY <2>9, <4>1 DEF UsedAccountsAreThere, StaffTypeOK, Requests, Idle
      <4> QED
        BY <2>5, <4>1, <4>2 DEF Present
    <3> QED
      BY <3>1, <3>2
  <2>10. UsedAccountsAreThere'
    BY <2>8, <2>9 DEF UsedAccountsAreThere
  <2>11. NobodyHasNoPassword'
    BY <2>1, <2>2 DEF NobodyHasNoPassword, Present, StaffTypeOK
  <2> QED
    BY <2>4, <2>7, <2>10, <2>11
<1>2. ASSUME NEW secret \in Passwords, SetStaffPassword(c, secret)
      PROVE  AccessInv'
  <2> DEFINE u == req[c].who
             Left(s) == IF s.who = u /\ s.secret # secret
                        THEN [s EXCEPT !.raced = TRUE] ELSE s
  <2>1. u \in Accounts
    BY <1>2 DEF SetStaffPassword, StaffTypeOK, Requests, Idle
  <2>2. /\ accounts' = [accounts EXCEPT ![u] = [@ EXCEPT !.secret = secret]]
        /\ sessions' = {Left(s) : s \in sessions}
        /\ req' = [req EXCEPT ![c] = Idle]
    BY <1>2 DEF SetStaffPassword
  <2>3. accounts'[u] = [accounts[u] EXCEPT !.secret = secret]
    BY <2>1, <2>2 DEF StaffTypeOK
  <2>4. \A v \in Accounts : v # u => accounts'[v] = accounts[v]
    BY <2>1, <2>2 DEF StaffTypeOK
  <2>5. \A v \in Accounts : /\ accounts'[v] \in Rows
                            /\ accounts'[v].role = accounts[v].role
    BY <2>1, <2>3, <2>4 DEF StaffTypeOK, Rows
  <2>6. accounts'[u].secret = secret
    BY <2>1, <2>3 DEF StaffTypeOK, Rows
  <2>7. ASSUME NEW s \in sessions
        PROVE  /\ Left(s) \in Tickets
               /\ Left(s).who = s.who
               /\ Left(s).secret = accounts'[s.who].secret \/ Left(s).raced
    <3>1. s \in Tickets
      BY DEF StaffTypeOK
    <3>2. CASE s.who = u /\ s.secret # secret
      BY <3>1, <3>2 DEF Tickets
    <3>3. CASE s.who = u /\ s.secret = secret
      BY <2>6, <3>1, <3>3
    <3>4. CASE s.who # u
      BY <2>4, <3>1, <3>4 DEF OldPasswordsEnd, Tickets
    <3> QED
      BY <3>2, <3>3, <3>4
  <2>8. StaffTypeOK'
    <3>1. sessions' \subseteq Tickets
      BY <2>2, <2>7
    <3>2. accounts' \in [Accounts -> Rows]
      BY <2>2, <2>5 DEF StaffTypeOK
    <3>3. req' \in [Callers -> Requests \cup {Idle}]
      BY <2>2 DEF StaffTypeOK
    <3> QED
      BY <3>1, <3>2, <3>3 DEF StaffTypeOK
  <2>9. OldPasswordsEnd'
    <3>1. ASSUME NEW t \in sessions'
          PROVE  t.secret = accounts'[t.who].secret \/ t.raced
      <4>1. PICK s \in sessions : t = Left(s)
        BY <2>2, <3>1
      <4> HIDE DEF Left
      <4> QED
        BY <2>7, <4>1
    <3> QED
      BY <3>1 DEF OldPasswordsEnd
  <2>10. \A s \in sessions : s.who \in Accounts
    BY DEF StaffTypeOK, Tickets
  <2>11. \A s \in sessions' : Present(s.who)'
    <3>1. ASSUME NEW t \in sessions' PROVE Present(t.who)'
      <4>1. PICK s \in sessions : t = Left(s)
        BY <2>2, <3>1
      <4>2. t.who = s.who
        <5> HIDE DEF Left
        <5> QED
          BY <2>7, <4>1
      <4> QED
        BY <2>5, <2>10, <4>2 DEF UsedAccountsAreThere, Present
    <3> QED
      BY <3>1
  <2>12. \A d \in Callers : req'[d].pc \in {"matched", "created"} => req'[d] = req[d]
    BY <2>2 DEF StaffTypeOK, Idle
  <2>13. \A d \in Callers : req'[d].pc \in {"matched", "created"} => req[d].who \in Accounts
    BY <2>12 DEF StaffTypeOK, Requests, Idle
  <2>14. UsedAccountsAreThere'
    BY <2>5, <2>11, <2>12, <2>13 DEF UsedAccountsAreThere, Present
  <2>15. Present(u)
    BY <1>2 DEF SetStaffPassword, UsedAccountsAreThere
  <2>16. NobodyHasNoPassword'
    BY <2>4, <2>5, <2>15 DEF NobodyHasNoPassword, Present
  <2> QED
    BY <2>8, <2>9, <2>14, <2>16
<1> QED
  BY <1>1, <1>2

\* What is left: logging out, requireAdmin and a restart of the process.
LEMMA OthersKeepAccess ==
  ASSUME AccessInv,
         \/ \E c \in Callers : \E s \in sessions : RequireAdmin(c, s)
         \/ \E s \in sessions : CloseStaffSession(s)
         \/ \E configured \in BOOLEAN : Restart(configured)
  PROVE  AccessInv'
<1> USE DEF AccessInv
<1>1. ASSUME NEW c \in Callers, NEW s \in sessions, RequireAdmin(c, s)
      PROVE  AccessInv'
  <2>1. s.who \in Accounts
    BY DEF StaffTypeOK, Tickets
  <2>2. req' = [req EXCEPT ![c] = [pc |-> "acting", who |-> s.who]]
    BY <1>1 DEF RequireAdmin
  <2>3. UNCHANGED <<accounts, sessions>>
    BY <1>1 DEF RequireAdmin
  <2>4. StaffTypeOK'
    BY <2>1, <2>2, <2>3 DEF StaffTypeOK, Requests
  <2>5. \A d \in Callers : req'[d].pc \in {"matched", "created"} => req'[d] = req[d]
    BY <2>2 DEF StaffTypeOK
  <2>6. UsedAccountsAreThere'
    BY <2>3, <2>5 DEF UsedAccountsAreThere, Present
  <2> QED
    BY <2>3, <2>4, <2>6 DEF OldPasswordsEnd, NobodyHasNoPassword, Present
<1>2. ASSUME NEW s \in sessions, CloseStaffSession(s) PROVE AccessInv'
  BY <1>2 DEF CloseStaffSession, StaffTypeOK, OldPasswordsEnd, UsedAccountsAreThere,
              NobodyHasNoPassword, Present
<1>3. ASSUME NEW configured \in BOOLEAN, Restart(configured) PROVE AccessInv'
  <2>1. ASSUME NEW u \in Accounts
        PROVE  /\ accounts'[u] \in Rows
               /\ accounts'[u].role = accounts[u].role
               /\ \/ accounts'[u].secret = accounts[u].secret
                  \/ Present(u) /\ accounts[u].secret = "development-only"
    BY <1>3, BootstrapIsPassword DEF Restart, AfterBootstrap, StaffTypeOK, Rows, Present
  <2>2. StaffTypeOK'
    BY <1>3, <2>1 DEF Restart, StaffTypeOK
  <2>3. \A s \in sessions : s.who \in Accounts /\ s.secret # "development-only"
    BY PasswordsAreChosen DEF StaffTypeOK, Tickets, Placeholders
  <2>4. OldPasswordsEnd'
    BY <1>3, <2>1, <2>3 DEF Restart, OldPasswordsEnd
  <2>5. UsedAccountsAreThere'
    BY <1>3, <2>1, <2>3 DEF Restart, UsedAccountsAreThere, Present, Idle
  <2>6. NobodyHasNoPassword'
    BY <2>1 DEF NobodyHasNoPassword, Present
  <2> QED
    BY <2>2, <2>4, <2>5, <2>6
<1> QED
  BY <1>1, <1>2, <1>3

\* The invariant is inductive.
LEMMA AccessInductive == AccessInv /\ [StaffNext]_staffVars => AccessInv'
<1> SUFFICES ASSUME AccessInv, [StaffNext]_staffVars PROVE AccessInv'
  OBVIOUS
<1>1. CASE StaffNext
  BY <1>1, LoginKeepsAccess, SavingKeepsAccess, CreatingKeepsAccess, OthersKeepAccess
     DEF StaffNext
<1>2. CASE UNCHANGED staffVars
  BY <1>2 DEF staffVars, AccessInv, StaffTypeOK, OldPasswordsEnd, UsedAccountsAreThere,
              NobodyHasNoPassword, Present
<1> QED
  BY <1>1, <1>2

\* The invariant holds always.
LEMMA AccessHolds == StaffSpec => []AccessInv
<1> QED
  BY AccessInit, AccessInductive, PTL DEF StaffSpec

\* A session of the staff was opened with the password its account has now, but
\* for the races OldPasswordsEnd names: whoever changes a password or switches an
\* account off ends what it was used for (saveStaff, SetStaffPassword).
THEOREM SessionsFollowPasswords == StaffSpec => [](StaffTypeOK /\ OldPasswordsEnd)
<1>1. AccessInv => StaffTypeOK /\ OldPasswordsEnd
  BY DEF AccessInv
<1> QED
  BY <1>1, AccessHolds, PTL

-----------------------------------------------------------------------------
\* The check of saveStaff that an administrator keeps the own account active keeps
\* the last administrator, unless the author is none any more: two administrators
\* who switch each other off at the same moment.
THEOREM LastAdministratorStays == StaffSpec => AdministrationLostOnlyByStaleSave
<1> DEFINE Stays == Administrators # {} /\ Administrators' = {} =>
                      \E c \in Callers : req[c].pc = "acting" /\ req'[c] = Idle
                                           /\ req[c].who \notin Administrators
<1>1. ASSUME AccessInv, StaffNext PROVE Stays
  <2> USE <1>1 DEF AccessInv
  <2>1. ASSUME NEW c \in Callers, NEW u \in Accounts, NEW role \in RolesInUse,
               NEW active \in BOOLEAN, NEW secret,
               SaveStaff(c, u, role, active, secret)
        PROVE  Stays
    <3>1. req[c].pc = "acting" /\ req'[c] = Idle
      BY <2>1 DEF SaveStaff, StaffTypeOK
    <3>2. CASE req[c].who \in Administrators
      <4> DEFINE v == req[c].who
      <4>1. CASE v = u
        <5>1. accounts'[u].active /\ accounts'[u].role = "ADMIN"
          BY <2>1, <4>1 DEF SaveStaff, MaySave, StaffTypeOK
        <5> QED
          BY <5>1 DEF Administrators
      <4>2. CASE v # u
        <5>1. v \in Accounts /\ accounts'[v] = accounts[v]
          BY <2>1, <3>2, <4>2 DEF SaveStaff, StaffTypeOK, Administrators
        <5> QED
          BY <3>2, <5>1 DEF Administrators
      <4> QED
        BY <4>1, <4>2
    <3> QED
      BY <3>1, <3>2
  <2>2. ASSUME NEW c \in Callers, NEW u \in Accounts, NEW role \in RolesInUse,
               CreateStaff(c, u, role)
        PROVE  Administrators \subseteq Administrators'
    BY <2>2 DEF CreateStaff, StaffTypeOK, Administrators, Present
  <2>3. ASSUME NEW c \in Callers, NEW secret \in Passwords, SetStaffPassword(c, secret)
        PROVE  Administrators' = Administrators
    <3>1. \A v \in Accounts : /\ accounts'[v].role = accounts[v].role
                              /\ accounts'[v].active = accounts[v].active
      BY <2>3 DEF SetStaffPassword, StaffTypeOK, Rows
    <3> QED
      BY <3>1 DEF Administrators
  <2>4. ASSUME NEW configured \in BOOLEAN, Restart(configured)
        PROVE  Administrators' = Administrators
    <3>1. \A v \in Accounts : /\ accounts'[v].role = accounts[v].role
                              /\ accounts'[v].active = accounts[v].active
      BY <2>4 DEF Restart, StaffTypeOK, Rows
    <3> QED
      BY <3>1 DEF Administrators
  <2>5. ASSUME UNCHANGED accounts PROVE Administrators' = Administrators
    BY <2>5 DEF Administrators
  <2> QED
    BY <2>1, <2>2, <2>3, <2>4, <2>5
       DEF StaffNext, Match, OpenStaffSession, Drop, RequireAdmin, CloseStaffSession
<1>2. AccessInv /\ [StaffNext]_staffVars => [Stays]_staffVars
  BY <1>1
<1> QED
  BY <1>2, AccessHolds, PTL DEF StaffSpec, AdministrationLostOnlyByStaleSave

\* BootstrapStaff at every start replaces no password that somebody has set.
THEOREM PasswordsAreKept == StaffSpec => PasswordsSurviveRestart
<1> DEFINE Kept == \A u \in Accounts :
       accounts[u].secret \in Passwords /\ accounts'[u].secret # accounts[u].secret =>
         \E c \in Callers : req[c].pc \in {"acting", "created"} /\ req'[c] = Idle
<1>1. ASSUME AccessInv, StaffNext PROVE Kept
  <2> USE <1>1 DEF AccessInv
  <2>1. ASSUME NEW c \in Callers, NEW u \in Accounts, NEW role \in RolesInUse,
               NEW active \in BOOLEAN, NEW secret,
               SaveStaff(c, u, role, active, secret)
        PROVE  Kept
    BY <2>1 DEF SaveStaff, StaffTypeOK
  <2>2. ASSUME NEW c \in Callers, NEW u \in Accounts, NEW role \in RolesInUse,
               CreateStaff(c, u, role)
        PROVE  Kept
    BY <2>2 DEF CreateStaff, StaffTypeOK, NobodyHasNoPassword
  <2>3. ASSUME NEW c \in Callers, NEW secret \in Passwords, SetStaffPassword(c, secret)
        PROVE  Kept
    BY <2>3 DEF SetStaffPassword, StaffTypeOK
  <2>4. ASSUME NEW configured \in BOOLEAN, Restart(configured) PROVE Kept
    BY <2>4, PasswordsAreChosen DEF Restart, AfterBootstrap, StaffTypeOK, Rows, Placeholders
  <2>5. ASSUME UNCHANGED accounts PROVE Kept
    BY <2>5
  <2> QED
    BY <2>1, <2>2, <2>3, <2>4, <2>5
       DEF StaffNext, Match, OpenStaffSession, Drop, RequireAdmin, CloseStaffSession
<1>2. AccessInv /\ [StaffNext]_staffVars => [Kept]_staffVars
  BY <1>1
<1> QED
  BY <1>2, AccessHolds, PTL DEF StaffSpec, PasswordsSurviveRestart

-----------------------------------------------------------------------------
(***************************************************************************)
(* Routing.                                                                *)
(***************************************************************************)

\* Saving groups disturbs no account and no session: to the accounts it is a
\* request of an administrator that has come to nothing.  All that is proved of
\* StaffAccess holds beside saveGroup.
THEOREM GroupsDisturbNoAccount == RoutingSpec => StaffSpec
<1>1. ASSUME NEW c \in Callers, NEW active, NEW chosen, SaveGroup(c, active, chosen)
      PROVE  StaffNext
  <2>1. Drop(c)
    BY <1>1 DEF SaveGroup, Drop, Idle
  <2> QED
    BY <2>1 DEF StaffNext
<1>2. RoutingNext => StaffNext
  BY <1>1 DEF RoutingNext
<1>3. [RoutingNext]_routingVars => [StaffNext]_staffVars
  BY <1>2 DEF routingVars
<1>4. RoutingInit => StaffInit
  BY DEF RoutingInit
<1> QED
  BY <1>3, <1>4, PTL DEF RoutingSpec, StaffSpec

\* The group lists accounts, however groups and accounts were saved (saveGroup).
THEOREM GroupsListAccounts == RoutingSpec => []RoutingTypeOK
<1> DEFINE GroupOK == group \in [active : BOOLEAN, members : SUBSET Accounts]
<1>1. RoutingInit => GroupOK
  BY DEF RoutingInit
<1>2. GroupOK /\ [RoutingNext]_routingVars => GroupOK'
  <2>1. ASSUME NEW c \in Callers, NEW active \in BOOLEAN, NEW chosen,
               SaveGroup(c, active, chosen)
        PROVE  GroupOK'
    BY <2>1 DEF SaveGroup, Ready
  <2> QED
    BY <2>1 DEF RoutingNext, routingVars
<1>3. RoutingSpec => []GroupOK
  BY <1>1, <1>2, PTL DEF RoutingSpec
<1>4. StaffTypeOK /\ GroupOK => RoutingTypeOK
  BY DEF RoutingTypeOK
<1>5. RoutingSpec => []StaffTypeOK
  BY GroupsDisturbNoAccount, SessionsFollowPasswords, PTL
<1> QED
  BY <1>3, <1>4, <1>5, PTL
=============================================================================
