------------------------------- MODULE Routing -------------------------------
(***************************************************************************)
(* The group of experts a category is routed to: saveGroup                 *)
(* (httpapi/workflow.go) beside the accounts of StaffAccess.  A group      *)
(* lists accounts that were active experts when it was saved; what becomes *)
(* of the accounts later does not change the list.  The model has the one  *)
(* group that the rule of a category names.                                *)
(***************************************************************************)
EXTENDS StaffAccess

VARIABLE group  \* the group, with its rows of specialist_group_members

routingVars == <<staffVars, group>>

\* Active experts: the ones the action "assign" accepts.
Ready == {u \in Accounts : accounts[u].active /\ accounts[u].role = "EXPERT"}

\* The migration puts the experts there are into the group.
RoutingInit ==
  /\ StaffInit
  /\ group = [active |-> TRUE, members |-> {u \in Accounts : FirstRoles[u] = "EXPERT"}]

\* saveGroup, one transaction that holds the row of the group: its members are
\* replaced by the accounts of the request that are active experts now.  (The
\* members of an inactive group are read nowhere and saved again before it
\* becomes active: the next-state relation gives it none.)
SaveGroup(c, active, chosen) ==
  /\ req[c].pc = "acting"
  /\ group' = [active |-> active, members |-> chosen \cap Ready]
  /\ req' = [req EXCEPT ![c] = Idle]
  /\ UNCHANGED <<accounts, sessions>>

RoutingNext ==
  \/ StaffNext /\ UNCHANGED group
  \/ \E c \in Callers, chosen \in SUBSET Ready :
       SaveGroup(c, TRUE, chosen) \/ (chosen = {} /\ SaveGroup(c, FALSE, chosen))

RoutingSpec == RoutingInit /\ [][RoutingNext]_routingVars

-----------------------------------------------------------------------------
(***************************************************************************)
(* Properties.                                                             *)
(***************************************************************************)

\* The type invariant.
RoutingTypeOK == StaffTypeOK /\ group \in [active : BOOLEAN, members : SUBSET Accounts]
=============================================================================
