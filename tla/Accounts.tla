------------------------------ MODULE Accounts ------------------------------
(***************************************************************************)
(* Accounts and their roles: services/users.py with the administration     *)
(* routes of api/routes/users.py and the registration of routes/auth.py.   *)
(*                                                                         *)
(* Several administrators are at work at once. A request loads the account *)
(* it is about once and decides on that copy (a session keeps the object   *)
(* it has loaded), so an action of a request is the code between the       *)
(* statements at which another request's commit can make a difference.     *)
(***************************************************************************)
EXTENDS FiniteSets, Integers

CONSTANTS User,       \* the accounts that may come to exist
          Founder,    \* the administrator the bootstrap script creates
          Desk,       \* administrators' sessions
          Role        \* the roles other than ADMIN

ASSUME AccountConstants == Founder \in User /\ "ADMIN" \notin Role

VARIABLES status,     \* the column users.status; "NONE": no such row
          roles,      \* the rows of user_roles, by account
          desk        \* the requests in flight

accountVars == <<status, roles, desk>>

AccountStatus == {"PENDING", "ACTIVE", "SUSPENDED", "REJECTED"}
AllRoles      == Role \cup {"ADMIN"}
Operation     == {"approve", "reject", "suspend", "activate", "change_role"}

Idle == [pc |-> "idle"]

\* seen: the status in the loaded copy; held: the role rows read for
\* replacement; alone: no other request has been in flight beside this one
RequestState ==
  [pc : {"loaded", "guarded", "replacing"}, op : Operation, actor : User,
   target : User, role : AllRoles, seen : AccountStatus,
   held : SUBSET AllRoles, alone : BOOLEAN]

AccountsInit ==
  /\ status = [u \in User |-> IF u = Founder THEN "ACTIVE" ELSE "NONE"]
  /\ roles = [u \in User |-> IF u = Founder THEN {"ADMIN"} ELSE {}]
  /\ desk = [d \in Desk |-> Idle]

ActiveAdmins == {u \in User : status[u] = "ACTIVE" /\ "ADMIN" \in roles[u]}

\* The legal transitions (_VALID_TRANSITIONS); activate only reinstates.
VALID_TRANSITIONS ==
  [approve |-> {"PENDING"}, reject |-> {"PENDING", "SUSPENDED"},
   suspend |-> {"ACTIVE"}, activate |-> {"SUSPENDED"},
   change_role |-> {"ACTIVE"}]

Outcome ==
  [approve |-> "ACTIVE", reject |-> "REJECTED", suspend |-> "SUSPENDED",
   activate |-> "ACTIVE"]

\* The count of administrators as the query computes it: user_roles joined to
\* roles, times every active account, for users is not joined to user_roles.
count_admins ==
  Cardinality({u \in User : "ADMIN" \in roles[u]})
    * Cardinality({u \in User : status[u] = "ACTIVE"})

is_sole_active_admin(u) == "ADMIN" \in roles[u] /\ count_admins <= 1

Guarded_noSelf(r) ==
  r.op \in {"reject", "suspend", "change_role"} => ~is_sole_active_admin(r.target)

\* _guard_admin_self and _guard_sole_admin, and their form in change_role
Guarded(r) ==
  CASE r.op \in {"reject", "suspend"} ->
         r.target # r.actor /\ ~is_sole_active_admin(r.target)
    [] r.op = "change_role" ->
         /\ r.target # r.actor
         /\ r.role = "ADMIN" \/ ~is_sole_active_admin(r.target)
    [] OTHER -> TRUE

InFlight == {d \in Desk : desk[d].pc # "idle"}

----------------------------------------------------------------------------
\* Self-registration creates a pending account without a role, and commits.
register_pending(u) ==
  /\ status[u] = "NONE"
  /\ status' = [status EXCEPT ![u] = "PENDING"]
  /\ UNCHANGED <<roles, desk>>

\* A request is authorised (an active account that holds ADMIN) and loads the
\* account it is about. From here on no request in flight is alone.
Load(d, op, actor, target, role) ==
  /\ desk[d].pc = "idle"
  /\ actor \in ActiveAdmins
  /\ status[target] # "NONE"
  /\ desk' = [e \in Desk |->
       IF e = d
       THEN [pc |-> "loaded", op |-> op, actor |-> actor, target |-> target,
             role |-> role, seen |-> status[target], held |-> {},
             alone |-> InFlight = {}]
       ELSE IF desk[e].pc = "idle" THEN desk[e]
       ELSE [desk[e] EXCEPT !.alone = FALSE]]
  /\ UNCHANGED <<status, roles>>

\* The guards of the route and the transition check of the service, which
\* decides on the loaded copy; a refusal answers 403 or 409.
Guard(d) ==
  /\ desk[d].pc = "loaded"
  /\ LET r == desk[d] IN
     desk' = [desk EXCEPT ![d] =
       IF Guarded(r) /\ r.seen \in VALID_TRANSITIONS[r.op]
       THEN [r EXCEPT !.pc = "guarded"]
       ELSE Idle]
  /\ UNCHANGED <<status, roles>>

\* The UPDATE of an approval holds the row of the account until its COMMIT.
RowHeld(u) ==
  \E e \in Desk : /\ desk[e].pc = "replacing"
                  /\ desk[e].op = "approve"
                  /\ desk[e].target = u

\* update_status of a rejection, suspension or reinstatement, and the COMMIT
update_status(d) ==
  /\ desk[d].pc = "guarded"
  /\ desk[d].op \in DOMAIN Outcome \ {"approve"}
  /\ ~RowHeld(desk[d].target)
  /\ status' = [status EXCEPT ![desk[d].target] = Outcome[desk[d].op]]
  /\ desk' = [desk EXCEPT ![d] = Idle]
  /\ UNCHANGED roles

\* replace_roles reads the assignments of the account, an approval after its
\* uncommitted UPDATE of the status
ReadRoles(d) ==
  /\ desk[d].pc = "guarded"
  /\ desk[d].op \in {"approve", "change_role"}
  /\ desk[d].op = "approve" => ~RowHeld(desk[d].target)
  /\ desk' = [desk EXCEPT ![d].pc = "replacing",
                          ![d].held = roles[desk[d].target]]
  /\ UNCHANGED <<status, roles>>

\* The rows replace_roles leaves: those it read are deleted and the new one is
\* inserted, unless it was among those read, which makes the flush keep the row.
Replaced(r) ==
  LET kept == roles[r.target] \ (r.held \ {r.role})
  IN  IF r.role \in r.held THEN kept ELSE kept \cup {r.role}

\* The flush and the COMMIT. When another request has inserted the same row
\* meanwhile, the primary key refuses it and everything rolls back.
replace_roles(d) ==
  /\ desk[d].pc = "replacing"
  /\ LET r == desk[d]
         clash == r.role \notin r.held /\ r.role \in roles[r.target]
     IN  /\ roles' = IF clash THEN roles
                     ELSE [roles EXCEPT ![r.target] = Replaced(r)]
         /\ status' = IF clash \/ r.op # "approve" THEN status
                      ELSE [status EXCEPT ![r.target] = "ACTIVE"]
  /\ desk' = [desk EXCEPT ![d] = Idle]

DeskStep(d) == Guard(d) \/ update_status(d) \/ ReadRoles(d) \/ replace_roles(d)

AccountsNext ==
  \/ \E u \in User : register_pending(u)
  \/ \E d \in Desk, op \in Operation, actor, target \in User, role \in AllRoles :
       /\ op \notin {"approve", "change_role"} => role = "ADMIN"
       /\ Load(d, op, actor, target, role)
  \/ \E d \in Desk : DeskStep(d)

AccountsSpec == AccountsInit /\ [][AccountsNext]_accountVars

----------------------------------------------------------------------------
\* Every variable has its type; a pending account has no role.
AccountsTypeOK ==
  /\ status \in [User -> AccountStatus \cup {"NONE"}]
  /\ roles \in [User -> SUBSET AllRoles]
  /\ desk \in [Desk -> {Idle} \cup RequestState]
  /\ \A u \in User : status[u] \in {"NONE", "PENDING"} => roles[u] = {}

\* A request that had the accounts for itself never takes the last active
\* administrator away (routes/users.py: the final active ADMIN cannot be
\* demoted, suspended or rejected). Overlapping requests can: each guard sees
\* the administrator the other one is about to remove.
KeepsAnAdmin ==
  [][ActiveAdmins # {} /\ ActiveAdmins' = {}
       => \E d \in InFlight : desk'[d] = Idle /\ ~desk[d].alone]_accountVars
=============================================================================
