---------------------------- MODULE AccessProofs ----------------------------
(***************************************************************************)
(* Proofs about Accounts, Cases, Logins and FieldTransfer for any number   *)
(* of accounts, desks, tabs, clients, items and requests, and any number   *)
(* of faults of a transfer.                                                *)
(***************************************************************************)
EXTENDS Accounts, Logins, Cases, FieldTransfer, FiniteSetTheorems, TLAPS

-----------------------------------------------------------------------------
(* Accounts.  A request that is alone still sees the accounts as it loaded *)
(* them, so its actor is still an active administrator; and the account it *)
(* is about to change is another one.                                      *)

Takes(r) == r.op \in {"approve", "reject", "suspend", "change_role"}

StillTrue(d) ==
  desk[d] # Idle /\ desk[d].alone =>
    /\ \A e \in Desk \ {d} : desk[e] = Idle
    /\ desk[d].actor \in ActiveAdmins
    /\ status[desk[d].target] = desk[d].seen
    /\ desk[d].pc # "loaded" /\ Takes(desk[d]) => desk[d].target # desk[d].actor
    /\ desk[d].pc = "replacing" => Takes(desk[d])

AInv ==
  /\ status \in [User -> AccountStatus \cup {"NONE"}]
  /\ roles \in [User -> SUBSET AllRoles]
  /\ desk \in [Desk -> {Idle} \cup RequestState]
  /\ \A d \in Desk : StillTrue(d)

LEMMA IdleIsNone == Idle \notin RequestState /\ Idle.pc = "idle"
                    /\ \A r \in RequestState : r.pc # "idle"
<1>1. \A r \in RequestState : r.pc \in {"loaded", "guarded", "replacing"}
  BY DEF RequestState
<1>2. Idle.pc = "idle"
  BY DEF Idle
<1> QED BY <1>1, <1>2

LEMMA AccountsStart == AccountsInit => AInv
BY AccountConstants
   DEF AccountsInit, AInv, StillTrue, AccountStatus, AllRoles

(* What a step of one request leaves of the others.                        *)
LEMMA AloneMoves ==
  ASSUME AInv, NEW d \in Desk, NEW r \in {Idle} \cup RequestState,
         desk[d] # Idle, desk' = [desk EXCEPT ![d] = r],
         NEW e \in Desk \ {d}
  PROVE  StillTrue(e)'
<1>1. desk'[e] = desk[e] /\ desk'[d] = r
  BY DEF AInv
<1>2. desk[e] # Idle /\ desk[e].alone => desk[d] = Idle
  BY DEF AInv, StillTrue
<1> QED BY <1>1, <1>2 DEF StillTrue

LEMMA LoadKeeps ==
  ASSUME AInv, NEW d \in Desk, NEW op \in Operation, NEW actor \in User, NEW target \in User,
         NEW role \in AllRoles, Load(d, op, actor, target, role)
  PROVE  AInv'
<1> DEFINE new == [pc |-> "loaded", op |-> op, actor |-> actor, target |-> target,
                   role |-> role, seen |-> status[target], held |-> {},
                   alone |-> InFlight = {}]
<1>1. new \in RequestState
  <2>1. status[target] \in AccountStatus
    BY DEF Load, AInv
  <2>2. (InFlight = {}) \in BOOLEAN /\ {} \in SUBSET AllRoles
    OBVIOUS
  <2> QED BY <2>1, <2>2 DEF RequestState
<1>2. \A e \in Desk : desk'[e] = IF e = d THEN new
                                 ELSE IF desk[e].pc = "idle" THEN desk[e]
                                 ELSE [desk[e] EXCEPT !.alone = FALSE]
  BY DEF Load
<1>3. \A e \in Desk : desk[e] \in RequestState => [desk[e] EXCEPT !.alone = FALSE] \in RequestState
                                                 /\ [desk[e] EXCEPT !.alone = FALSE].alone = FALSE
  BY DEF RequestState
<1>4. \A e \in Desk : desk[e] \in {Idle} \cup RequestState /\ (desk[e].pc = "idle" <=> desk[e] = Idle)
  BY IdleIsNone DEF AInv
<1>5. desk' \in [Desk -> {Idle} \cup RequestState]
  <2>1. DOMAIN desk' = Desk /\ desk' = [e \in Desk |-> desk'[e]]
    BY DEF Load
  <2>2. \A e \in Desk : desk'[e] \in {Idle} \cup RequestState
    BY <1>1, <1>2, <1>3, <1>4
  <2> QED BY <2>1, <2>2
<1>6. UNCHANGED <<status, roles>>
  BY DEF Load
<1>7. ASSUME NEW e \in Desk PROVE StillTrue(e)'
  <2>1. CASE e = d
    <3>1. desk'[d] = new
      BY <1>2
    <3>2. new.alone => \A f \in Desk \ {d} : desk'[f] = Idle
      BY <1>2, <1>4 DEF InFlight
    <3>3. /\ new.alone = (InFlight = {}) /\ new.actor = actor /\ new.target = target
          /\ new.seen = status[target] /\ new.pc = "loaded"
      OBVIOUS
    <3>4. actor \in ActiveAdmins'
      BY <1>6 DEF Load, ActiveAdmins
    <3> HIDE DEF new
    <3> QED BY <2>1, <3>1, <3>2, <3>3, <3>4, <1>6 DEF StillTrue
  <2>2. CASE e # d
    <3>1. desk'[e] = Idle \/ desk'[e].alone = FALSE
      BY <2>2, <1>2, <1>3, <1>4
    <3> QED BY <3>1 DEF StillTrue
  <2> QED BY <2>1, <2>2
<1> QED BY <1>5, <1>6, <1>7 DEF AInv

LEMMA RegisterKeeps ==
  ASSUME AInv, NEW u \in User, register_pending(u)
  PROVE  AInv'
<1>1. status' \in [User -> AccountStatus \cup {"NONE"}] /\ UNCHANGED <<roles, desk>>
  BY DEF register_pending, AInv, AccountStatus
<1>2. ASSUME NEW d \in Desk PROVE StillTrue(d)'
  <2>1. CASE desk[d] # Idle /\ desk[d].alone
    <3>1. desk[d].actor \in ActiveAdmins /\ status[desk[d].target] = desk[d].seen
          /\ desk[d] \in RequestState
      BY <2>1 DEF AInv, StillTrue
    <3>2. desk[d].seen # "NONE" /\ desk[d].actor \in User /\ desk[d].target \in User
      BY <3>1 DEF RequestState, AccountStatus
    <3>3. desk[d].actor # u /\ desk[d].target # u
      BY <3>1, <3>2 DEF register_pending, ActiveAdmins
    <3>4. desk[d].actor \in ActiveAdmins' /\ status'[desk[d].target] = desk[d].seen
      BY <3>1, <3>2, <3>3, <1>1 DEF register_pending, ActiveAdmins, AInv
    <3> QED BY <2>1, <3>4, <1>1 DEF AInv, StillTrue
  <2>2. CASE ~(desk[d] # Idle /\ desk[d].alone)
    BY <2>2, <1>1 DEF StillTrue
  <2> QED BY <2>1, <2>2
<1> QED BY <1>1, <1>2 DEF AInv

(* The guards of the routes keep an administrator off his own account.     *)
LEMMA GuardKeeps ==
  ASSUME AInv, NEW d \in Desk, Guard(d)
  PROVE  AInv'
<1>1. desk[d] \in RequestState /\ desk[d].pc = "loaded" /\ desk[d] # Idle
  BY IdleIsNone DEF Guard, AInv
<1> DEFINE passed == [desk[d] EXCEPT !.pc = "guarded"]
           ok == Guarded(desk[d]) /\ desk[d].seen \in VALID_TRANSITIONS[desk[d].op]
           r == IF ok THEN passed ELSE Idle
<1>2. passed \in RequestState /\ passed.alone = desk[d].alone /\ passed.actor = desk[d].actor
      /\ passed.target = desk[d].target /\ passed.seen = desk[d].seen /\ passed.op = desk[d].op
      /\ passed.pc = "guarded"
  BY <1>1 DEF RequestState
<1>3. desk' = [desk EXCEPT ![d] = r] /\ UNCHANGED <<status, roles>> /\ r \in {Idle} \cup RequestState
  BY <1>2 DEF Guard
<1>4. desk' \in [Desk -> {Idle} \cup RequestState] /\ desk'[d] = r
  BY <1>3 DEF AInv
<1>5. StillTrue(d)'
  <2>1. CASE ok /\ desk[d].alone
    <3>1. /\ \A e \in Desk \ {d} : desk[e] = Idle
          /\ desk[d].actor \in ActiveAdmins /\ status[desk[d].target] = desk[d].seen
      BY <2>1, <1>1 DEF AInv, StillTrue
    <3>2. Takes(desk[d]) => desk[d].target # desk[d].actor
      <4>1. desk[d].op \in {"reject", "suspend", "change_role"} => desk[d].target # desk[d].actor
        BY <2>1 DEF Guarded
      <4>2. desk[d].op = "approve" => desk[d].seen = "PENDING"
        BY <2>1 DEF VALID_TRANSITIONS
      <4> QED BY <4>1, <4>2, <3>1 DEF Takes, ActiveAdmins
    <3>3. \A e \in Desk \ {d} : desk'[e] = Idle
      BY <3>1, <1>3 DEF AInv
    <3>4. desk'[d] = passed
      BY <2>1, <1>4
    <3>5. desk[d].actor \in ActiveAdmins'
      BY <3>1, <1>3 DEF ActiveAdmins
    <3> HIDE DEF passed
    <3> QED BY <1>2, <1>3, <3>1, <3>2, <3>3, <3>4, <3>5 DEF StillTrue, Takes
  <2>2. CASE ok /\ ~desk[d].alone
    BY <2>2, <1>2, <1>4 DEF StillTrue
  <2>3. CASE ~ok
    BY <2>3, <1>4 DEF StillTrue
  <2> QED BY <2>1, <2>2, <2>3
<1>6. \A e \in Desk \ {d} : StillTrue(e)'
  BY <1>1, <1>3, AloneMoves
<1> QED BY <1>3, <1>4, <1>5, <1>6 DEF AInv

LEMMA ReadKeeps ==
  ASSUME AInv, NEW d \in Desk, ReadRoles(d)
  PROVE  AInv'
<1>1. desk[d] \in RequestState /\ desk[d].pc = "guarded" /\ desk[d] # Idle
  BY IdleIsNone DEF ReadRoles, AInv
<1> DEFINE r == [desk[d] EXCEPT !.pc = "replacing", !.held = roles[desk[d].target]]
<1>2. roles[desk[d].target] \in SUBSET AllRoles
  BY <1>1 DEF AInv, RequestState
<1>3. r \in RequestState /\ r.alone = desk[d].alone /\ r.actor = desk[d].actor
      /\ r.target = desk[d].target /\ r.seen = desk[d].seen /\ r.op = desk[d].op
  BY <1>1, <1>2 DEF RequestState
<1>4. desk' = [desk EXCEPT ![d] = r] /\ UNCHANGED <<status, roles>>
  BY DEF ReadRoles
<1>5. desk' \in [Desk -> {Idle} \cup RequestState] /\ desk'[d] = r
      /\ \A e \in Desk \ {d} : desk'[e] = desk[e]
  BY <1>3, <1>4 DEF AInv
<1>0. Takes(desk[d])
  BY DEF ReadRoles, Takes
<1> HIDE DEF r
<1>6. StillTrue(d)'
  BY <1>0, <1>1, <1>3, <1>4, <1>5 DEF AInv, StillTrue, ActiveAdmins, Takes
<1>7. \A e \in Desk \ {d} : StillTrue(e)'
  BY <1>1, <1>3, <1>4, AloneMoves
<1> QED BY <1>4, <1>5, <1>6, <1>7 DEF AInv

(* The two steps that write end the request that takes them.               *)
Writes(d) == update_status(d) \/ replace_roles(d)

LEMMA WriteEffects ==
  ASSUME AInv, NEW d \in Desk, Writes(d)
  PROVE  /\ desk[d] \in RequestState /\ desk[d] # Idle /\ desk[d].pc # "loaded"
         /\ desk' = [desk EXCEPT ![d] = Idle] /\ desk'[d] = Idle
         /\ status' \in [User -> AccountStatus \cup {"NONE"}]
         /\ roles' \in [User -> SUBSET AllRoles]
         /\ \A u \in User \ {desk[d].target} : status'[u] = status[u] /\ roles'[u] = roles[u]
<1>1. desk[d] \in RequestState /\ desk[d] # Idle /\ desk[d].pc # "loaded"
  BY IdleIsNone DEF Writes, update_status, replace_roles, AInv
<1>2. desk' = [desk EXCEPT ![d] = Idle] /\ desk'[d] = Idle
  BY DEF Writes, update_status, replace_roles, AInv
<1>3. CASE update_status(d)
  <2>1. Outcome[desk[d].op] \in AccountStatus
    BY <1>3 DEF update_status, Outcome, AccountStatus
  <2> QED BY <1>1, <1>2, <1>3, <2>1 DEF update_status, AInv
<1>4. CASE replace_roles(d)
  <2>1. Replaced(desk[d]) \in SUBSET AllRoles
    BY <1>1 DEF Replaced, AInv, RequestState
  <2>2. roles' = roles \/ roles' = [roles EXCEPT ![desk[d].target] = Replaced(desk[d])]
    BY <1>4 DEF replace_roles
  <2>3. status' = status \/ status' = [status EXCEPT ![desk[d].target] = "ACTIVE"]
    BY <1>4 DEF replace_roles
  <2> QED BY <1>1, <1>2, <2>1, <2>2, <2>3 DEF AInv, AccountStatus
<1> QED BY <1>1, <1>2, <1>3, <1>4 DEF Writes

LEMMA WriteKeeps ==
  ASSUME AInv, NEW d \in Desk, Writes(d)
  PROVE  AInv'
<1>1. \A e \in Desk \ {d} : StillTrue(e)'
  <2> SUFFICES ASSUME NEW e \in Desk \ {d} PROVE StillTrue(e)'
    OBVIOUS
  <2>1. desk'[e] = desk[e] /\ (desk[e] # Idle /\ desk[e].alone => desk[d] = Idle)
    BY WriteEffects DEF AInv, StillTrue
  <2> QED BY <2>1, WriteEffects DEF StillTrue
<1>2. StillTrue(d)'
  BY WriteEffects DEF StillTrue
<1>3. desk' \in [Desk -> {Idle} \cup RequestState]
  BY WriteEffects DEF AInv
<1> QED BY <1>1, <1>2, <1>3, WriteEffects DEF AInv

LEMMA AccountsKeep ==
  ASSUME AInv, [AccountsNext]_accountVars
  PROVE  AInv'
<1>1. CASE UNCHANGED accountVars
  BY <1>1 DEF accountVars, AInv, StillTrue, ActiveAdmins
<1>2. CASE AccountsNext
  BY <1>2, RegisterKeeps, LoadKeeps, GuardKeeps, ReadKeeps, WriteKeeps
     DEF AccountsNext, DeskStep, Writes
<1> QED BY <1>1, <1>2

(* The step of KeepsAnAdmin.                                               *)
NoneLeft == ActiveAdmins # {} /\ ActiveAdmins' = {}
              => \E d \in InFlight : desk'[d] = Idle /\ ~desk[d].alone

LEMMA AdminRemains ==
  ASSUME AInv, [AccountsNext]_accountVars
  PROVE  NoneLeft
<1> SUFFICES ASSUME ActiveAdmins # {}, ActiveAdmins' = {}
             PROVE  \E d \in InFlight : desk'[d] = Idle /\ ~desk[d].alone
  BY DEF NoneLeft
<1>1. CASE \E d \in Desk : Writes(d)
  <2>1. PICK d \in Desk : Writes(d)
    BY <1>1
  <2>2. d \in InFlight /\ desk'[d] = Idle
    BY <2>1, WriteEffects, IdleIsNone DEF InFlight
  <2>3. ASSUME desk[d].alone PROVE FALSE
    <3>1. /\ desk[d].actor \in ActiveAdmins /\ desk[d] \in RequestState /\ desk[d].pc # "loaded"
          /\ Takes(desk[d]) => desk[d].target # desk[d].actor
          /\ desk[d].pc = "replacing" => Takes(desk[d])
      BY <2>1, <2>3, WriteEffects DEF AInv, StillTrue
    <3>2. CASE desk[d].target # desk[d].actor
      BY <2>1, <3>1, <3>2, WriteEffects DEF ActiveAdmins
    <3>3. CASE ~Takes(desk[d])
      <4>1. desk[d].op = "activate" /\ update_status(d)
        BY <2>1, <3>1, <3>3 DEF Takes, RequestState, Operation, Writes, update_status, replace_roles
      <4>2. roles' = roles /\ status' = [status EXCEPT ![desk[d].target] = "ACTIVE"]
        BY <4>1 DEF update_status, Outcome
      <4> QED BY <3>1, <4>2 DEF ActiveAdmins, AInv
    <3> QED BY <3>1, <3>2, <3>3
  <2> QED BY <2>2, <2>3
<1>2. CASE ~\E d \in Desk : Writes(d)
  <2>1. UNCHANGED <<status, roles>> \/ \E u \in User : register_pending(u)
    BY <1>2 DEF AccountsNext, DeskStep, Writes, Load, Guard, ReadRoles, accountVars
  <2>2. ActiveAdmins \subseteq ActiveAdmins'
    BY <2>1 DEF ActiveAdmins, register_pending, AInv
  <2> QED BY <2>2
<1> QED BY <1>1, <1>2

(* A request that has the accounts for itself never takes the last active  *)
(* administrator away (routes/users.py, _guard_sole_admin and               *)
(* _guard_admin_self): other requests must have been in flight beside it.  *)
THEOREM AdministratorsRemain == AccountsSpec => KeepsAnAdmin
<1>1. AccountsInit => AInv
  BY AccountsStart
<1>2. AInv /\ [AccountsNext]_accountVars => AInv'
  BY AccountsKeep
<1>3. AInv /\ [AccountsNext]_accountVars
        => [ActiveAdmins # {} /\ ActiveAdmins' = {}
              => \E d \in InFlight : desk'[d] = Idle /\ ~desk[d].alone]_accountVars
  BY AdminRemains DEF NoneLeft
<1> QED BY <1>1, <1>2, <1>3, PTL DEF AccountsSpec, KeepsAnAdmin

-----------------------------------------------------------------------------
(* Cases.  A request that is alone sees the case as it is, so that what it *)
(* was admitted to on its copy it may do to the row.                       *)

StillSeen(t) ==
  tab[t] # TabIdle /\ tab[t].alone =>
    /\ \A s \in Tab \ {t} : tab[s] = TabIdle
    /\ tab[t].seen = caseStatus
    /\ tab[t].pc = "checked" => Admissible(tab[t])

CInv ==
  /\ caseStatus \in CaseStatus
  /\ tab \in [Tab -> {TabIdle} \cup CaseRequest]
  /\ \A t \in Tab : StillSeen(t)

LEMMA TabIdleIsNone == /\ TabIdle \notin CaseRequest /\ TabIdle.pc = "idle"
                       /\ \A r \in CaseRequest : r.pc # "idle"
<1>1. \A r \in CaseRequest : r.pc \in {"loaded", "checked"}
  BY DEF CaseRequest
<1>2. TabIdle.pc = "idle"
  BY DEF TabIdle
<1> QED BY <1>1, <1>2

LEMMA CasesStart == CasesInit => CInv
BY DEF CasesInit, CInv, StillSeen, CaseStatus

LEMMA GetCaseKeeps ==
  ASSUME CInv, NEW t \in Tab, NEW actor \in Person, NEW who \in Person,
         NEW op \in {"patch", "archive", "add", "remove", "write"},
         NEW edit \in BOOLEAN, NEW to \in CaseStatus,
         get_case(t, op, actor, edit, to, who)
  PROVE  CInv'
<1> DEFINE new == [pc |-> "loaded", op |-> op, actor |-> actor, seen |-> caseStatus,
                   edit |-> edit, to |-> to, who |-> who, alone |-> Busy = {}]
<1>1. new \in CaseRequest
  BY DEF CaseRequest, CInv
<1>2. \A s \in Tab : tab'[s] = IF s = t THEN new
                               ELSE IF tab[s].pc = "idle" THEN tab[s]
                               ELSE [tab[s] EXCEPT !.alone = FALSE]
  BY DEF get_case
<1>3. \A s \in Tab : tab[s] \in CaseRequest => [tab[s] EXCEPT !.alone = FALSE] \in CaseRequest
                                              /\ [tab[s] EXCEPT !.alone = FALSE].alone = FALSE
  BY DEF CaseRequest
<1>4. \A s \in Tab : tab[s] \in {TabIdle} \cup CaseRequest /\ (tab[s].pc = "idle" <=> tab[s] = TabIdle)
  BY TabIdleIsNone DEF CInv
<1>5. tab' \in [Tab -> {TabIdle} \cup CaseRequest]
  <2>1. DOMAIN tab' = Tab /\ tab' = [s \in Tab |-> tab'[s]]
    BY DEF get_case
  <2>2. \A s \in Tab : tab'[s] \in {TabIdle} \cup CaseRequest
    BY <1>1, <1>2, <1>3, <1>4
  <2> QED BY <2>1, <2>2
<1>6. caseStatus' = caseStatus
  BY DEF get_case
<1>7. ASSUME NEW s \in Tab PROVE StillSeen(s)'
  <2>1. CASE s = t
    <3>1. tab'[t] = new
      BY <1>2
    <3>2. new.alone => \A f \in Tab \ {t} : tab'[f] = TabIdle
      BY <1>2, <1>4 DEF Busy
    <3>3. new.seen = caseStatus /\ new.pc = "loaded"
      OBVIOUS
    <3> HIDE DEF new
    <3> QED BY <2>1, <3>1, <3>2, <3>3, <1>6 DEF StillSeen
  <2>2. CASE s # t
    <3>1. tab'[s] = TabIdle \/ tab'[s].alone = FALSE
      BY <2>2, <1>2, <1>3, <1>4
    <3> QED BY <3>1 DEF StillSeen
  <2> QED BY <2>1, <2>2
<1> QED BY <1>5, <1>6, <1>7 DEF CInv

(* What a step of one request leaves of the others.                        *)
LEMMA TabMoves ==
  ASSUME CInv, NEW t \in Tab, NEW r \in {TabIdle} \cup CaseRequest,
         tab[t] # TabIdle, tab' = [tab EXCEPT ![t] = r],
         NEW s \in Tab \ {t}
  PROVE  StillSeen(s)'
<1>1. tab'[s] = tab[s]
  BY DEF CInv
<1>2. tab[s] # TabIdle /\ tab[s].alone => tab[t] = TabIdle
  BY DEF CInv, StillSeen
<1> QED BY <1>1, <1>2 DEF StillSeen

LEMMA CheckCaseKeeps ==
  ASSUME CInv, NEW t \in Tab, CheckCase(t)
  PROVE  CInv'
<1>1. tab[t] \in CaseRequest /\ tab[t].pc = "loaded" /\ tab[t] # TabIdle
  BY TabIdleIsNone DEF CheckCase, CInv
<1> DEFINE passed == [tab[t] EXCEPT !.pc = "checked"]
           ok == /\ Admissible(tab[t])
                 /\ tab[t].op = "add" => tab[t].who \notin members
                 /\ tab[t].op = "remove" => tab[t].who \in members
           r == IF ok THEN passed ELSE TabIdle
<1>2. /\ passed \in CaseRequest /\ passed.alone = tab[t].alone /\ passed.seen = tab[t].seen
      /\ passed.op = tab[t].op /\ passed.to = tab[t].to /\ passed.edit = tab[t].edit
      /\ passed.actor = tab[t].actor
  BY <1>1 DEF CaseRequest
<1>3. tab' = [tab EXCEPT ![t] = r] /\ caseStatus' = caseStatus /\ r \in {TabIdle} \cup CaseRequest
  BY <1>2 DEF CheckCase
<1>4. /\ tab' \in [Tab -> {TabIdle} \cup CaseRequest] /\ tab'[t] = r
      /\ \A s \in Tab \ {t} : tab'[s] = tab[s]
  BY <1>3 DEF CInv
<1>5. Admissible(tab[t]) => Admissible(passed)
  BY <1>2 DEF Admissible
<1>6. StillSeen(t)'
  <2>1. CASE ok
    <3>1. tab'[t] = passed /\ Admissible(passed)
      BY <2>1, <1>4, <1>5
    <3>2. tab[t].alone => tab[t].seen = caseStatus /\ \A s \in Tab \ {t} : tab[s] = TabIdle
      BY <1>1 DEF CInv, StillSeen
    <3>3. Admissible(passed)' <=> Admissible(passed')
      OBVIOUS
    <3> HIDE DEF passed, ok
    <3>4. Admissible(tab'[t])
      BY <3>1
    <3> QED BY <3>1, <3>2, <3>4, <1>2, <1>3, <1>4 DEF StillSeen
  <2>2. CASE ~ok
    BY <2>2, <1>4 DEF StillSeen
  <2> QED BY <2>1, <2>2
<1>7. \A s \in Tab \ {t} : StillSeen(s)'
  BY <1>1, <1>3, TabMoves
<1> QED BY <1>3, <1>4, <1>6, <1>7 DEF CInv

LEMMA CommitCaseKeeps ==
  ASSUME CInv, NEW t \in Tab, CommitCase(t)
  PROVE  CInv'
<1>1. tab[t] \in CaseRequest /\ tab[t].pc = "checked" /\ tab[t] # TabIdle
  BY TabIdleIsNone DEF CommitCase, CInv
<1>2. tab' = [tab EXCEPT ![t] = TabIdle]
  BY DEF CommitCase
<1>3. tab' \in [Tab -> {TabIdle} \cup CaseRequest] /\ tab'[t] = TabIdle
  BY <1>2 DEF CInv
<1>4. caseStatus' \in CaseStatus
  <2>1. tab[t].to \in CaseStatus /\ "archived" \in CaseStatus
    BY <1>1 DEF CaseRequest, CaseStatus
  <2> QED BY <2>1 DEF CommitCase, CInv
<1>5. \A s \in Tab : StillSeen(s)'
  <2>1. \A s \in Tab \ {t} : StillSeen(s)'
    BY <1>1, <1>2, TabMoves
  <2> QED BY <2>1, <1>3 DEF StillSeen
<1> QED BY <1>3, <1>4, <1>5 DEF CInv

LEMMA CasesKeep ==
  ASSUME CInv, [CasesNext]_caseVars
  PROVE  CInv'
<1>1. CASE UNCHANGED caseVars
  BY <1>1 DEF caseVars, CInv, StillSeen
<1>2. CASE \E t \in Tab : CheckCase(t) \/ CommitCase(t)
  BY <1>2, CheckCaseKeeps, CommitCaseKeeps
<1>3. CASE \E t \in Tab, actor \in Person, edit \in BOOLEAN, to \in CaseStatus :
             get_case(t, "patch", actor, edit, to, actor)
  BY <1>3, GetCaseKeeps
<1>4. CASE \E t \in Tab, actor, who \in Person, op \in {"archive", "write", "add", "remove"} :
             get_case(t, op, actor, FALSE, caseStatus, who)
  <2>1. caseStatus \in CaseStatus /\ FALSE \in BOOLEAN
    BY DEF CInv
  <2>2. {"archive", "write", "add", "remove"} \subseteq {"patch", "archive", "add", "remove", "write"}
    OBVIOUS
  <2> QED BY <1>4, <2>1, <2>2, GetCaseKeeps
<1> QED
  <2>1. CASE CasesNext
    BY <2>1, <1>2, <1>3, <1>4 DEF CasesNext
  <2> QED BY <2>1, <1>1

Unsealed ==
  \/ caseStatus \in READ_ONLY_CASE_STATUSES
       /\ (content' # content \/ members' # members)
  \/ caseStatus = "archived" /\ caseStatus' # "archived"

LEMMA SealHolds ==
  ASSUME CInv, CasesNext, Unsealed
  PROVE  \E t \in Busy : tab'[t] = TabIdle /\ ~tab[t].alone
<1>1. PICK t \in Tab : CommitCase(t)
  BY DEF CasesNext, get_case, CheckCase, Unsealed
<1>2. tab[t] \in CaseRequest /\ tab[t].pc = "checked" /\ tab[t] # TabIdle /\ t \in Busy
  BY <1>1, TabIdleIsNone DEF CommitCase, CInv, Busy
<1>3. tab'[t] = TabIdle
  BY <1>1 DEF CommitCase, CInv
<1>4. ASSUME tab[t].alone PROVE FALSE
  <2>1. tab[t].seen = caseStatus /\ Admissible(tab[t])
    BY <1>2, <1>4 DEF CInv, StillSeen
  <2>2. tab[t].op \in {"patch", "archive", "add", "remove", "write"}
    BY <1>2 DEF CaseRequest
  <2>3. CASE caseStatus \in READ_ONLY_CASE_STATUSES
             /\ (content' # content \/ members' # members)
    <3>1. \/ tab[t].op \in {"write", "add", "remove"}
          \/ tab[t].op = "patch" /\ tab[t].edit
      BY <1>1, <2>2, <2>3 DEF CommitCase
    <3> QED BY <2>1, <2>3, <3>1 DEF Admissible, assert_case_mutable
  <2>4. CASE caseStatus = "archived" /\ caseStatus' # "archived"
    <3>1. tab[t].op = "patch"
      BY <1>1, <2>2, <2>4 DEF CommitCase
    <3> QED BY <2>1, <2>4, <3>1 DEF Admissible
  <2> QED BY <2>3, <2>4 DEF Unsealed
<1> QED BY <1>2, <1>3, <1>4

(* Neither the content nor the members of a read-only case change, and an  *)
(* archived case stays archived, unless requests overlap                   *)
(* (assert_case_mutable in api/dependencies.py, routes/cases.py).          *)
THEOREM ReadOnlyIsSealed == CasesSpec => ReadOnlyCaseIsSealed
<1>1. CasesInit => CInv
  BY CasesStart
<1>2. CInv /\ [CasesNext]_caseVars => CInv'
  BY CasesKeep
<1>3. CInv /\ [CasesNext]_caseVars
        => [\/ caseStatus \in READ_ONLY_CASE_STATUSES
                 /\ (content' # content \/ members' # members)
            \/ caseStatus = "archived" /\ caseStatus' # "archived"
            => \E t \in Busy : tab'[t] = TabIdle /\ ~tab[t].alone]_caseVars
  BY SealHolds DEF Unsealed
<1> QED BY <1>1, <1>2, <1>3, PTL DEF CasesSpec, ReadOnlyCaseIsSealed

-----------------------------------------------------------------------------
(* Logins.  Every request that has passed the check still owes each counter *)
(* at most one increment, and a denylist entry outlives the token it denies. *)

Owes(r, k) ==
  \/ r.pc = "verify" /\ (k = "ip" \/ k = r.name)
  \/ r.pc = "incr" /\ (k = "ip" \/ k = r.key)
  \/ r.pc = "expire" /\ k = "ip" /\ r.key # "ip"

Owing(k) == {c \in Client : Owes(login[c], k)}

Budget(k) == IF k = "ip" THEN IpMaxAttempts ELSE MaxAttempts

WithinBudget(k) == count[k] + Cardinality(Owing(k)) <= Budget(k) + Cardinality(Client) - 1

DenialOutlives(c) == signedOut[c] => denied[c] >= token[c]

LoginShape ==
  /\ count \in [Key -> Nat]
  /\ login \in [Client -> {LoginIdle} \cup LoginState]
  /\ token \in [Client -> Nat] /\ denied \in [Client -> Nat]
  /\ signedOut \in [Client -> BOOLEAN]
  /\ \A c \in Client : login[c].pc \in {"check", "verify"} => login[c].key = login[c].name

LInv ==
  /\ LoginShape
  /\ \A k \in Key : WithinBudget(k)
  /\ \A c \in Client : DenialOutlives(c)

LEMMA LoginIdleIsNone == /\ LoginIdle \notin LoginState /\ LoginIdle.pc = "idle"
                         /\ \A r \in LoginState : r.pc # "idle"
<1>1. \A r \in LoginState : r.pc \in {"check", "verify", "incr", "expire", "clear"}
  BY DEF LoginState
<1>2. LoginIdle.pc = "idle"
  BY DEF LoginIdle
<1> QED BY <1>1, <1>2

LEMMA OwingCounts ==
  ASSUME NEW k \in Key
  PROVE  /\ IsFiniteSet(Owing(k)) /\ Cardinality(Owing(k)) \in Nat
         /\ Cardinality(Client) \in Nat /\ Cardinality(Owing(k)) <= Cardinality(Client)
         /\ Budget(k) \in Nat \ {0}
<1>1. Owing(k) \subseteq Client /\ IsFiniteSet(Client)
  BY LoginConstants DEF Owing
<1>2. Budget(k) \in Nat \ {0}
  BY LoginConstants DEF Budget
<1> QED BY <1>1, <1>2, FS_Subset, FS_CardinalityType

LEMMA OwingPrimed ==
  ASSUME NEW k \in Key
  PROVE  Owing(k)' = {c \in Client : Owes(login'[c], k)}
BY DEF Owing, Owes

(* No request owes more, and the counter has not grown.                    *)
LEMMA OwesNoMore ==
  ASSUME LInv, NEW k \in Key, count'[k] \in Nat, count'[k] <= count[k],
         \A c \in Client : Owes(login'[c], k) => Owes(login[c], k)
  PROVE  WithinBudget(k)'
<1> DEFINE new == {c \in Client : Owes(login'[c], k)}
<1>1. Owing(k)' = new
  BY OwingPrimed
<1>2. new \subseteq Owing(k)
  BY DEF Owing
<1>3. Cardinality(new) \in Nat /\ Cardinality(new) <= Cardinality(Owing(k))
  BY <1>2, OwingCounts, FS_Subset, FS_CardinalityType
<1>4. count[k] + Cardinality(Owing(k)) <= Budget(k) + Cardinality(Client) - 1
  BY DEF LInv, WithinBudget
<1>5. count[k] \in Nat
  BY DEF LInv, LoginShape
<1>6. count'[k] + Cardinality(new) <= Budget(k) + Cardinality(Client) - 1
  <2> HIDE DEF new
  <2> QED BY <1>3, <1>4, <1>5, OwingCounts
<1> QED BY <1>1, <1>6 DEF WithinBudget, Budget

(* One request pays what it owes.                                          *)
LEMMA OwesOneLess ==
  ASSUME LInv, NEW k \in Key, NEW d \in Client, count'[k] = count[k] + 1,
         Owes(login[d], k), ~Owes(login'[d], k),
         \A c \in Client : Owes(login'[c], k) => Owes(login[c], k)
  PROVE  WithinBudget(k)'
<1> DEFINE new == {c \in Client : Owes(login'[c], k)}
           rest == Owing(k) \ {d}
<1>1. Owing(k)' = new
  BY OwingPrimed
<1>2. new \subseteq rest /\ d \in Owing(k)
  BY DEF Owing
<1>3. IsFiniteSet(rest) /\ Cardinality(rest) = Cardinality(Owing(k)) - 1
  BY <1>2, OwingCounts, FS_RemoveElement
<1>4. Cardinality(new) \in Nat /\ Cardinality(new) <= Cardinality(rest)
  <2> HIDE DEF rest
  <2> QED BY <1>2, <1>3, FS_Subset, FS_CardinalityType
<1>5. count[k] + Cardinality(Owing(k)) <= Budget(k) + Cardinality(Client) - 1
  BY DEF LInv, WithinBudget
<1>6. count[k] \in Nat
  BY DEF LInv, LoginShape
<1>7. count'[k] + Cardinality(new) <= Budget(k) + Cardinality(Client) - 1
  <2> HIDE DEF new, rest
  <2> QED BY <1>3, <1>4, <1>5, <1>6, OwingCounts
<1> QED BY <1>1, <1>7 DEF WithinBudget, Budget

(* While the counter is below its budget, everyone may owe it one.         *)
LEMMA OwesBelow ==
  ASSUME LInv, NEW k \in Key, count'[k] = count[k], count[k] < Budget(k)
  PROVE  WithinBudget(k)'
<1> DEFINE new == {c \in Client : Owes(login'[c], k)}
<1>1. Owing(k)' = new
  BY OwingPrimed
<1>2. Cardinality(new) \in Nat /\ Cardinality(new) <= Cardinality(Client)
  <2>1. new \subseteq Client /\ IsFiniteSet(Client)
    BY LoginConstants
  <2> QED BY <2>1, FS_Subset, FS_CardinalityType
<1>3. count[k] \in Nat
  BY DEF LInv, LoginShape
<1>4. count'[k] + Cardinality(new) <= Budget(k) + Cardinality(Client) - 1
  <2> HIDE DEF new
  <2> QED BY <1>2, <1>3, OwingCounts
<1> QED BY <1>1, <1>4 DEF WithinBudget, Budget

(* What replacing the state of one request changes.                        *)
LEMMA OneMoves ==
  ASSUME LoginShape, NEW c \in Client, NEW r \in {LoginIdle} \cup LoginState,
         r.pc \in {"check", "verify"} => r.key = r.name,
         login' = [login EXCEPT ![c] = r]
  PROVE  /\ login' \in [Client -> {LoginIdle} \cup LoginState]
         /\ login'[c] = r /\ \A e \in Client \ {c} : login'[e] = login[e]
         /\ \A e \in Client : login'[e].pc \in {"check", "verify"} => login'[e].key = login'[e].name
<1>1. /\ login' \in [Client -> {LoginIdle} \cup LoginState]
      /\ login'[c] = r /\ \A e \in Client \ {c} : login'[e] = login[e]
  BY DEF LoginShape
<1> QED BY <1>1 DEF LoginShape

LEMMA LoginsStart == LoginsInit => LInv
<1> SUFFICES ASSUME LoginsInit PROVE LInv
  OBVIOUS
<1>1. LoginShape
  BY LoginIdleIsNone DEF LoginsInit, LoginShape
<1>2. ASSUME NEW k \in Key PROVE WithinBudget(k)
  <2>1. Owing(k) = {}
    BY LoginIdleIsNone DEF LoginsInit, Owing, Owes
  <2>2. Cardinality(Owing(k)) = 0 /\ count[k] = 0
    BY <2>1, FS_EmptySet DEF LoginsInit
  <2> QED BY <2>2, OwingCounts DEF WithinBudget
<1>3. \A c \in Client : DenialOutlives(c)
  BY DEF LoginsInit, DenialOutlives
<1> QED BY <1>1, <1>2, <1>3 DEF LInv

LEMMA PostLoginKeeps ==
  ASSUME LInv, NEW c \in Client, NEW name \in Username, PostLogin(c, name)
  PROVE  LInv'
<1> DEFINE r == [pc |-> "check", name |-> name, key |-> name, value |-> 0]
<1>1. r \in LoginState /\ r.pc = "check" /\ r.key = r.name
  BY DEF LoginState, Key
<1>2. login' = [login EXCEPT ![c] = r] /\ UNCHANGED <<count, token, denied, signedOut>>
  BY DEF PostLogin
<1>3. LoginShape' /\ login'[c] = r /\ \A e \in Client \ {c} : login'[e] = login[e]
  <2> HIDE DEF r
  <2> QED BY <1>1, <1>2, OneMoves DEF LInv, LoginShape
<1>4. \A e \in Client, k \in Key : Owes(login'[e], k) => Owes(login[e], k)
  <2> HIDE DEF r
  <2> QED BY <1>1, <1>3 DEF Owes
<1>5. \A k \in Key : WithinBudget(k)'
  BY <1>2, <1>4, OwesNoMore DEF LInv, LoginShape
<1> QED BY <1>2, <1>3, <1>5 DEF LInv, DenialOutlives

LEMMA CheckKeeps ==
  ASSUME LInv, NEW c \in Client, Check(c)
  PROVE  LInv'
<1>1. login[c] \in LoginState /\ login[c].pc = "check" /\ login[c].key = login[c].name
  BY LoginIdleIsNone DEF Check, LInv, LoginShape
<1> DEFINE passed == [login[c] EXCEPT !.pc = "verify"]
           r == IF is_throttled(login[c].name) THEN LoginIdle ELSE passed
<1>2. /\ passed \in LoginState /\ passed.pc = "verify" /\ passed.key = passed.name
      /\ passed.name = login[c].name
  BY <1>1 DEF LoginState
<1>3. login' = [login EXCEPT ![c] = r] /\ UNCHANGED <<count, token, denied, signedOut>>
  BY DEF Check
<1>4. r \in {LoginIdle} \cup LoginState /\ (r.pc \in {"check", "verify"} => r.key = r.name)
  <2> HIDE DEF passed
  <2> QED BY <1>2, LoginIdleIsNone
<1>5. LoginShape' /\ login'[c] = r /\ \A e \in Client \ {c} : login'[e] = login[e]
  <2> HIDE DEF r
  <2> QED BY <1>3, <1>4, OneMoves DEF LInv, LoginShape
<1>6. ASSUME NEW k \in Key PROVE WithinBudget(k)'
  <2>1. CASE ~Owes(r, k)
    <3>1. \A e \in Client : Owes(login'[e], k) => Owes(login[e], k)
      BY <1>5, <2>1
    <3> QED BY <3>1, <1>3, OwesNoMore DEF LInv, LoginShape
  <2>2. CASE Owes(r, k)
    <3>1. ~is_throttled(login[c].name)
      BY <2>2, LoginIdleIsNone DEF Owes
    <3>2. r = passed
      BY <3>1
    <3>3. k = "ip" \/ k = login[c].name
      <4> HIDE DEF passed
      <4> QED BY <1>2, <2>2, <3>2 DEF Owes
    <3>4. count[k] \in Nat /\ count["ip"] \in Nat /\ count[login[c].name] \in Nat
          /\ login[c].name # "ip"
      BY <1>1, LoginConstants DEF LInv, LoginShape, Key, LoginState
    <3>5. count[k] < Budget(k)
      BY <3>1, <3>3, <3>4, LoginConstants DEF Budget, is_throttled
    <3> QED BY <3>5, <1>3, OwesBelow
  <2> QED BY <2>1, <2>2
<1> QED BY <1>3, <1>5, <1>6 DEF LInv, DenialOutlives

LEMMA VerifyKeeps ==
  ASSUME LInv, NEW c \in Client, Verify(c)
  PROVE  LInv'
<1>1. login[c] \in LoginState /\ login[c].pc = "verify" /\ login[c].key = login[c].name
  BY LoginIdleIsNone DEF Verify, LInv, LoginShape
<1>2. PICK r \in {LoginIdle, [login[c] EXCEPT !.pc = "incr"], [login[c] EXCEPT !.pc = "clear"]} :
        login' = [login EXCEPT ![c] = r]
  BY DEF Verify
<1>3. UNCHANGED <<count, token, denied, signedOut>>
  BY DEF Verify
<1>4. /\ r \in {LoginIdle} \cup LoginState
      /\ r.pc \in {"idle", "incr", "clear"}
      /\ r.pc = "incr" => r.key = login[c].name
  BY <1>1, LoginIdleIsNone DEF LoginState
<1>5. LoginShape' /\ login'[c] = r /\ \A e \in Client \ {c} : login'[e] = login[e]
  BY <1>2, <1>3, <1>4, OneMoves DEF LInv, LoginShape
<1>6. \A e \in Client, k \in Key : Owes(login'[e], k) => Owes(login[e], k)
  BY <1>1, <1>4, <1>5 DEF Owes
<1>7. \A k \in Key : WithinBudget(k)'
  BY <1>3, <1>6, OwesNoMore DEF LInv, LoginShape
<1> QED BY <1>3, <1>5, <1>7 DEF LInv, DenialOutlives

LEMMA IncrKeeps ==
  ASSUME LInv, NEW c \in Client, incr(c)
  PROVE  LInv'
<1>1. login[c] \in LoginState /\ login[c].pc = "incr"
  BY LoginIdleIsNone DEF incr, LInv, LoginShape
<1> DEFINE key == login[c].key
           r == [login[c] EXCEPT !.pc = "expire", !.value = count[key] + 1]
<1>2. key \in Key /\ count[key] + 1 \in Nat
  BY <1>1 DEF LoginState, LInv, LoginShape
<1>3. r \in LoginState /\ r.pc = "expire" /\ r.key = key
  BY <1>1, <1>2 DEF LoginState
<1>4. /\ login' = [login EXCEPT ![c] = r] /\ count' = [count EXCEPT ![key] = @ + 1]
      /\ UNCHANGED <<token, denied, signedOut>>
  BY DEF incr
<1> HIDE DEF r
<1>5. /\ login' \in [Client -> {LoginIdle} \cup LoginState]
      /\ login'[c] = r /\ \A e \in Client \ {c} : login'[e] = login[e]
      /\ \A e \in Client : login'[e].pc \in {"check", "verify"} => login'[e].key = login'[e].name
  BY <1>3, <1>4, OneMoves DEF LInv
<1>6. /\ count' \in [Key -> Nat] /\ count'[key] = count[key] + 1
      /\ \A k \in Key \ {key} : count'[k] = count[k]
  BY <1>2, <1>4 DEF LInv, LoginShape
<1>7. LoginShape'
  BY <1>4, <1>5, <1>6 DEF LInv, LoginShape
<1>8. ASSUME NEW k \in Key PROVE WithinBudget(k)'
  <2>1. \A e \in Client : Owes(login'[e], k) => Owes(login[e], k)
    BY <1>1, <1>3, <1>5 DEF Owes
  <2>2. CASE k = key
    <3>1. Owes(login[c], k) /\ ~Owes(login'[c], k)
      BY <1>1, <1>3, <1>5, <2>2 DEF Owes
    <3>2. count'[k] = count[k] + 1
      BY <1>6, <2>2
    <3> QED BY <2>1, <3>1, <3>2, OwesOneLess
  <2>3. CASE k # key
    BY <1>6, <2>1, <2>3, OwesNoMore DEF LInv, LoginShape
  <2> QED BY <2>2, <2>3
<1> QED BY <1>4, <1>7, <1>8 DEF LInv, DenialOutlives

LEMMA ExpireKeeps ==
  ASSUME LInv, NEW c \in Client, expire(c)
  PROVE  LInv'
<1>1. login[c] \in LoginState /\ login[c].pc = "expire"
  BY LoginIdleIsNone DEF expire, LInv, LoginShape
<1> DEFINE next == [login[c] EXCEPT !.pc = "incr", !.key = "ip", !.value = 0]
           r == IF login[c].key = "ip" THEN LoginIdle ELSE next
<1>2. next \in LoginState /\ next.pc = "incr" /\ next.key = "ip"
  BY <1>1 DEF LoginState, Key
<1>3. login' = [login EXCEPT ![c] = r] /\ UNCHANGED <<count, token, denied, signedOut>>
  BY DEF expire
<1>4. /\ r \in {LoginIdle} \cup LoginState /\ r.pc \in {"idle", "incr"}
      /\ r.pc = "incr" => r.key = "ip" /\ login[c].key # "ip"
  <2> HIDE DEF next
  <2> QED BY <1>2, LoginIdleIsNone
<1> HIDE DEF r
<1>5. LoginShape' /\ login'[c] = r /\ \A e \in Client \ {c} : login'[e] = login[e]
  BY <1>3, <1>4, OneMoves DEF LInv, LoginShape
<1>6. \A e \in Client, k \in Key : Owes(login'[e], k) => Owes(login[e], k)
  BY <1>1, <1>4, <1>5 DEF Owes
<1>7. \A k \in Key : WithinBudget(k)'
  BY <1>3, <1>6, OwesNoMore DEF LInv, LoginShape
<1> QED BY <1>3, <1>5, <1>7 DEF LInv, DenialOutlives

LEMMA ClearKeeps ==
  ASSUME LInv, NEW c \in Client, clear_attempts(c)
  PROVE  LInv'
<1>1. login[c] \in LoginState /\ login[c].pc = "clear"
  BY LoginIdleIsNone DEF clear_attempts, LInv, LoginShape
<1> DEFINE key == login[c].key
           next == [login[c] EXCEPT !.key = "ip"]
           r == IF key = "ip" THEN LoginIdle ELSE next
<1>2. next \in LoginState /\ next.pc = "clear" /\ key \in Key
  BY <1>1 DEF LoginState, Key
<1>3. login' = [login EXCEPT ![c] = r] /\ count' = [count EXCEPT ![key] = 0]
  BY DEF clear_attempts
<1>4. r \in {LoginIdle} \cup LoginState /\ r.pc \in {"idle", "clear"}
  <2> HIDE DEF next
  <2> QED BY <1>2, LoginIdleIsNone
<1>5. /\ token' \in [Client -> Nat] /\ denied' \in [Client -> Nat]
      /\ signedOut' \in [Client -> BOOLEAN]
      /\ \A e \in Client : DenialOutlives(e)'
  <2>1. CASE key = "ip"
    <3>1. /\ token' = [token EXCEPT ![c] = Lifetime] /\ denied' = [denied EXCEPT ![c] = 0]
          /\ signedOut' = [signedOut EXCEPT ![c] = FALSE]
      BY <2>1 DEF clear_attempts
    <3>2. Lifetime \in Nat /\ 0 \in Nat
      BY LoginConstants
    <3>3. /\ signedOut'[c] = FALSE
          /\ \A e \in Client \ {c} : /\ signedOut'[e] = signedOut[e]
                                     /\ denied'[e] = denied[e] /\ token'[e] = token[e]
      BY <3>1 DEF LInv, LoginShape
    <3>4. \A e \in Client : DenialOutlives(e)'
      BY <3>3 DEF LInv, DenialOutlives
    <3> QED BY <3>1, <3>2, <3>4 DEF LInv, LoginShape
  <2>2. CASE key # "ip"
    <3>1. UNCHANGED <<token, denied, signedOut>>
      BY <2>2 DEF clear_attempts
    <3> QED BY <3>1 DEF LInv, LoginShape, DenialOutlives
  <2> QED BY <2>1, <2>2
<1> HIDE DEF r
<1>6. /\ login' \in [Client -> {LoginIdle} \cup LoginState]
      /\ login'[c] = r /\ \A e \in Client \ {c} : login'[e] = login[e]
      /\ \A e \in Client : login'[e].pc \in {"check", "verify"} => login'[e].key = login'[e].name
  BY <1>3, <1>4, OneMoves DEF LInv
<1>7. count' \in [Key -> Nat] /\ \A k \in Key : count'[k] <= count[k]
  BY <1>2, <1>3 DEF LInv, LoginShape
<1>8. \A e \in Client, k \in Key : Owes(login'[e], k) => Owes(login[e], k)
  BY <1>4, <1>6 DEF Owes
<1>9. \A k \in Key : WithinBudget(k)'
  BY <1>7, <1>8, OwesNoMore
<1> QED BY <1>5, <1>6, <1>7, <1>9 DEF LInv, LoginShape

LEMMA LogoutKeeps ==
  ASSUME LInv, NEW c \in Client, logout(c), token[c] <= Lifetime
  PROVE  LInv'
<1>1. UNCHANGED <<count, login, token>>
  BY DEF logout
<1>2. /\ denied' \in [Client -> Nat] /\ signedOut' \in [Client -> BOOLEAN]
      /\ \A e \in Client : DenialOutlives(e)'
  BY LoginConstants DEF logout, revocation_ttl, LInv, LoginShape, DenialOutlives
<1>3. \A k \in Key : WithinBudget(k)'
  BY <1>1, OwesNoMore DEF LInv, LoginShape
<1> QED BY <1>1, <1>2, <1>3 DEF LInv, LoginShape

LEMMA TickKeeps ==
  ASSUME LInv, Tick
  PROVE  LInv'
<1>1. login' = login /\ signedOut' = signedOut
  BY DEF Tick
<1>2. /\ token' \in [Client -> Nat] /\ denied' \in [Client -> Nat]
      /\ \A e \in Client : DenialOutlives(e)'
  BY DEF Tick, LInv, LoginShape, DenialOutlives
<1>3. count' \in [Key -> Nat] /\ \A k \in Key : count'[k] <= count[k]
  BY DEF Tick, LInv, LoginShape
<1>4. \A k \in Key : WithinBudget(k)'
  BY <1>1, <1>3, OwesNoMore
<1> QED BY <1>1, <1>2, <1>3, <1>4 DEF LInv, LoginShape

(* No token lives longer than it was issued for.                           *)
Mortal == \A c \in Client : token[c] \in 0 .. Lifetime

LEMMA LoginsKeep ==
  ASSUME LInv, Mortal, [LoginsNext]_loginVars
  PROVE  LInv' /\ Mortal'
<1>1. CASE UNCHANGED loginVars
  <2>1. \A k \in Key : WithinBudget(k)'
    BY <1>1, OwesNoMore DEF loginVars, LInv, LoginShape
  <2> QED BY <1>1, <2>1 DEF loginVars, LInv, LoginShape, DenialOutlives, Mortal
<1>2. CASE LoginsNext
  <2>1. LInv'
    BY <1>2, PostLoginKeeps, CheckKeeps, VerifyKeeps, IncrKeeps, ExpireKeeps, ClearKeeps,
       LogoutKeeps, TickKeeps DEF LoginsNext, LoginStep, Mortal
  <2>2. \A c \in Client : token'[c] \in {token[c], Lifetime, token[c] - 1, 0}
    BY <1>2 DEF LoginsNext, LoginStep, PostLogin, Check, Verify, incr, expire, clear_attempts,
                logout, Tick, LInv, LoginShape
  <2>3. \A c \in Client : token[c] \in 0 .. Lifetime /\ token'[c] \in Nat
    BY <2>1 DEF LInv, LoginShape, Mortal
  <2> QED BY <2>1, <2>2, <2>3, LoginConstants DEF Mortal
<1> QED BY <1>1, <1>2

LEMMA LoginsSafe == LoginsSpec => [](LInv /\ Mortal)
<1>1. LoginsInit => LInv /\ Mortal
  BY LoginsStart, LoginConstants DEF LoginsInit, Mortal
<1>2. LInv /\ Mortal /\ [LoginsNext]_loginVars => (LInv /\ Mortal)'
  BY LoginsKeep
<1> QED BY <1>1, <1>2, PTL DEF LoginsSpec

(* Logins that pass the check together overrun a budget by no more than    *)
(* the requests in flight beside the one that exhausts it                  *)
(* (throttle.is_throttled against record_failed_attempt).                  *)
THEOREM GuessesStayBounded == LoginsSpec => []GuessesBounded
<1>1. LInv => GuessesBounded
  <2> SUFFICES ASSUME LInv PROVE GuessesBounded
    OBVIOUS
  <2>1. \A k \in Key : count[k] <= Budget(k) + Cardinality(Client) - 1
    BY OwingCounts DEF LInv, LoginShape, WithinBudget
  <2> QED BY <2>1, LoginConstants DEF GuessesBounded, Budget, Key
<1> QED BY <1>1, LoginsSafe, PTL

(* A token that was logged out is never accepted again (services/token.py, *)
(* get_current_user).                                                      *)
THEOREM LogoutsLast == LoginsSpec => []LoggedOutStaysOut
<1>1. LInv => LoggedOutStaysOut
  BY DEF LInv, LoginShape, DenialOutlives, LoggedOutStaysOut, Accepted
<1> QED BY <1>1, LoginsSafe, PTL

-----------------------------------------------------------------------------
(* The field devices.  Three facts carry the proof: while a collection is  *)
(* being sealed nothing else changes what is listed (Sealing), one that    *)
(* can be transferred keeps every item its manifest names (Kept), and a    *)
(* request of the phone carries the manifest the phone still holds         *)
(* (Carried).                                                              *)

Transferable == {"SEALED", "PACKAGED", "SUBMITTED"}

Usb == [manifest : Signed, signature : Signed, files : SUBSET Evidence, bad : SUBSET Evidence]

Unsent == [pc |-> "idle"]

Shape ==
  /\ files \subseteq Evidence /\ metas \subseteq Evidence /\ rotten \subseteq Evidence
  /\ stage \in CollectionStatus
  /\ manifest \in Signed \cup {None} /\ signature \in Signed \cup {None}
  /\ usb = None \/ usb \in Usb
  /\ task \in {Free} \cup TaskState
  /\ request \in [Slot -> {Unsent} \cup ImportRequest]
  /\ rows \subseteq Evidence

(* The stages of the tasks, and what a task that seals has written.        *)
Sealing ==
  /\ task.op = "hash" => stage = "CAPTURING"
  /\ task.op = "seal" =>
       /\ stage = "HASHED" /\ deletion = {} /\ task.items = metas
       /\ task.pc \in {"signature", "stage"} => manifest = [items |-> metas]
       /\ task.pc = "stage" => signature = manifest

Kept ==
  stage \in Transferable =>
    /\ manifest # None /\ signature = manifest
    /\ manifest.items \subseteq metas
    /\ deletion = {}

Carried ==
  \A s \in Slot :
    task = [op |-> "submit", slot |-> s] =>
      /\ stage \in {"SEALED", "PACKAGED"}
      /\ request[s].pc # "idle"
      /\ request[s].manifest = manifest
      /\ manifest.items \subseteq request[s].sent

(* What the server knows of a request it has verified or accepted.         *)
Judged(r, held) ==
  /\ r.pc \in {"verified", "accepted"} => r.sent \cap r.manifest.items \cap r.bad = {}
  /\ r.pc = "accepted" => r.sent \cap r.manifest.items \subseteq held

Arrived ==
  /\ \A s \in Slot : Judged(request[s], rows)
  /\ stage = "SUBMITTED" => manifest.items \subseteq rows

FInv == Shape /\ Sealing /\ Kept /\ Carried /\ Arrived

LEMMA NoneIsUnsigned == None \notin Signed
BY DEF None, Signed

LEMMA TaskShapes ==
  /\ Free.op = "idle" /\ Free \notin TaskState
  /\ \A t \in TaskState : t.op \in {"capture", "hash", "seal", "submit"}
  /\ \A t \in TaskState : t.op = "seal" => /\ t.items \in SUBSET Evidence
                                           /\ t.pc \in {"manifest", "signature", "stage"}
  /\ \A t \in TaskState : t.op = "capture" => t.item \in Evidence
<1>1. Free.op = "idle"
  BY DEF Free
<1>2. \A t \in TaskState : t.op \in {"capture", "hash", "seal", "submit"}
  BY DEF TaskState
<1>3. \A t \in TaskState : t.op = "seal" => /\ t.items \in SUBSET Evidence
                                            /\ t.pc \in {"manifest", "signature", "stage"}
  BY DEF TaskState
<1>4. \A t \in TaskState : t.op = "capture" => t.item \in Evidence
  BY DEF TaskState
<1> QED BY <1>1, <1>2, <1>3, <1>4

LEMMA RequestShapes ==
  /\ Unsent.pc = "idle" /\ Unsent \notin ImportRequest
  /\ \A r \in ImportRequest : /\ r.pc \in {"sent", "verified", "accepted", "refused"}
                             /\ r.manifest \in Signed /\ r.sent \subseteq Evidence
<1>1. Unsent.pc = "idle"
  BY DEF Unsent
<1>2. \A r \in ImportRequest : /\ r.pc \in {"sent", "verified", "accepted", "refused"}
                              /\ r.manifest \in Signed /\ r.sent \subseteq Evidence
  BY DEF ImportRequest
<1> QED BY <1>1, <1>2

LEMMA InitField == Init => FInv
<1> SUFFICES ASSUME Init PROVE FInv
  OBVIOUS
<1>1. Shape
  BY DEF Init, Shape, CollectionStatus, Unsent
<1>2. task.op = "idle" /\ stage = "CAPTURING"
  BY TaskShapes DEF Init
<1>3. \A s \in Slot : request[s].pc = "idle"
  BY RequestShapes DEF Init, Unsent
<1>4. \A s \in Slot : task # [op |-> "submit", slot |-> s]
  BY <1>2
<1> QED BY <1>1, <1>2, <1>3, <1>4 DEF FInv, Sealing, Kept, Carried, Arrived, Judged, Transferable

-----------------------------------------------------------------------------
(* Steps that leave what was sealed and sent alone.                        *)
LEMMA QuietKeeps ==
  ASSUME FInv, Shape', UNCHANGED <<stage, manifest, signature, request>>,
         metas \subseteq metas', rows \subseteq rows',
         task' = task \/ task'.op \notin {"seal", "submit"},
         task'.op = "hash" => stage = "CAPTURING",
         deletion' = {} \/ deletion' = deletion \/ stage = "CAPTURING",
         task'.op = "seal" => metas' = metas
  PROVE  FInv'
<1>1. Sealing'
  BY DEF FInv, Sealing
<1>2. Kept'
  BY DEF FInv, Kept, Transferable
<1>3. Carried'
  <2> SUFFICES ASSUME NEW s \in Slot, task' = [op |-> "submit", slot |-> s]
               PROVE  (/\ stage \in {"SEALED", "PACKAGED"}
                       /\ request[s].pc # "idle"
                       /\ request[s].manifest = manifest
                       /\ manifest.items \subseteq request[s].sent)'
    BY DEF Carried
  <2>1. task' = task
    OBVIOUS
  <2> QED BY <2>1 DEF FInv, Carried
<1>4. Arrived'
  BY DEF FInv, Arrived, Judged
<1> QED BY <1>1, <1>2, <1>3, <1>4 DEF FInv

LEMMA CaptureKeeps ==
  ASSUME FInv, CaptureMeta \/ \E e \in Evidence : CaptureFile(e)
  PROVE  FInv'
<1>1. CASE CaptureMeta
  <2>1. task \in TaskState /\ task.op = "capture" /\ task.item \in Evidence
    BY <1>1, TaskShapes DEF CaptureMeta, FInv, Shape
  <2>2. Shape'
    BY <1>1, <2>1 DEF CaptureMeta, serverVars, FInv, Shape
  <2>3. task'.op = "idle"
    BY <1>1, TaskShapes DEF CaptureMeta
  <2> QED BY <1>1, <2>2, <2>3, QuietKeeps DEF CaptureMeta, serverVars
<1>2. CASE \E e \in Evidence : CaptureFile(e)
  <2>1. PICK e \in Evidence : CaptureFile(e)
    BY <1>2
  <2>2. task' \in TaskState /\ task'.op = "capture"
    BY <2>1 DEF CaptureFile, TaskState
  <2>3. Shape'
    BY <2>1, <2>2 DEF CaptureFile, serverVars, FInv, Shape
  <2> QED BY <2>1, <2>2, <2>3, QuietKeeps DEF CaptureFile, serverVars
<1> QED BY <1>1, <1>2

LEMMA DeleteKeeps ==
  ASSUME FInv, DeleteMeta \/ \E e \in Evidence : DeleteFile(e)
  PROVE  FInv'
<1>1. CASE DeleteMeta
  <2>1. task.op # "seal" /\ stage \notin Transferable
    BY <1>1 DEF DeleteMeta, FInv, Sealing, Kept
  <2>2. Shape'
    BY <1>1 DEF DeleteMeta, serverVars, FInv, Shape
  <2>3. UNCHANGED <<stage, task, request, manifest, signature, rows>>
    BY <1>1 DEF DeleteMeta, serverVars
  <2> QED BY <2>1, <2>2, <2>3 DEF FInv, Sealing, Kept, Carried, Arrived, Judged
<1>2. CASE \E e \in Evidence : DeleteFile(e)
  <2>1. PICK e \in Evidence : DeleteFile(e)
    BY <1>2
  <2>2. stage = "CAPTURING" /\ task' = task /\ metas' = metas
    BY <2>1 DEF DeleteFile, Deletable
  <2>3. Shape'
    BY <2>1 DEF DeleteFile, serverVars, FInv, Shape
  <2> QED BY <2>1, <2>2, <2>3, QuietKeeps DEF DeleteFile, serverVars
<1> QED BY <1>1, <1>2

LEMMA HashKeeps ==
  ASSUME FInv, HashStart \/ \E e \in Evidence : HashFile(e)
  PROVE  FInv'
<1>1. task' \in {Free} \cup TaskState /\ task'.op \in {"idle", "hash"} /\ stage = "CAPTURING"
  <2>1. CASE HashStart
    BY <2>1 DEF HashStart, listEvidence, TaskState, FInv, Shape
  <2>2. CASE \E e \in Evidence : HashFile(e)
    <3>1. PICK e \in Evidence : HashFile(e)
      BY <2>2
    <3>2. task \in [op : {"hash"}, left : SUBSET Evidence, bad : BOOLEAN]
      BY <3>1, TaskShapes DEF HashFile, FInv, Shape, TaskState
    <3>3. (task.bad \/ e \in rotten) \in BOOLEAN
      OBVIOUS
    <3>4. /\ [task EXCEPT !.left = @ \ {e}, !.bad = @ \/ e \in rotten] \in TaskState
          /\ [task EXCEPT !.left = @ \ {e}, !.bad = @ \/ e \in rotten].op = "hash"
      BY <3>2, <3>3 DEF TaskState
    <3>5. stage = "CAPTURING"
      BY <3>1 DEF HashFile, FInv, Sealing
    <3> QED BY <3>1, <3>4, <3>5, TaskShapes DEF HashFile
  <2> QED BY <2>1, <2>2
<1>2. UNCHANGED <<phoneVars, deletion, request, serverVars>>
  BY DEF HashStart, HashFile
<1>3. Shape'
  BY <1>1, <1>2 DEF FInv, Shape, phoneVars, serverVars
<1> QED BY <1>1, <1>2, <1>3, QuietKeeps DEF phoneVars, serverVars

LEMMA HashEndKeeps ==
  ASSUME FInv, HashEnd
  PROVE  FInv'
<1>1. task.op = "hash" /\ stage = "CAPTURING"
  BY DEF HashEnd, FInv, Sealing
<1>2. stage' \in {"CAPTURING", "HASHED", "FAILED"} /\ task' = Free
  BY <1>1 DEF HashEnd
<1>3. UNCHANGED <<files, metas, rotten, manifest, signature, usb, request, rows>>
  BY DEF HashEnd, serverVars
<1>4. Shape'
  BY <1>2, <1>3 DEF FInv, Shape, CollectionStatus
<1>5. task'.op = "idle" /\ \A s \in Slot : task' # [op |-> "submit", slot |-> s]
  BY <1>2, TaskShapes
<1> QED BY <1>2, <1>3, <1>4, <1>5
        DEF FInv, Sealing, Kept, Carried, Arrived, Judged, Transferable

(* Sealing, one write after the other.                                     *)
LEMMA SealKeeps ==
  ASSUME FInv, SealStart \/ SealManifest \/ SealSignature
  PROVE  FInv'
<1>1. /\ stage = "HASHED" /\ stage' = stage /\ metas' = metas /\ deletion = {} /\ deletion' = {}
      /\ UNCHANGED <<files, rotten, usb, request, rows>>
  BY DEF SealStart, SealManifest, SealSignature, MayStart, phoneVars, serverVars, FInv, Sealing
<1>2. /\ task' \in TaskState /\ task'.op = "seal" /\ task'.items = metas
      /\ manifest' \in Signed \cup {None} /\ signature' \in Signed \cup {None}
      /\ task'.pc \in {"signature", "stage"} => manifest' = [items |-> metas]
      /\ task'.pc = "stage" => signature' = manifest'
  <2>0. metas \in SUBSET Evidence
    BY DEF FInv, Shape
  <2>1. CASE SealStart
    BY <2>0, <2>1 DEF SealStart, listEvidence, TaskState, phoneVars, FInv, Shape
  <2>2. ASSUME task.op = "seal"
        PROVE  /\ task \in [op : {"seal"}, pc : {"manifest", "signature", "stage"}, items : SUBSET Evidence]
               /\ task.items = metas
    BY <2>2, TaskShapes DEF FInv, Shape, TaskState, Sealing
  <2>3. [items |-> metas] \in Signed
    BY <2>0 DEF Signed
  <2>4. CASE SealManifest
    <3>1. /\ task \in [op : {"seal"}, pc : {"manifest", "signature", "stage"}, items : SUBSET Evidence]
          /\ task.items = metas
      BY <2>2, <2>4 DEF SealManifest
    <3>2. task' \in TaskState /\ task'.op = "seal" /\ task'.items = metas /\ task'.pc = "signature"
      BY <2>4, <3>1 DEF SealManifest, TaskState
    <3> QED BY <2>3, <2>4, <3>1, <3>2 DEF SealManifest, FInv, Shape
  <2>5. CASE SealSignature
    <3>1. /\ task \in [op : {"seal"}, pc : {"manifest", "signature", "stage"}, items : SUBSET Evidence]
          /\ task.items = metas
      BY <2>2, <2>5 DEF SealSignature
    <3>2. task' \in TaskState /\ task'.op = "seal" /\ task'.items = metas /\ task'.pc = "stage"
      BY <2>5, <3>1 DEF SealSignature, TaskState
    <3>3. manifest = [items |-> metas]
      BY <2>5 DEF SealSignature, FInv, Sealing
    <3> QED BY <2>3, <2>5, <3>1, <3>2, <3>3 DEF SealSignature, FInv, Shape
  <2> QED BY <2>1, <2>4, <2>5
<1>3. Shape'
  BY <1>1, <1>2 DEF FInv, Shape
<1>4. \A s \in Slot : task' # [op |-> "submit", slot |-> s]
  BY <1>2
<1> QED BY <1>1, <1>2, <1>3, <1>4
        DEF FInv, Sealing, Kept, Carried, Arrived, Judged, Transferable

LEMMA SealStatusKeeps ==
  ASSUME FInv, SealStatus
  PROVE  FInv'
<1>1. /\ deletion = {} /\ signature = manifest
      /\ manifest = [items |-> metas] /\ metas \subseteq Evidence
  BY DEF SealStatus, FInv, Sealing, Shape
<1>2. manifest # None /\ manifest.items = metas
  BY <1>1, NoneIsUnsigned DEF Signed
<1>3. /\ stage' = "SEALED" /\ task' = Free
      /\ UNCHANGED <<files, metas, rotten, manifest, signature, usb, deletion, request, rows>>
  BY DEF SealStatus, serverVars
<1>4. Shape'
  BY <1>3 DEF FInv, Shape, CollectionStatus
<1>5. task'.op = "idle" /\ \A s \in Slot : task' # [op |-> "submit", slot |-> s]
  BY <1>3, TaskShapes
<1> QED BY <1>1, <1>2, <1>3, <1>4, <1>5
        DEF FInv, Sealing, Kept, Carried, Arrived, Judged

LEMMA PackageKeeps ==
  ASSUME FInv, packageDir
  PROVE  FInv'
<1>1. /\ task = Free /\ task' = task /\ deletion = {} /\ stage = "SEALED" /\ stage' = "PACKAGED"
      /\ UNCHANGED <<files, metas, rotten, manifest, signature, deletion, request, rows>>
  BY DEF packageDir, MayStart, serverVars
<1>2. manifest \in Signed /\ signature \in Signed
  BY <1>1 DEF FInv, Shape, Kept, Transferable
<1>3. usb' \in Usb
  BY <1>2 DEF packageDir, listEvidence, Usb, FInv, Shape
<1>4. Shape'
  BY <1>1, <1>3 DEF FInv, Shape, CollectionStatus
<1>5. task'.op = "idle" /\ \A s \in Slot : task' # [op |-> "submit", slot |-> s]
  BY <1>1, TaskShapes
<1> QED BY <1>1, <1>4, <1>5
        DEF FInv, Sealing, Kept, Carried, Arrived, Judged, Transferable

-----------------------------------------------------------------------------
(* Requests.                                                               *)
LEMMA SubmitKeeps ==
  ASSUME FInv, NEW s \in Slot, Submit(s)
  PROVE  FInv'
<1> DEFINE r == [pc |-> "sent", manifest |-> manifest, signature |-> signature,
                 sent |-> metas, bad |-> rotten]
<1>1. /\ stage \in {"SEALED", "PACKAGED"} /\ request[s].pc = "idle"
      /\ request' = [request EXCEPT ![s] = r]
      /\ task' = [op |-> "submit", slot |-> s]
      /\ UNCHANGED <<files, metas, rotten, stage, manifest, signature, usb, deletion, rows>>
  BY DEF Submit, listEvidence, phoneVars, serverVars
<1>2. manifest \in Signed /\ signature \in Signed /\ manifest.items \subseteq metas
  BY <1>1 DEF FInv, Shape, Kept, Transferable, Submit
<1>3. r \in ImportRequest
  BY <1>2 DEF ImportRequest, FInv, Shape
<1>4. task' \in TaskState /\ task'.op = "submit"
  BY <1>1 DEF TaskState
<1>5. /\ r.pc = "sent" /\ r.manifest = manifest /\ r.sent = metas
  OBVIOUS
<1> HIDE DEF r
<1>6. Shape' /\ request'[s] = r /\ \A t \in Slot \ {s} : request'[t] = request[t]
  BY <1>1, <1>3, <1>4 DEF FInv, Shape
<1>7. Carried'
  <2> SUFFICES ASSUME NEW t \in Slot, task' = [op |-> "submit", slot |-> t]
               PROVE  (/\ stage \in {"SEALED", "PACKAGED"}
                       /\ request[t].pc # "idle"
                       /\ request[t].manifest = manifest
                       /\ manifest.items \subseteq request[t].sent)'
    BY DEF Carried
  <2>1. task'.slot = s /\ task'.slot = t
    BY <1>1
  <2> QED BY <2>1, <1>1, <1>2, <1>5, <1>6
<1>8. Arrived'
  BY <1>1, <1>5, <1>6 DEF FInv, Arrived, Judged
<1> QED BY <1>1, <1>4, <1>6, <1>7, <1>8 DEF FInv, Sealing, Kept

(* A request at the server changes, and nothing it carries.                *)
LEMMA ServerKeeps ==
  ASSUME FInv, NEW s \in Slot, NEW r \in {Unsent} \cup ImportRequest,
         request' = [request EXCEPT ![s] = r],
         UNCHANGED <<phoneVars, task, deletion>>,
         rows \subseteq rows', rows' \subseteq Evidence,
         Judged(r, rows'),
         task = [op |-> "submit", slot |-> s]
           => r.pc # "idle" /\ r.manifest = request[s].manifest /\ r.sent = request[s].sent
  PROVE  FInv'
<1>1. /\ request' \in [Slot -> {Unsent} \cup ImportRequest]
      /\ request'[s] = r /\ \A t \in Slot \ {s} : request'[t] = request[t]
  BY DEF FInv, Shape
<1>2. Shape'
  BY <1>1 DEF FInv, Shape, phoneVars
<1>3. Carried'
  <2> SUFFICES ASSUME NEW t \in Slot, task = [op |-> "submit", slot |-> t]
               PROVE  /\ stage \in {"SEALED", "PACKAGED"}
                      /\ request'[t].pc # "idle"
                      /\ request'[t].manifest = manifest
                      /\ manifest.items \subseteq request'[t].sent
    BY DEF Carried, phoneVars
  <2>1. /\ stage \in {"SEALED", "PACKAGED"} /\ request[t].pc # "idle"
        /\ request[t].manifest = manifest /\ manifest.items \subseteq request[t].sent
    BY DEF FInv, Carried
  <2> QED BY <2>1, <1>1
<1>4. Arrived'
  <2>1. \A t \in Slot \ {s} : Judged(request[t], rows)'
    BY <1>1 DEF FInv, Arrived, Judged
  <2>2. Judged(request[s], rows)'
    BY <1>1 DEF Judged
  <2> QED BY <2>1, <2>2 DEF FInv, Arrived, phoneVars, Judged
<1> QED BY <1>2, <1>3, <1>4 DEF FInv, Sealing, Kept, phoneVars

LEMMA UsbSubmitKeeps ==
  ASSUME FInv, NEW s \in Slot, UsbSubmit(s)
  PROVE  FInv'
<1> DEFINE r == [pc |-> "sent", manifest |-> usb.manifest, signature |-> usb.signature,
                 sent |-> usb.manifest.items, bad |-> usb.bad]
<1>1. usb \in Usb /\ usb.manifest.items \subseteq Evidence
  BY DEF UsbSubmit, FInv, Shape, Usb, Signed
<1>2. r \in ImportRequest /\ r.pc = "sent"
  BY <1>1 DEF ImportRequest, Usb
<1>3. /\ request' = [request EXCEPT ![s] = r] /\ UNCHANGED <<phoneVars, task, deletion, rows>>
      /\ request[s].pc = "idle"
  BY DEF UsbSubmit, serverVars
<1> HIDE DEF r
<1>4. task # [op |-> "submit", slot |-> s]
  BY <1>3 DEF FInv, Carried
<1>5. Judged(r, rows')
  BY <1>2 DEF Judged
<1> QED BY <1>2, <1>3, <1>4, <1>5, ServerKeeps DEF FInv, Shape

(* Verification refuses a file whose bytes are not those of its digest.    *)
LEMMA CompareKeeps ==
  ASSUME FInv, NEW s \in Slot, ImportVerify(s)
  PROVE  FInv'
<1>1. request[s].pc = "sent" /\ request[s] \in ImportRequest
  BY RequestShapes DEF ImportVerify, FInv, Shape
<1> DEFINE verdict == IF Verified(request[s]) THEN "verified" ELSE "refused"
           r == [request[s] EXCEPT !.pc = verdict]
<1>2. /\ r \in ImportRequest /\ r.pc = verdict /\ r.manifest = request[s].manifest
      /\ r.sent = request[s].sent /\ r.bad = request[s].bad
  BY <1>1 DEF ImportRequest
<1>3. request' = [request EXCEPT ![s] = r] /\ UNCHANGED <<phoneVars, task, deletion, rows>>
  BY DEF ImportVerify, serverVars
<1>4. Verified(request[s]) => request[s].sent \cap request[s].manifest.items \cap request[s].bad = {}
  BY DEF Verified
<1> HIDE DEF r
<1>5. Judged(r, rows')
  BY <1>2, <1>4 DEF Judged
<1>6. r.pc # "idle"
  BY <1>2
<1> QED BY <1>2, <1>3, <1>5, <1>6, ServerKeeps DEF FInv, Shape

LEMMA CommitKeeps ==
  ASSUME FInv, NEW s \in Slot, ImportCommit(s)
  PROVE  FInv'
<1>1. request[s].pc = "verified" /\ request[s] \in ImportRequest
  BY RequestShapes DEF ImportCommit, FInv, Shape
<1> DEFINE named == request[s].sent \cap request[s].manifest.items
           clash == digests(named) \cap digests(rows) # {}
           r == [request[s] EXCEPT !.pc = IF clash THEN "refused" ELSE "accepted"]
<1>2. /\ r \in ImportRequest /\ r.manifest = request[s].manifest
      /\ r.sent = request[s].sent /\ r.bad = request[s].bad
      /\ r.pc = IF clash THEN "refused" ELSE "accepted"
  BY <1>1 DEF ImportRequest
<1>3. /\ request' = [request EXCEPT ![s] = r] /\ UNCHANGED <<phoneVars, task, deletion>>
      /\ rows' = IF clash THEN rows ELSE rows \cup named
  BY DEF ImportCommit
<1>4. named \subseteq Evidence
  BY <1>1, RequestShapes
<1>5. request[s].sent \cap request[s].manifest.items \cap request[s].bad = {}
  BY <1>1 DEF FInv, Arrived, Judged
<1> HIDE DEF r, clash
<1>6. Judged(r, rows')
  BY <1>2, <1>3, <1>5 DEF Judged
<1>7. r.pc # "idle" /\ rows \subseteq rows' /\ rows' \subseteq Evidence
  BY <1>2, <1>3, <1>4 DEF FInv, Shape
<1> QED BY <1>2, <1>3, <1>6, <1>7, ServerKeeps

(* The phone counts the collection as submitted on an acceptance only.     *)
LEMMA AnswerKeeps ==
  ASSUME FInv, NEW s \in Slot, Answer(s)
  PROVE  FInv'
<1>1. /\ request' = [request EXCEPT ![s] = Unsent]
      /\ UNCHANGED <<files, metas, rotten, manifest, signature, usb, plain, deletion, rows>>
  BY DEF Answer, serverVars, Unsent
<1>2. CASE task = [op |-> "submit", slot |-> s]
  <2>1. /\ task' = Free /\ stage' \in {stage, "SUBMITTED"}
        /\ stage' # stage => request[s].pc = "accepted"
    BY <1>2 DEF Answer
  <2>2. /\ stage \in {"SEALED", "PACKAGED"} /\ request[s].manifest = manifest
        /\ manifest.items \subseteq request[s].sent
    BY <1>2 DEF FInv, Carried
  <2>3. request[s].pc = "accepted" => manifest.items \subseteq rows
    BY <2>2 DEF FInv, Arrived, Judged
  <2>4. task'.op = "idle" /\ \A t \in Slot : task' # [op |-> "submit", slot |-> t]
    BY <2>1, TaskShapes
  <2>5. Shape'
    BY <1>1, <2>1, <2>2 DEF FInv, Shape, CollectionStatus
  <2>6. Arrived'
    <3>1. \A t \in Slot : Judged(request[t], rows)'
      BY <1>1, RequestShapes DEF FInv, Shape, Arrived, Judged
    <3> QED BY <1>1, <2>1, <2>2, <2>3, <3>1 DEF Arrived
  <2> QED BY <1>1, <2>1, <2>2, <2>4, <2>5, <2>6 DEF FInv, Sealing, Kept, Carried, Transferable
<1>3. CASE task # [op |-> "submit", slot |-> s]
  <2>1. UNCHANGED <<task, stage>>
    BY <1>3 DEF Answer
  <2>2. Judged(Unsent, rows')
    BY RequestShapes DEF Judged
  <2> QED BY <1>1, <1>3, <2>1, <2>2, ServerKeeps DEF phoneVars, FInv, Shape
<1> QED BY <1>2, <1>3

-----------------------------------------------------------------------------
(* Faults and the administration of devices.                               *)
LEMMA FaultKeeps ==
  ASSUME FInv, Death \/ revoke_device \/ (\E e \in Evidence : Rot(e))
               \/ register_device \/ approve_device
  PROVE  FInv'
<1>1. CASE Death
  <2>1. task' = Free /\ deletion' = {} /\ UNCHANGED <<phoneVars, request, serverVars>>
    BY <1>1 DEF Death
  <2>2. task'.op = "idle"
    BY <2>1, TaskShapes
  <2>3. Shape'
    BY <2>1 DEF FInv, Shape, phoneVars, serverVars
  <2> QED BY <2>1, <2>2, <2>3, QuietKeeps DEF phoneVars, serverVars
<1>2. CASE revoke_device \/ register_device \/ approve_device
  <2>1. UNCHANGED <<phoneVars, task, deletion, request, rows>>
    BY <1>2 DEF revoke_device, register_device, approve_device
  <2>2. Shape' /\ (task.op = "hash" => stage = "CAPTURING")
    BY <2>1 DEF FInv, Shape, Sealing, phoneVars
  <2> QED BY <2>1, <2>2, QuietKeeps DEF phoneVars
<1>3. CASE \E e \in Evidence : Rot(e)
  <2>1. UNCHANGED <<files, metas, stage, manifest, signature, usb, task, deletion, request, rows>>
        /\ rotten' \subseteq Evidence
    BY <1>3 DEF Rot, serverVars, FInv, Shape
  <2>2. Shape' /\ (task.op = "hash" => stage = "CAPTURING")
    BY <2>1 DEF FInv, Shape, Sealing
  <2> QED BY <2>1, <2>2, QuietKeeps
<1> QED BY <1>1, <1>2, <1>3

LEMMA AnswerLostKeeps ==
  ASSUME FInv, NEW s \in Slot, AnswerLost(s)
  PROVE  FInv'
<1>1. task' = Free /\ UNCHANGED <<phoneVars, deletion, serverVars>>
  BY DEF AnswerLost
<1>2. request' = request \/ request' = [request EXCEPT ![s] = Unsent]
  BY DEF AnswerLost, Unsent
<1>3. task'.op = "idle" /\ \A t \in Slot : task' # [op |-> "submit", slot |-> t]
  BY <1>1, TaskShapes
<1>4. Shape'
  BY <1>1, <1>2 DEF FInv, Shape, phoneVars, serverVars
<1>5. \A t \in Slot : Judged(request[t], rows)'
  BY <1>1, <1>2, RequestShapes DEF serverVars, FInv, Shape, Arrived, Judged
<1> QED BY <1>1, <1>3, <1>4, <1>5
        DEF FInv, Sealing, Kept, Carried, Arrived, phoneVars, serverVars, Transferable

LEMMA FieldKeeps ==
  ASSUME FInv, [Next]_vars
  PROVE  FInv'
<1>1. CASE UNCHANGED vars
  BY <1>1 DEF vars, FInv, Shape, Sealing, Kept, Carried, Arrived, Judged
<1>2. CASE Next
  BY <1>2, CaptureKeeps, DeleteKeeps, HashKeeps, HashEndKeeps, SealKeeps, SealStatusKeeps,
     PackageKeeps, SubmitKeeps, UsbSubmitKeeps, CompareKeeps, CommitKeeps, AnswerKeeps,
     FaultKeeps, AnswerLostKeeps
     DEF Next, TaskStep, Server
<1> QED BY <1>1, <1>2

(* A collection that can be transferred is signed, one that counts as       *)
(* submitted is in the case, and what was accepted is what was captured,    *)
(* through process deaths, lost answers, decay, replays and the USB way     *)
(* (TransferManager.seal, submitPackage, import_package).                   *)
THEOREM OriginalsArrive == Spec => []CaseHoldsTheOriginals
<1>1. Init => FInv
  BY InitField
<1>2. FInv /\ [Next]_vars => FInv'
  BY FieldKeeps
<1>3. FInv => CaseHoldsTheOriginals
  <2> SUFFICES ASSUME FInv PROVE CaseHoldsTheOriginals
    OBVIOUS
  <2>1. TransferableIsSigned
    BY DEF FInv, Kept, Transferable, TransferableIsSigned
  <2>2. SubmittedIsImported
    BY DEF FInv, Kept, Transferable, Arrived, SubmittedIsImported, sealed
  <2>3. AcceptedBytesAreOriginal
    BY DEF FInv, Arrived, Judged, AcceptedBytesAreOriginal
  <2> QED BY <2>1, <2>2, <2>3 DEF CaseHoldsTheOriginals
<1> QED BY <1>1, <1>2, <1>3, PTL DEF Spec

=============================================================================
