-------------------------------- MODULE Cases --------------------------------
(***************************************************************************)
(* One case: its lifecycle (api/routes/cases.py), its members, and the     *)
(* guard every route that changes the content of a case calls first        *)
(* (assert_case_mutable in api/dependencies.py).                           *)
(*                                                                         *)
(* Every request loads the case once and checks that copy; its writes are  *)
(* committed later, and the case row is not locked in between.             *)
(***************************************************************************)
EXTENDS FiniteSets

CONSTANTS Person,     \* accounts that act on the case or are members of it
          Owner,      \* the account that created it
          Admin,      \* accounts that hold ADMIN
          Tab         \* sessions

ASSUME CaseConstants == Owner \in Person /\ Admin \subseteq Person

VARIABLES caseStatus,   \* cases.status
          content,      \* a bit that every change of the case's content flips
          members,      \* the rows of case_members
          tab           \* the requests in flight

caseVars == <<caseStatus, content, members, tab>>

CaseStatus == {"open", "in_progress", "closed", "archived"}
READ_ONLY_CASE_STATUSES == {"closed", "archived"}

\* The transitions a PATCH may make; archived is left out: it has none.
CASE_TRANSITIONS ==
  [open |-> {"in_progress", "closed"}, in_progress |-> {"open", "closed"},
   closed |-> {"open", "in_progress"}, archived |-> {}]

TabIdle == [pc |-> "idle"]

\* edit: the request changes content; to: the status a PATCH asks for, or
\* the one it saw; who: the member it adds or removes
CaseRequest ==
  [pc : {"loaded", "checked"}, op : {"patch", "archive", "add", "remove", "write"},
   actor : Person, seen : CaseStatus, edit : BOOLEAN, to : CaseStatus,
   who : Person, alone : BOOLEAN]

\* create_case: the creator owns it and chooses its first status.
CasesInit ==
  /\ caseStatus \in {"open", "in_progress", "closed"}
  /\ content = FALSE /\ members = {}
  /\ tab = [t \in Tab |-> TabIdle]

\* assert_case_access: the owner, the members and administrators
MayAccess(p) == p = Owner \/ p \in Admin \/ p \in members

assert_case_mutable_archivedOnly(status) == status # "archived"

assert_case_mutable(status) == status \notin READ_ONLY_CASE_STATUSES

\* What each route refuses on the copy it loaded: update_case (with content
\* only on a case that is not read-only, and a legal transition), archive_case,
\* the member routes (owner or administrator), and the routes that write.
Admissible(r) ==
  CASE r.op = "patch" ->
         /\ r.seen # "archived" /\ r.to # "archived"
         /\ r.edit => assert_case_mutable(r.seen)
         /\ r.to = r.seen \/ r.to \in CASE_TRANSITIONS[r.seen]
    [] r.op = "archive" -> r.seen # "archived"
    [] r.op \in {"add", "remove"} ->
         assert_case_mutable(r.seen) /\ (r.actor = Owner \/ r.actor \in Admin)
    [] r.op = "write" -> assert_case_mutable(r.seen)

Busy == {t \in Tab : tab[t].pc # "idle"}

----------------------------------------------------------------------------
\* get_case_or_404 loads the case for an account that may access it.
get_case(t, op, actor, edit, to, who) ==
  /\ tab[t].pc = "idle" /\ MayAccess(actor)
  /\ tab' = [s \in Tab |->
       IF s = t
       THEN [pc |-> "loaded", op |-> op, actor |-> actor, seen |-> caseStatus,
             edit |-> edit, to |-> to, who |-> who, alone |-> Busy = {}]
       ELSE IF tab[s].pc = "idle" THEN tab[s] ELSE [tab[s] EXCEPT !.alone = FALSE]]
  /\ UNCHANGED <<caseStatus, content, members>>

\* The refusals, before anything is written; of a member route also the look
\* for the member's row (409 or 404).
CheckCase(t) ==
  /\ tab[t].pc = "loaded"
  /\ LET r == tab[t] IN
     tab' = [tab EXCEPT ![t] =
       IF /\ Admissible(r)
          /\ r.op = "add" => r.who \notin members
          /\ r.op = "remove" => r.who \in members
       THEN [r EXCEPT !.pc = "checked"] ELSE TabIdle]
  /\ UNCHANGED <<caseStatus, content, members>>

\* The flush and the COMMIT: only changed columns are written, and the primary
\* key of case_members refuses a second row of one member (the request fails).
CommitCase(t) ==
  /\ tab[t].pc = "checked"
  /\ LET r == tab[t] IN
     /\ caseStatus' = CASE r.op = "archive" -> "archived"
                        [] r.op = "patch" /\ r.to # r.seen -> r.to
                        [] OTHER -> caseStatus
     /\ content' = IF r.op = "write" \/ (r.op = "patch" /\ r.edit)
                   THEN ~content ELSE content
     /\ members' = CASE r.op = "add" -> members \cup {r.who}
                     [] r.op = "remove" -> members \ {r.who}
                     [] OTHER -> members
  /\ tab' = [tab EXCEPT ![t] = TabIdle]

CasesNext ==
  \/ \E t \in Tab, actor \in Person :
       \/ \E edit \in BOOLEAN, to \in CaseStatus :
            get_case(t, "patch", actor, edit, to, actor)
       \/ \E op \in {"archive", "write"} :
            get_case(t, op, actor, FALSE, caseStatus, actor)
       \/ \E op \in {"add", "remove"}, who \in Person :
            get_case(t, op, actor, FALSE, caseStatus, who)
  \/ \E t \in Tab : CheckCase(t) \/ CommitCase(t)

CasesSpec == CasesInit /\ [][CasesNext]_caseVars

----------------------------------------------------------------------------
\* Every variable has its type.
CasesTypeOK ==
  /\ caseStatus \in CaseStatus /\ content \in BOOLEAN /\ members \subseteq Person
  /\ tab \in [Tab -> {TabIdle} \cup CaseRequest]

\* Neither the content nor the members of a closed or archived case change, and
\* an archived case stays archived, as far as requests do not overlap
\* (assert_case_mutable, update_case): a request that loaded the case before it
\* was closed or archived still writes, and may even reopen an archived case.
ReadOnlyCaseIsSealed ==
  [][\/ caseStatus \in READ_ONLY_CASE_STATUSES
          /\ (content' # content \/ members' # members)
     \/ caseStatus = "archived" /\ caseStatus' # "archived"
     => \E t \in Busy : tab'[t] = TabIdle /\ ~tab[t].alone]_caseVars
=============================================================================
