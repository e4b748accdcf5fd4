----------------------------- MODULE Organization -----------------------------
(***************************************************************************)
(* One tenant and its people (api/v1/organizations.py, api/deps.py,        *)
(* api/v1/privacy.py, services/quotas.py): members and their roles, the    *)
(* plan and its limits, custom retention, deletion of the organization and *)
(* of an account.                                                          *)
(*                                                                         *)
(* Every request is one READ COMMITTED transaction that checks with a few  *)
(* SELECTs and writes at the end; none of them takes a lock before it      *)
(* writes.  One action per statement whose result can be stale when the    *)
(* request writes.                                                         *)
(***************************************************************************)
EXTENDS Naturals, FiniteSets

CONSTANTS
  Users,     \* accounts
  Workers,   \* threads that serve requests, one transaction at a time each
  Nobody,    \* no account
  MaxRows    \* bound: memberships ever created

ASSUME OrganizationAssumption ==
  /\ IsFiniteSet(Users)
  /\ Nobody \notin Users
  /\ MaxRows \in Nat

VARIABLES
  (* committed rows *)
  org,         \* "none" before it is created, "live", "gone"
  plan,        \* organizations.plan
  retention,   \* organizations.document_retention_days IS NOT NULL
  role,        \* memberships.role of each user, "none" without a row
  row,         \* memberships.id of each user's row
  nextRow,     \* id of the next membership
  active,      \* users.deleted_at IS NULL
  (* transactions in progress *)
  pc,          \* the statement each worker executes next
  me,          \* user.id of its request
  ctx,         \* what get_org_context loaded
  arg,         \* what the request asks for
  read         \* id of the membership it loaded

membership == <<role, row, nextRow>>
rows == <<org, plan, retention, membership, active>>
session == <<me, ctx, arg, read>>
vars == <<rows, pc, session>>

Plans == {"essentiel", "pro", "cabinet"}
\* "auditor" manages no more than "viewer" does.
Roles == {"viewer", "admin", "owner"}
level == [viewer |-> 1, admin |-> 3, owner |-> 4]

Members == {u \in Users : role[u] # "none"}
Owners == {u \in Users : role[u] = "owner"}

\* PLAN_LIMITS: max_members, none for "cabinet".
Exceeds(n, p) ==
  \/ p = "essentiel" /\ n > 1
  \/ p = "pro" /\ n > 3

\* SQLAlchemy's UPDATE names a column only if the attribute differs from the
\* value the session loaded.
Written(new, loaded, current) == IF new = loaded THEN current ELSE new

Context == [role: Roles \union {"none"}, plan: Plans, retention: BOOLEAN]
NoContext == [role |-> "none", plan |-> "essentiel", retention |-> FALSE]
Args == [user: Users \union {Nobody}, role: Roles, plan: Plans, retention: BOOLEAN]
NoArgs == [user |-> Nobody, role |-> "viewer", plan |-> "essentiel", retention |-> FALSE]
Steps == {"idle", "add_quota", "add_target", "add_insert",
          "remove_read", "remove_check", "remove_commit",
          "plan_count", "plan_commit", "retention_commit",
          "delete_check", "delete_commit", "account_check", "account_commit"}

Goto(w, step) == pc' = [pc EXCEPT ![w] = step]
Finish(w) ==
  /\ Goto(w, "idle")
  /\ me' = [me EXCEPT ![w] = Nobody]
  /\ ctx' = [ctx EXCEPT ![w] = NoContext]
  /\ arg' = [arg EXCEPT ![w] = NoArgs]
  /\ read' = [read EXCEPT ![w] = 0]
Rollback(w) == Finish(w) /\ UNCHANGED rows
\* A check either ends the request or leads to its next statement.
Check(w, ok, step) ==
  IF ok THEN Goto(w, step) /\ UNCHANGED <<rows, session>> ELSE Rollback(w)

(***************************************************************************)
(* get_current_user, get_org_context, require_role                         *)
(***************************************************************************)
Enter(w, u, minimum, step) ==
  /\ pc[w] = "idle"
  /\ org = "live" /\ active[u] /\ role[u] # "none"
  /\ level[role[u]] >= level[minimum]
  /\ Goto(w, step)
  /\ me' = [me EXCEPT ![w] = u]
  /\ ctx' = [ctx EXCEPT ![w] = [role |-> role[u], plan |-> plan, retention |-> retention]]
  /\ UNCHANGED <<rows, read>>

Ask(w, field, value) == arg' = [arg EXCEPT ![w][field] = value]

(***************************************************************************)
(* create_organization                                                     *)
(***************************************************************************)
Create(w, u, p) ==
  /\ pc[w] = "idle"
  /\ org = "none" /\ active[u] /\ nextRow <= MaxRows
  /\ org' = "live"
  /\ plan' = p
  /\ role' = [role EXCEPT ![u] = "owner"]
  /\ row' = [row EXCEPT ![u] = nextRow]
  /\ nextRow' = nextRow + 1
  /\ UNCHANGED <<retention, active, pc, session>>

(***************************************************************************)
(* add_member                                                              *)
(***************************************************************************)
AddLoad(w, u, t, r) ==
  /\ r = "owner" => role[u] = "owner"
  /\ Enter(w, u, "admin", "add_quota")
  /\ arg' = [arg EXCEPT ![w].user = t, ![w].role = r]

\* Variant: the limit of the plan is not checked.
AddUnlimited(w) == pc[w] = "add_quota" /\ Check(w, TRUE, "add_target")

\* member_quota_remaining counts the rows against the plan loaded before.
AddQuota(w) ==
  /\ pc[w] = "add_quota"
  /\ Check(w, ~Exceeds(Cardinality(Members) + 1, ctx[w].plan), "add_target")

\* The address of a deleted account is anonymised: 404.
AddTarget(w) ==
  /\ pc[w] = "add_target"
  /\ Check(w, active[arg[w].user], "add_insert")

\* Variant: no foreign key from memberships to organizations.
AddUnreferenced(w) ==
  LET t == arg[w].user IN
  /\ pc[w] = "add_insert"
  /\ role[t] = "none" /\ nextRow <= MaxRows
  /\ role' = [role EXCEPT ![t] = arg[w].role]
  /\ row' = [row EXCEPT ![t] = nextRow]
  /\ nextRow' = nextRow + 1
  /\ Finish(w)
  /\ UNCHANGED <<org, plan, retention, active>>

\* A user who is a member already is refused, by the SELECT (409) or by
\* uq_membership; an organization deleted since, by the foreign key.
AddInsert(w) ==
  LET t == arg[w].user IN
  /\ pc[w] = "add_insert"
  /\ IF org = "live" /\ role[t] = "none"
       THEN /\ nextRow <= MaxRows
            /\ role' = [role EXCEPT ![t] = arg[w].role]
            /\ row' = [row EXCEPT ![t] = nextRow]
            /\ nextRow' = nextRow + 1
            /\ Finish(w)
            /\ UNCHANGED <<org, plan, retention, active>>
       ELSE Rollback(w)

(***************************************************************************)
(* remove_member                                                           *)
(***************************************************************************)
RemoveLoad(w, u, t) ==
  /\ Enter(w, u, "admin", "remove_read")
  /\ Ask(w, "user", t)

\* An owner is removed by an owner, and only if another one remains.
RemoveRead(w) ==
  LET t == arg[w].user IN
  /\ pc[w] = "remove_read"
  /\ IF role[t] = "none" \/ (role[t] = "owner" /\ ctx[w].role # "owner")
       THEN Rollback(w)
       ELSE /\ read' = [read EXCEPT ![w] = row[t]]
            /\ Goto(w, IF role[t] = "owner" THEN "remove_check" ELSE "remove_commit")
            /\ UNCHANGED <<rows, me, ctx, arg>>

\* Variant: the owner who asks counts as one who remains.
RemoveAnyOwner(w) ==
  /\ pc[w] = "remove_check"
  /\ Check(w, Owners # {}, "remove_commit")

RemoveCheck(w) ==
  /\ pc[w] = "remove_check"
  /\ Check(w, Owners \ {arg[w].user} # {}, "remove_commit")

\* Variant: DELETE FROM memberships WHERE organization_id AND user_id.
RemoveByUser(w) ==
  LET t == arg[w].user IN
  /\ pc[w] = "remove_commit"
  /\ role' = [role EXCEPT ![t] = "none"]
  /\ row' = [row EXCEPT ![t] = 0]
  /\ Finish(w)
  /\ UNCHANGED <<org, plan, retention, nextRow, active>>

\* DELETE FROM memberships WHERE id: no row, no effect.
RemoveCommit(w) ==
  LET t == arg[w].user IN
  /\ pc[w] = "remove_commit"
  /\ role' = IF row[t] = read[w] THEN [role EXCEPT ![t] = "none"] ELSE role
  /\ row' = IF row[t] = read[w] THEN [row EXCEPT ![t] = 0] ELSE row
  /\ Finish(w)
  /\ UNCHANGED <<org, plan, retention, nextRow, active>>

(***************************************************************************)
(* update_plan, update_retention                                           *)
(***************************************************************************)
PlanLoad(w, u, p) ==
  /\ Enter(w, u, "owner", "plan_count")
  /\ Ask(w, "plan", p)

PlanCount(w) ==
  /\ pc[w] = "plan_count"
  /\ Check(w, ~Exceeds(Cardinality(Members), arg[w].plan), "plan_commit")

\* Leaving "cabinet" resets the custom retention.
PlanCommit(w) ==
  LET p == arg[w].plan IN
  /\ pc[w] = "plan_commit"
  /\ IF org = "live"
       THEN /\ plan' = Written(p, ctx[w].plan, plan)
            /\ retention' = IF p = "cabinet" THEN retention
                            ELSE Written(FALSE, ctx[w].retention, retention)
            /\ Finish(w)
            /\ UNCHANGED <<org, membership, active>>
       ELSE Rollback(w)

\* 403 unless the plan loaded is "cabinet".
RetentionLoad(w, u, d) ==
  /\ plan = "cabinet"
  /\ Enter(w, u, "owner", "retention_commit")
  /\ Ask(w, "retention", d)

\* A custom retention may replace another one, of more days or of fewer.
RetentionCommit(w) ==
  /\ pc[w] = "retention_commit"
  /\ IF org = "live"
       THEN /\ retention' \in IF arg[w].retention /\ ctx[w].retention
                               THEN {TRUE, retention}
                               ELSE {Written(arg[w].retention, ctx[w].retention, retention)}
            /\ Finish(w)
            /\ UNCHANGED <<org, plan, membership, active>>
       ELSE Rollback(w)

(***************************************************************************)
(* delete_organization, delete_my_account                                  *)
(***************************************************************************)
DeleteLoad(w, u) ==
  /\ Enter(w, u, "owner", "delete_check")
  /\ UNCHANGED arg

\* Variant: an owner deletes the organization whoever belongs to it.
DeleteAnyway(w) == pc[w] = "delete_check" /\ Check(w, TRUE, "delete_commit")

\* Only for the last member.
DeleteCheck(w) ==
  /\ pc[w] = "delete_check"
  /\ Check(w, Members \subseteq {me[w]}, "delete_commit")

\* The memberships go with the organization.
DeleteCommit(w) ==
  /\ pc[w] = "delete_commit"
  /\ org' = "gone"
  /\ role' = [u \in Users |-> "none"]
  /\ row' = [u \in Users |-> 0]
  /\ Finish(w)
  /\ UNCHANGED <<plan, retention, nextRow, active>>

AccountLoad(w, u) ==
  /\ pc[w] = "idle" /\ active[u]
  /\ Goto(w, "account_check")
  /\ me' = [me EXCEPT ![w] = u]
  /\ UNCHANGED <<rows, ctx, arg, read>>

\* Variant: an owner may delete an account that owns an organization.
AccountAnyway(w) == pc[w] = "account_check" /\ Check(w, TRUE, "account_commit")

\* 409 for the owner of an organization.
AccountCheck(w) ==
  /\ pc[w] = "account_check"
  /\ Check(w, role[me[w]] # "owner", "account_commit")

\* The account is anonymised, its memberships are left alone.
AccountCommit(w) ==
  /\ pc[w] = "account_commit"
  /\ active' = [active EXCEPT ![me[w]] = FALSE]
  /\ Finish(w)
  /\ UNCHANGED <<org, plan, retention, membership>>

-----------------------------------------------------------------------------
Init ==
  /\ org = "none" /\ plan = "essentiel" /\ retention = FALSE
  /\ role = [u \in Users |-> "none"]
  /\ row = [u \in Users |-> 0]
  /\ nextRow = 1
  /\ active = [u \in Users |-> TRUE]
  /\ pc = [w \in Workers |-> "idle"]
  /\ me = [w \in Workers |-> Nobody]
  /\ ctx = [w \in Workers |-> NoContext]
  /\ arg = [w \in Workers |-> NoArgs]
  /\ read = [w \in Workers |-> 0]

Request(w, u) ==
  \/ \E t \in Users : RemoveLoad(w, u, t) \/ \E r \in Roles : AddLoad(w, u, t, r)
  \/ \E p \in Plans : PlanLoad(w, u, p)
  \/ \E d \in BOOLEAN : RetentionLoad(w, u, d)
  \/ DeleteLoad(w, u)
  \/ AccountLoad(w, u)

Step(w) ==
  \/ AddQuota(w) \/ AddTarget(w) \/ AddInsert(w)
  \/ RemoveRead(w) \/ RemoveCheck(w) \/ RemoveCommit(w)
  \/ PlanCount(w) \/ PlanCommit(w) \/ RetentionCommit(w)
  \/ DeleteCheck(w) \/ DeleteCommit(w) \/ AccountCheck(w) \/ AccountCommit(w)

\* The process or its connection is lost, or the handler raises.
Abort(w) == pc[w] # "idle" /\ Rollback(w)

Next ==
  \E w \in Workers :
    \/ \E u \in Users, p \in Plans : Create(w, u, p)
    \/ \E u \in Users : Request(w, u)
    \/ Step(w) \/ Abort(w)

Spec == Init /\ [][Next]_vars

(***************************************************************************)
(* Properties                                                              *)
(***************************************************************************)
TypeOK ==
  /\ org \in {"none", "live", "gone"}
  /\ plan \in Plans
  /\ retention \in BOOLEAN
  /\ role \in [Users -> Roles \union {"none"}]
  /\ row \in [Users -> Nat]
  /\ nextRow \in Nat \ {0}
  /\ active \in [Users -> BOOLEAN]
  /\ pc \in [Workers -> Steps]
  /\ me \in [Workers -> Users \union {Nobody}]
  /\ ctx \in [Workers -> Context]
  /\ arg \in [Workers -> Args]
  /\ read \in [Workers -> Nat]

\* remove_member: "Impossible de retirer le dernier owner de l'organisation."
HasOwner == org = "live" => Owners # {}

\* services/quotas.py: the number of members is limited by the plan, whether
\* members join or the plan changes.
WithinQuota == ~Exceeds(Cardinality(Members), plan)

\* update_plan: leaving "cabinet" with a custom retention "laisserait une purge
\* automatique active en silence".
RetentionOnCabinet == retention => plan = "cabinet"

\* delete_my_account: the owner of an organization keeps an account.
OwnersActive == \A u \in Owners : active[u]

\* delete_organization: "la supprimer couperait sinon l'acces d'autres personnes
\* sans les prevenir".
DeletionCutsNobody ==
  [][org = "live" /\ org' = "gone" => Cardinality(Members) <= 1]_vars

\* delete_organization: whoever still blocks the deletion can be removed from
\* the team page, which list_members fills with the accounts not deleted.
BlockersListed == Members \subseteq {u \in Users : active[u]}

\* No membership outlives its organization, even one inserted by a request that
\* entered before the deletion.
NoOrphanMembership == org # "live" => Members = {}

\* An owner leaves a live organization only by a request of an owner, however
\* the membership a request read was replaced before it deletes it.
OwnerEvictedByOwner ==
  [][\A w \in Workers :
       RemoveCommit(w) /\ Owners' # Owners => ctx[w].role = "owner"]_vars
=============================================================================
