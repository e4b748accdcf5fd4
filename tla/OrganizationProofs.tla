--------------------------- MODULE OrganizationProofs ---------------------------
(***************************************************************************)
(* Proofs about Organization, for any set of accounts and of workers and   *)
(* any number of memberships: what holds however requests interleave, and  *)
(* what holds only when they are served one at a time.                     *)
(***************************************************************************)
EXTENDS Organization, FiniteSetTheorems, TLAPS

(***************************************************************************)
(* Types                                                                   *)
(***************************************************************************)
LEMMA FinishType ==
  ASSUME TypeOK, NEW w \in Workers, Finish(w)
  PROVE  /\ pc' \in [Workers -> Steps]
         /\ me' \in [Workers -> Users \union {Nobody}]
         /\ ctx' \in [Workers -> Context]
         /\ arg' \in [Workers -> Args]
         /\ read' \in [Workers -> Nat]
<1>1. NoContext \in Context /\ NoArgs \in Args /\ "idle" \in Steps
  BY DEF NoContext, Context, NoArgs, Args, Roles, Plans, Steps
<1> QED
  BY <1>1 DEF TypeOK, Finish, Goto

LEMMA RollbackType ==
  ASSUME TypeOK, NEW w \in Workers, Rollback(w)
  PROVE  TypeOK'
BY FinishType DEF Rollback, TypeOK, rows, membership

LEMMA PassType ==
  ASSUME TypeOK, NEW w \in Workers, NEW step \in Steps,
         Goto(w, step), UNCHANGED <<rows, session>>
  PROVE  TypeOK'
BY DEF Goto, TypeOK, rows, membership, session

\* What get_org_context loads is a context of a member.
LEMMA EnterType ==
  ASSUME TypeOK, NEW w \in Workers, NEW u \in Users, NEW minimum, NEW step \in Steps,
         Enter(w, u, minimum, step)
  PROVE  /\ pc' \in [Workers -> Steps]
         /\ me' \in [Workers -> Users \union {Nobody}]
         /\ ctx' \in [Workers -> Context]
         /\ UNCHANGED <<rows, read>>
<1>1. [role |-> role[u], plan |-> plan, retention |-> retention] \in Context
  BY DEF TypeOK, Context
<1> QED
  BY <1>1 DEF Enter, Goto, TypeOK

LEMMA StepsMember ==
  \A s \in {"idle", "add_quota", "add_target", "add_insert",
            "remove_read", "remove_check", "remove_commit",
            "plan_count", "plan_commit", "retention_commit",
            "delete_check", "delete_commit", "account_check", "account_commit"} :
    s \in Steps
BY DEF Steps

LEMMA RequestType ==
  ASSUME TypeOK, NEW w \in Workers, NEW u \in Users, Request(w, u)
  PROVE  TypeOK'
<1> USE StepsMember
<1>1. ASSUME NEW t \in Users, NEW r \in Roles, AddLoad(w, u, t, r) PROVE TypeOK'
  <2>1. /\ Enter(w, u, "admin", "add_quota")
        /\ arg' = [arg EXCEPT ![w].user = t, ![w].role = r]
    BY <1>1 DEF AddLoad
  <2>2. arg' \in [Workers -> Args]
    BY <2>1 DEF TypeOK, Args
  <2> QED BY <2>1, <2>2, EnterType DEF TypeOK, rows, membership
<1>2. ASSUME NEW t \in Users, RemoveLoad(w, u, t) PROVE TypeOK'
  <2>1. Enter(w, u, "admin", "remove_read") /\ arg' = [arg EXCEPT ![w].user = t]
    BY <1>2 DEF RemoveLoad, Ask
  <2>2. arg' \in [Workers -> Args]
    BY <2>1 DEF TypeOK, Args
  <2> QED BY <2>1, <2>2, EnterType DEF TypeOK, rows, membership
<1>3. ASSUME NEW p \in Plans, PlanLoad(w, u, p) PROVE TypeOK'
  <2>1. Enter(w, u, "owner", "plan_count") /\ arg' = [arg EXCEPT ![w].plan = p]
    BY <1>3 DEF PlanLoad, Ask
  <2>2. arg' \in [Workers -> Args]
    BY <2>1 DEF TypeOK, Args
  <2> QED BY <2>1, <2>2, EnterType DEF TypeOK, rows, membership
<1>4. ASSUME NEW d \in BOOLEAN, RetentionLoad(w, u, d) PROVE TypeOK'
  <2>1. /\ Enter(w, u, "owner", "retention_commit")
        /\ arg' = [arg EXCEPT ![w].retention = d]
    BY <1>4 DEF RetentionLoad, Ask
  <2>2. arg' \in [Workers -> Args]
    BY <2>1 DEF TypeOK, Args
  <2> QED BY <2>1, <2>2, EnterType DEF TypeOK, rows, membership
<1>5. CASE DeleteLoad(w, u)
  <2>1. Enter(w, u, "owner", "delete_check") /\ UNCHANGED arg
    BY <1>5 DEF DeleteLoad
  <2> QED BY <2>1, EnterType DEF TypeOK, rows, membership
<1>6. CASE AccountLoad(w, u)
  BY <1>6 DEF AccountLoad, Goto, TypeOK, rows, membership
<1> QED
  BY <1>1, <1>2, <1>3, <1>4, <1>5, <1>6 DEF Request

\* A request that names an account names an existing one; the requests about an
\* organization or an account come from somebody.
Targeted == {"add_quota", "add_target", "add_insert",
             "remove_read", "remove_check", "remove_commit"}
Named == {"delete_check", "delete_commit", "account_check", "account_commit"}
NamesOK(w) ==
  /\ pc[w] \in Targeted => arg[w].user \in Users
  /\ pc[w] \in Named => me[w] \in Users

LEMMA StepType ==
  ASSUME TypeOK, NEW w \in Workers, NamesOK(w), Step(w)
  PROVE  TypeOK'
<1> USE StepsMember
<1>1. CASE AddQuota(w) \/ AddTarget(w)
  BY <1>1, RollbackType, PassType DEF AddQuota, AddTarget, Check
<1>2. CASE AddInsert(w)
  <2>1. CASE Rollback(w)
    BY <2>1, RollbackType
  <2>2. CASE /\ role' = [role EXCEPT ![arg[w].user] = arg[w].role]
             /\ row' = [row EXCEPT ![arg[w].user] = nextRow]
             /\ nextRow' = nextRow + 1
             /\ Finish(w)
             /\ UNCHANGED <<org, plan, retention, active>>
    <3>1. arg[w].role \in Roles
      BY DEF TypeOK, Args
    <3>2. role' \in [Users -> Roles \union {"none"}]
      BY <2>2, <3>1 DEF TypeOK
    <3>3. nextRow' \in Nat \ {0}
      BY <2>2 DEF TypeOK
    <3>4. row' \in [Users -> Nat]
      BY <2>2 DEF TypeOK
    <3> QED BY <2>2, <3>2, <3>3, <3>4, FinishType DEF TypeOK
  <2> QED BY <1>2, <2>1, <2>2 DEF AddInsert
<1>3. CASE RemoveRead(w)
  <2>1. CASE Rollback(w)
    BY <2>1, RollbackType
  <2>2. CASE /\ read' = [read EXCEPT ![w] = row[arg[w].user]]
             /\ role[arg[w].user] # "none"
             /\ Goto(w, IF role[arg[w].user] = "owner" THEN "remove_check" ELSE "remove_commit")
             /\ UNCHANGED <<rows, me, ctx, arg>>
    <3>1. pc' \in [Workers -> Steps]
      BY <2>2 DEF Goto, TypeOK
    <3>2. read' \in [Workers -> Nat]
      BY <1>3, <2>2 DEF TypeOK, RemoveRead, NamesOK, Targeted
    <3> QED BY <2>2, <3>1, <3>2 DEF TypeOK, rows, membership
  <2> QED BY <1>3, <2>1, <2>2 DEF RemoveRead
<1>4. CASE RemoveCheck(w)
  BY <1>4, RollbackType, PassType DEF RemoveCheck, Check
<1>5. CASE RemoveCommit(w)
  BY <1>5, FinishType DEF RemoveCommit, TypeOK
<1>6. CASE PlanCount(w)
  BY <1>6, RollbackType, PassType DEF PlanCount, Check
<1>7. CASE PlanCommit(w)
  <2>1. arg[w].plan \in Plans /\ ctx[w].plan \in Plans /\ ctx[w].retention \in BOOLEAN
    BY DEF TypeOK, Args, Context
  <2> QED BY <1>7, <2>1, RollbackType, FinishType
          DEF PlanCommit, TypeOK, Written, membership
<1>8. CASE RetentionCommit(w)
  <2>1. arg[w].retention \in BOOLEAN /\ ctx[w].retention \in BOOLEAN
    BY DEF TypeOK, Args, Context
  <2> QED BY <1>8, <2>1, RollbackType, FinishType
          DEF RetentionCommit, TypeOK, Written, membership
<1>9. CASE DeleteCheck(w) \/ AccountCheck(w)
  BY <1>9, RollbackType, PassType DEF DeleteCheck, AccountCheck, Check
<1>10. CASE DeleteCommit(w)
  BY <1>10, FinishType DEF DeleteCommit, TypeOK
<1>11. CASE AccountCommit(w)
  BY <1>11, FinishType DEF AccountCommit, TypeOK, membership
<1> QED
  BY <1>1, <1>2, <1>3, <1>4, <1>5, <1>6, <1>7, <1>8, <1>9, <1>10, <1>11 DEF Step

LEMMA CreateType ==
  ASSUME TypeOK, NEW w \in Workers, NEW u \in Users, NEW p \in Plans, Create(w, u, p)
  PROVE  TypeOK'
BY DEF Create, TypeOK, session, Roles

LEMMA NamesInductive ==
  ASSUME TypeOK, NEW w \in Workers, NamesOK(w), [Next]_vars
  PROVE  NamesOK(w)'
<1> USE DEF NamesOK, Targeted, Named
<1>1. ASSUME NEW v \in Workers, NEW u \in Users, NEW p \in Plans, Create(v, u, p)
      PROVE  NamesOK(w)'
  BY <1>1 DEF Create, session
<1>2. ASSUME NEW v \in Workers, Finish(v) PROVE NamesOK(w)'
  BY <1>2 DEF Finish, Goto, TypeOK
<1>3. ASSUME NEW v \in Workers, NEW u \in Users, Request(v, u) PROVE NamesOK(w)'
  <2>1. CASE w # v
    BY <1>3, <2>1 DEF Request, AddLoad, RemoveLoad, PlanLoad, RetentionLoad, DeleteLoad,
       AccountLoad, Enter, Ask, Goto, TypeOK
  <2>2. CASE w = v
    <3>1. ASSUME NEW t \in Users, NEW r \in Roles, AddLoad(w, u, t, r) PROVE NamesOK(w)'
      BY <3>1 DEF AddLoad, Enter, Goto, TypeOK, Args
    <3>2. ASSUME NEW t \in Users, RemoveLoad(w, u, t) PROVE NamesOK(w)'
      BY <3>2 DEF RemoveLoad, Enter, Ask, Goto, TypeOK, Args
    <3>3. ASSUME NEW p \in Plans, PlanLoad(w, u, p) PROVE NamesOK(w)'
      BY <3>3 DEF PlanLoad, Enter, Goto, TypeOK
    <3>4. ASSUME NEW d \in BOOLEAN, RetentionLoad(w, u, d) PROVE NamesOK(w)'
      BY <3>4 DEF RetentionLoad, Enter, Goto, TypeOK
    <3>5. CASE DeleteLoad(w, u) \/ AccountLoad(w, u)
      BY <3>5 DEF DeleteLoad, AccountLoad, Enter, Goto, TypeOK
    <3> QED BY <1>3, <2>2, <3>1, <3>2, <3>3, <3>4, <3>5 DEF Request
  <2> QED BY <2>1, <2>2
<1>4. ASSUME NEW v \in Workers, Step(v), ~Finish(v) PROVE NamesOK(w)'
  <2>1. UNCHANGED <<me, arg>>
    BY <1>4 DEF Step, AddQuota, AddTarget, AddInsert, RemoveRead, RemoveCheck,
       RemoveCommit, PlanCount, PlanCommit, RetentionCommit, DeleteCheck,
       DeleteCommit, AccountCheck, AccountCommit, Check, Rollback, session
  <2>2. pc' = [pc EXCEPT ![v] = pc'[v]]
    BY <1>4 DEF Step, AddQuota, AddTarget, AddInsert, RemoveRead, RemoveCheck,
       RemoveCommit, PlanCount, PlanCommit, RetentionCommit, DeleteCheck,
       DeleteCommit, AccountCheck, AccountCommit, Check, Rollback, Goto, TypeOK
  <2>3. /\ pc'[v] \in Targeted => pc[v] \in Targeted
        /\ pc'[v] \in Named => pc[v] \in Named
    BY <1>4 DEF Step, AddQuota, AddTarget, AddInsert, RemoveRead, RemoveCheck,
       RemoveCommit, PlanCount, PlanCommit, RetentionCommit, DeleteCheck,
       DeleteCommit, AccountCheck, AccountCommit, Check, Rollback, Goto, TypeOK
  <2>4. pc'[w] = pc[w] \/ w = v
    BY <2>2 DEF TypeOK
  <2> QED BY <2>1, <2>3, <2>4
<1>5. CASE UNCHANGED vars
  BY <1>5 DEF vars, session
<1>6. ASSUME NEW v \in Workers, Abort(v) PROVE NamesOK(w)'
  BY <1>2, <1>6 DEF Abort, Rollback
<1> QED
  BY <1>1, <1>2, <1>3, <1>4, <1>5, <1>6 DEF Next

Typed == TypeOK /\ \A w \in Workers : NamesOK(w)

LEMMA TypedInductive == Typed /\ [Next]_vars => Typed'
<1> SUFFICES ASSUME Typed, [Next]_vars PROVE Typed'
  OBVIOUS
<1>1. TypeOK'
  <2>1. ASSUME NEW w \in Workers, Abort(w) PROVE TypeOK'
    BY <2>1, RollbackType DEF Abort, Typed
  <2>2. CASE UNCHANGED vars
    BY <2>2 DEF Typed, TypeOK, vars, rows, membership, session
  <2> QED
    BY <2>1, <2>2, CreateType, RequestType, StepType DEF Next, Typed
<1>2. \A w \in Workers : NamesOK(w)'
  BY NamesInductive DEF Typed
<1> QED
  BY <1>1, <1>2 DEF Typed

LEMMA TypedInit == Init => Typed
<1> SUFFICES ASSUME Init PROVE Typed
  OBVIOUS
<1>1. NoContext \in Context
  BY DEF NoContext, Context, Plans, Roles
<1>2. NoArgs \in Args
  BY DEF NoArgs, Args, Plans, Roles
<1>3. TypeOK
  <2>1. /\ org \in {"none", "live", "gone"} /\ plan \in Plans
        /\ nextRow \in Nat \ {0}
    BY DEF Init, Plans
  <2>0. retention \in BOOLEAN
    BY Zenon DEF Init
  <2>2. /\ role \in [Users -> Roles \union {"none"}]
        /\ row \in [Users -> Nat]
        /\ active \in [Users -> BOOLEAN]
    BY DEF Init
  <2>3. /\ pc \in [Workers -> Steps]
        /\ me \in [Workers -> Users \union {Nobody}]
        /\ read \in [Workers -> Nat]
    BY DEF Init, Steps
  <2>4. ctx \in [Workers -> Context] /\ arg \in [Workers -> Args]
    BY <1>1, <1>2 DEF Init
  <2> QED BY <2>0, <2>1, <2>2, <2>3, <2>4 DEF TypeOK
<1>4. \A w \in Workers : NamesOK(w)
  BY DEF Init, NamesOK, Targeted, Named
<1> QED
  BY <1>3, <1>4 DEF Typed

LEMMA TypedInvariant == Spec => []Typed
BY TypedInit, TypedInductive, PTL DEF Spec

\* Every variable keeps its type.
THEOREM TypeCorrect == Spec => []TypeOK
<1>1. Typed => TypeOK
  BY DEF Typed
<1> QED
  BY <1>1, TypedInvariant, PTL

(***************************************************************************)
(* However requests interleave                                             *)
(*                                                                         *)
(* A row of memberships never changes and its id is never given again, so  *)
(* what a request read of it stays true of the row it deletes.             *)
(***************************************************************************)
RowInv ==
  /\ \A u \in Users : row[u] < nextRow
  /\ \A u \in Users : role[u] = "none" <=> row[u] = 0

RemovalOK(w) ==
  /\ pc[w] \in {"remove_check", "remove_commit"} => read[w] \in 1 .. (nextRow - 1)
  /\ pc[w] = "remove_check" => ctx[w].role = "owner"
  /\ /\ pc[w] = "remove_commit"
     /\ row[arg[w].user] = read[w]
     /\ role[arg[w].user] = "owner"
     => ctx[w].role = "owner"

IInv == Typed /\ NoOrphanMembership /\ RowInv /\ \A w \in Workers : RemovalOK(w)

Act(w) ==
  \/ \E u \in Users, p \in Plans : Create(w, u, p)
  \/ \E u \in Users : Request(w, u)
  \/ Step(w) \/ Abort(w)

LEMMA NextAct == Next <=> \E w \in Workers : Act(w)
BY DEF Next, Act

\* What a step by another worker leaves alone.
Same(w) ==
  /\ pc'[w] = pc[w] /\ me'[w] = me[w] /\ ctx'[w] = ctx[w]
  /\ arg'[w] = arg[w] /\ read'[w] = read[w]

\* Memberships are kept, deleted or inserted under a new id.
MembershipStep ==
  /\ nextRow' \in {nextRow, nextRow + 1}
  /\ \A u \in Users :
       \/ row'[u] = row[u] /\ role'[u] = role[u]
       \/ row'[u] = 0
       \/ row'[u] = nextRow

LEMMA FinishSame ==
  ASSUME TypeOK, NEW w \in Workers, NEW v \in Workers, v # w, Finish(w)
  PROVE  Same(v)
BY DEF Finish, Goto, Same, TypeOK

LEMMA OthersSame ==
  ASSUME TypeOK, NEW w \in Workers, NEW v \in Workers, v # w, Act(w)
  PROVE  Same(v)
<1>1. ASSUME NEW u \in Users, NEW p \in Plans, Create(w, u, p) PROVE Same(v)
  BY <1>1 DEF Create, session, Same
<1>2. ASSUME NEW u \in Users, Request(w, u) PROVE Same(v)
  BY <1>2 DEF Request, AddLoad, RemoveLoad, PlanLoad, RetentionLoad, DeleteLoad,
     AccountLoad, Enter, Ask, Goto, TypeOK, Same
<1>3. CASE Abort(w)
  BY <1>3, FinishSame DEF Abort, Rollback
<1>4. ASSUME Step(w), ~Finish(w) PROVE Same(v)
  BY <1>4 DEF Step, AddQuota, AddTarget, AddInsert, RemoveRead, RemoveCheck,
     RemoveCommit, PlanCount, PlanCommit, RetentionCommit, DeleteCheck,
     DeleteCommit, AccountCheck, AccountCommit, Check, Rollback, Goto, TypeOK,
     session, Same
<1> QED
  BY <1>1, <1>2, <1>3, <1>4, FinishSame DEF Act

\* Three statements and the creation change the memberships.
LEMMA Quiet ==
  ASSUME NEW w \in Workers, Act(w),
         ~\E u \in Users, p \in Plans : Create(w, u, p),
         ~AddInsert(w), ~RemoveCommit(w), ~DeleteCommit(w)
  PROVE  UNCHANGED <<org, membership>>
<1>1. ASSUME NEW u \in Users, Request(w, u) PROVE UNCHANGED <<org, membership>>
  BY <1>1 DEF Request, AddLoad, RemoveLoad, PlanLoad, RetentionLoad, DeleteLoad,
     AccountLoad, Enter, rows
<1>2. CASE Abort(w)
  BY <1>2 DEF Abort, Rollback, rows
<1>3. CASE Step(w)
  BY <1>3 DEF Step, AddQuota, AddTarget, RemoveRead, RemoveCheck, PlanCount,
     PlanCommit, RetentionCommit, DeleteCheck, AccountCheck, AccountCommit,
     Check, Rollback, rows
<1> QED
  BY <1>1, <1>2, <1>3 DEF Act

LEMMA MembershipEffects ==
  ASSUME IInv, NEW w \in Workers, Act(w)
  PROVE  MembershipStep /\ RowInv' /\ NoOrphanMembership'
<1> USE DEF IInv, Typed, TypeOK, MembershipStep, RowInv, NoOrphanMembership, Members
<1>1. ASSUME NEW u \in Users, NEW p \in Plans, Create(w, u, p)
      PROVE  MembershipStep /\ RowInv' /\ NoOrphanMembership'
  BY <1>1 DEF Create
<1>2. CASE AddInsert(w)
  <2>1. CASE UNCHANGED rows
    BY <2>1 DEF rows, membership
  <2>2. CASE /\ org = "live" /\ role[arg[w].user] = "none"
             /\ role' = [role EXCEPT ![arg[w].user] = arg[w].role]
             /\ row' = [row EXCEPT ![arg[w].user] = nextRow]
             /\ nextRow' = nextRow + 1
             /\ UNCHANGED org
    <3>1. arg[w].user \in Users /\ arg[w].role # "none"
      BY <1>2 DEF AddInsert, NamesOK, Targeted, Args, Roles
    <3> QED BY <2>2, <3>1
  <2> QED BY <1>2, <2>1, <2>2 DEF AddInsert, Rollback
<1>3. CASE RemoveCommit(w)
  <2>1. PICK t \in Users :
          /\ role' = IF row[t] = read[w] THEN [role EXCEPT ![t] = "none"] ELSE role
          /\ row' = IF row[t] = read[w] THEN [row EXCEPT ![t] = 0] ELSE row
    BY <1>3 DEF RemoveCommit, NamesOK, Targeted
  <2>2. UNCHANGED <<org, nextRow>>
    BY <1>3 DEF RemoveCommit
  <2> QED BY <2>1, <2>2
<1>4. CASE DeleteCommit(w)
  BY <1>4 DEF DeleteCommit
<1>5. CASE UNCHANGED <<org, membership>>
  BY <1>5 DEF membership
<1> QED
  BY <1>1, <1>2, <1>3, <1>4, <1>5, Quiet DEF Act

\* A request waiting between two statements keeps what it knows.
LEMMA Untouched ==
  ASSUME IInv, NEW v \in Workers, MembershipStep, Same(v)
  PROVE  RemovalOK(v)'
<1>1. CASE pc[v] = "remove_commit"
  <2>1. arg[v].user \in Users /\ read[v] \in 1 .. (nextRow - 1) /\ nextRow \in Nat
    BY <1>1 DEF IInv, Typed, TypeOK, NamesOK, Targeted, RemovalOK
  <2>2. PICK t \in Users : t = arg[v].user
    BY <2>1
  <2>3. row'[t] = read[v] => row'[t] = row[t] /\ role'[t] = role[t]
    BY <2>1, <2>2 DEF MembershipStep
  <2> QED BY <1>1, <2>1, <2>2, <2>3 DEF IInv, RemovalOK, Same, MembershipStep
<1>2. CASE pc[v] # "remove_commit"
  BY <1>2 DEF IInv, Typed, TypeOK, RemovalOK, Same, MembershipStep
<1> QED
  BY <1>1, <1>2

LEMMA ActorRemoval ==
  ASSUME IInv, NEW w \in Workers, Act(w)
  PROVE  RemovalOK(w)'
<1> USE DEF IInv, Typed
<1>1. ASSUME Finish(w) PROVE RemovalOK(w)'
  BY <1>1 DEF Finish, Goto, TypeOK, RemovalOK
<1>2. ASSUME NEW u \in Users, NEW p \in Plans, Create(w, u, p) PROVE RemovalOK(w)'
  <2>1. MembershipStep /\ Same(w)
    BY <1>2, MembershipEffects DEF Act, Create, session, Same
  <2> QED BY <2>1, Untouched
<1>3. ASSUME NEW u \in Users, Request(w, u) PROVE RemovalOK(w)'
  <2>1. pc'[w] \notin {"remove_check", "remove_commit"}
    BY <1>3 DEF Request, AddLoad, RemoveLoad, PlanLoad, RetentionLoad, DeleteLoad,
       AccountLoad, Enter, Goto, TypeOK
  <2> QED BY <2>1 DEF RemovalOK
<1>4. CASE RemoveRead(w)
  <2>1. CASE Rollback(w)
    BY <1>1, <2>1 DEF Rollback
  <2>2. CASE ~Rollback(w)
    <3>1. arg[w].user \in Users
      BY <1>4 DEF RemoveRead, NamesOK, Targeted
    <3>2. PICK t \in Users : t = arg[w].user
      BY <3>1
    <3>3. /\ role[t] # "none"
          /\ role[t] = "owner" => ctx[w].role = "owner"
          /\ read' = [read EXCEPT ![w] = row[t]]
          /\ Goto(w, IF role[t] = "owner" THEN "remove_check" ELSE "remove_commit")
          /\ UNCHANGED <<rows, ctx, arg>>
      BY <1>4, <2>2, <3>2 DEF RemoveRead
    <3>4. row[t] \in 1 .. (nextRow - 1)
      BY <3>3 DEF RowInv, TypeOK
    <3> QED BY <3>2, <3>3, <3>4 DEF RemovalOK, Goto, TypeOK, rows, membership
  <2> QED BY <2>1, <2>2
<1>5. CASE RemoveCheck(w)
  <2>1. CASE Rollback(w)
    BY <1>1, <2>1 DEF Rollback
  <2>2. CASE Goto(w, "remove_commit") /\ UNCHANGED <<rows, session>>
    BY <1>5, <2>2 DEF RemoveCheck, RemovalOK, Goto, TypeOK, rows, membership, session
  <2> QED BY <1>5, <2>1, <2>2 DEF RemoveCheck, Check
<1>6. ASSUME Step(w), ~RemoveRead(w), ~RemoveCheck(w), ~Finish(w) PROVE RemovalOK(w)'
  <2>1. pc'[w] \notin {"remove_check", "remove_commit"}
    BY <1>6 DEF Step, AddQuota, AddTarget, AddInsert, RemoveCommit, PlanCount,
       PlanCommit, RetentionCommit, DeleteCheck, DeleteCommit, AccountCheck,
       AccountCommit, Check, Rollback, Goto, TypeOK
  <2> QED BY <2>1 DEF RemovalOK
<1> QED
  BY <1>1, <1>2, <1>3, <1>4, <1>5, <1>6 DEF Act, Abort, Rollback

LEMMA IInvInductive == IInv /\ [Next]_vars => IInv'
<1> SUFFICES ASSUME IInv, [Next]_vars PROVE IInv'
  OBVIOUS
<1>0. Typed'
  BY TypedInductive DEF IInv
<1>1. ASSUME NEW w \in Workers, Act(w) PROVE IInv'
  <2>1. MembershipStep /\ RowInv' /\ NoOrphanMembership'
    BY <1>1, MembershipEffects
  <2>2. ASSUME NEW v \in Workers PROVE RemovalOK(v)'
    <3>1. CASE v = w
      BY <1>1, <3>1, ActorRemoval
    <3>2. CASE v # w
      BY <1>1, <2>1, <3>2, OthersSame, Untouched DEF IInv, Typed
    <3> QED BY <3>1, <3>2
  <2> QED BY <1>0, <2>1, <2>2 DEF IInv
<1>2. CASE UNCHANGED vars
  BY <1>0, <1>2 DEF IInv, RowInv, NoOrphanMembership, Members, RemovalOK,
     vars, rows, membership, session
<1> QED
  BY <1>1, <1>2, NextAct

LEMMA IInvInit == Init => IInv
<1> SUFFICES ASSUME Init PROVE IInv
  OBVIOUS
<1>1. NoOrphanMembership /\ RowInv
  BY DEF Init, NoOrphanMembership, Members, RowInv
<1>2. \A w \in Workers : RemovalOK(w)
  BY DEF Init, RemovalOK
<1> QED
  BY <1>1, <1>2, TypedInit DEF IInv

LEMMA Invariant == Spec => []IInv
BY IInvInit, IInvInductive, PTL DEF Spec

\* A membership inserted by a request that entered before the organization was
\* deleted never outlives it.
THEOREM MembershipsDeleted == Spec => []NoOrphanMembership
<1>1. IInv => NoOrphanMembership
  BY DEF IInv
<1> QED
  BY <1>1, Invariant, PTL

LEMMA Eviction ==
  ASSUME IInv, NEW w \in Workers, RemoveCommit(w), Owners' # Owners
  PROVE  ctx[w].role = "owner"
<1>1. PICK t \in Users : t = arg[w].user
  BY DEF IInv, Typed, NamesOK, Targeted, RemoveCommit
<1>2. row[t] = read[w] /\ role[t] = "owner"
  BY <1>1 DEF RemoveCommit, Owners, IInv, Typed, TypeOK
<1> QED
  BY <1>1, <1>2 DEF RemoveCommit, IInv, RemovalOK

\* Only the request of an owner removes an owner.
THEOREM OwnersEvictOwners == Spec => OwnerEvictedByOwner
<1>1. IInv /\ [Next]_vars =>
        [\A w \in Workers :
           RemoveCommit(w) /\ Owners' # Owners => ctx[w].role = "owner"]_vars
  BY Eviction
<1> QED
  BY <1>1, Invariant, PTL DEF Spec, OwnerEvictedByOwner

(***************************************************************************)
(* When requests are served one at a time                                  *)
(*                                                                         *)
(* Every check of the code is then still true when the request writes, and *)
(* is enough for what the code promises.                                   *)
(***************************************************************************)
Serial == \A v, w \in Workers : v = w

\* What the checks of the request under way have established.
CheckedOK(w) ==
  /\ pc[w] \in {"add_quota", "add_target", "add_insert"} => ctx[w].plan = plan
  /\ pc[w] \in {"add_target", "add_insert"} => ~Exceeds(Cardinality(Members) + 1, plan)
  /\ pc[w] = "add_insert" => active[arg[w].user]
  /\ pc[w] = "remove_commit" /\ role[arg[w].user] = "owner" =>
       Owners \ {arg[w].user} # {}
  /\ pc[w] \in {"plan_count", "plan_commit"} =>
       ctx[w].plan = plan /\ ctx[w].retention = retention
  /\ pc[w] = "plan_commit" => ~Exceeds(Cardinality(Members), arg[w].plan)
  /\ pc[w] = "retention_commit" => plan = "cabinet"
  /\ pc[w] = "delete_commit" => Members \subseteq {me[w]}
  /\ pc[w] = "account_commit" => role[me[w]] # "owner"

Promises ==
  /\ HasOwner /\ OwnersActive /\ RetentionOnCabinet /\ WithinQuota
  /\ org = "none" => ~retention
SerialInv == IInv /\ Promises /\ \A w \in Workers : CheckedOK(w)

LEMMA FiniteMembers ==
  ASSUME TypeOK
  PROVE  /\ IsFiniteSet(Members)
         /\ Cardinality(Members) \in Nat
BY OrganizationAssumption, FS_Subset, FS_CardinalityType DEF Members

\* A smaller team exceeds no limit that a larger one does not.
LEMMA ExceedsMonotone ==
  ASSUME NEW m \in Nat, NEW n \in Nat, m <= n, NEW p, Exceeds(m, p)
  PROVE  Exceeds(n, p)
BY DEF Exceeds

LEMMA FewerMembers ==
  ASSUME TypeOK, TypeOK', Members' \subseteq Members
  PROVE  \A p : Exceeds(Cardinality(Members'), p) => Exceeds(Cardinality(Members), p)
<1>1. Cardinality(Members') <= Cardinality(Members)
  BY FiniteMembers, FS_Subset
<1>2. Cardinality(Members') \in Nat /\ Cardinality(Members) \in Nat
  <2>1. IsFiniteSet(Members)
    BY FiniteMembers
  <2>2. IsFiniteSet(Members')
    BY <2>1, FS_Subset
  <2> QED BY <2>1, <2>2, FS_CardinalityType
<1> QED
  BY <1>1, <1>2, ExceedsMonotone

\* The rows stay as they are until the last statement of a request.
LEMMA PromisesKept ==
  ASSUME Promises, UNCHANGED rows
  PROVE  Promises'
BY DEF Promises, HasOwner, OwnersActive, RetentionOnCabinet, WithinQuota, Owners,
       Members, rows, membership

LEMMA FinishChecked ==
  ASSUME TypeOK, NEW w \in Workers, Finish(w)
  PROVE  CheckedOK(w)'
BY DEF Finish, Goto, TypeOK, CheckedOK

LEMMA CreateSerial ==
  ASSUME SerialInv, NEW w \in Workers, NEW u \in Users, NEW p \in Plans, Create(w, u, p)
  PROVE  Promises' /\ CheckedOK(w)'
<1> USE DEF SerialInv, IInv, Typed, TypeOK
<1>1. Members' = {u} /\ Owners' = {u}
  BY DEF Create, Members, Owners, NoOrphanMembership
<1>2. Cardinality(Members') = 1
  BY <1>1, FS_Singleton
<1>3. ~Exceeds(Cardinality(Members'), plan')
  BY <1>2 DEF Exceeds
<1>4. Promises'
  BY <1>1, <1>3 DEF Create, Promises, HasOwner, OwnersActive, RetentionOnCabinet,
     WithinQuota, NoOrphanMembership
<1>5. CheckedOK(w)'
  BY DEF Create, CheckedOK
<1> QED
  BY <1>4, <1>5

LEMMA RequestSerial ==
  ASSUME SerialInv, NEW w \in Workers, NEW u \in Users, Request(w, u)
  PROVE  Promises' /\ CheckedOK(w)'
<1>0. TypeOK
  BY DEF SerialInv, IInv, Typed
<1>1. UNCHANGED rows
  BY DEF Request, AddLoad, RemoveLoad, PlanLoad, RetentionLoad, DeleteLoad,
     AccountLoad, Enter
<1>2. ASSUME AccountLoad(w, u) PROVE CheckedOK(w)'
  <2>1. pc'[w] = "account_check"
    BY <1>0, <1>2 DEF AccountLoad, Goto, TypeOK
  <2> QED BY <2>1 DEF CheckedOK
<1>3. ASSUME NEW minimum, NEW step \in {"add_quota", "remove_read", "plan_count", "delete_check"},
             Enter(w, u, minimum, step)
      PROVE  CheckedOK(w)'
  BY <1>0, <1>3 DEF Enter, Goto, CheckedOK, TypeOK, rows
<1>4. ASSUME NEW d \in BOOLEAN, RetentionLoad(w, u, d) PROVE CheckedOK(w)'
  BY <1>0, <1>4 DEF RetentionLoad, Enter, Goto, CheckedOK, TypeOK, rows
<1>5. CheckedOK(w)'
  BY <1>2, <1>3, <1>4 DEF Request, AddLoad, RemoveLoad, PlanLoad, DeleteLoad
<1> QED
  BY <1>1, <1>5, PromisesKept DEF SerialInv

\* A statement that passes its check, and changes no row.
LEMMA CheckSerial ==
  ASSUME SerialInv, NEW w \in Workers,
         \/ AddQuota(w) \/ AddTarget(w) \/ RemoveRead(w) \/ RemoveCheck(w)
         \/ PlanCount(w) \/ DeleteCheck(w) \/ AccountCheck(w)
  PROVE  Promises' /\ CheckedOK(w)'
<1> USE DEF SerialInv, IInv, Typed, TypeOK
<1>1. UNCHANGED rows
  BY DEF AddQuota, AddTarget, RemoveRead, RemoveCheck, PlanCount, DeleteCheck,
     AccountCheck, Check, Rollback
<1>2. Members' = Members /\ Owners' = Owners
  BY <1>1 DEF rows, membership, Members, Owners
<1>3. ASSUME ~Finish(w) PROVE CheckedOK(w)'
  <2>1. CASE AddQuota(w)
    BY <1>2, <1>3, <2>1 DEF AddQuota, Check, Rollback, Goto, CheckedOK, rows, session
  <2>2. CASE AddTarget(w)
    BY <1>2, <1>3, <2>2 DEF AddTarget, Check, Rollback, Goto, CheckedOK, rows, session
  <2>3. CASE RemoveRead(w)
    <3>1. /\ Goto(w, IF role[arg[w].user] = "owner" THEN "remove_check" ELSE "remove_commit")
          /\ UNCHANGED <<rows, arg>>
      BY <1>3, <2>3 DEF RemoveRead, Rollback
    <3> QED BY <3>1 DEF Goto, CheckedOK, rows, membership
  <2>4. CASE RemoveCheck(w)
    BY <1>2, <1>3, <2>4 DEF RemoveCheck, Check, Rollback, Goto, CheckedOK, session
  <2>5. CASE PlanCount(w)
    BY <1>2, <1>3, <2>5 DEF PlanCount, Check, Rollback, Goto, CheckedOK, rows, session
  <2>6. CASE DeleteCheck(w)
    BY <1>2, <1>3, <2>6 DEF DeleteCheck, Check, Rollback, Goto, CheckedOK, session
  <2>7. CASE AccountCheck(w)
    BY <1>3, <2>7 DEF AccountCheck, Check, Rollback, Goto, CheckedOK, rows, membership, session
  <2> QED BY <2>1, <2>2, <2>3, <2>4, <2>5, <2>6, <2>7
<1> QED
  BY <1>1, <1>3, FinishChecked, PromisesKept

LEMMA AddSerial ==
  ASSUME SerialInv, NEW w \in Workers, AddInsert(w)
  PROVE  Promises'
<1> USE DEF SerialInv, IInv, Typed, TypeOK
<1>1. CASE Rollback(w)
  BY <1>1, PromisesKept DEF Rollback
<1>2. CASE ~Rollback(w)
  <2>1. PICK t \in Users : t = arg[w].user
    BY DEF AddInsert, NamesOK, Targeted
  <2>2. /\ role[t] = "none"
        /\ role' = [role EXCEPT ![t] = arg[w].role]
        /\ UNCHANGED <<org, plan, retention, active>>
    BY <1>2, <2>1 DEF AddInsert
  <2>3. arg[w].role \in Roles /\ "none" \notin Roles
    BY DEF Args, Roles
  <2>4. Members' = Members \union {t} /\ t \notin Members
    BY <2>2, <2>3 DEF Members
  <2>5. Cardinality(Members') = Cardinality(Members) + 1
    BY <2>4, FiniteMembers, FS_AddElement
  <2>6. WithinQuota'
    BY <2>2, <2>5 DEF AddInsert, CheckedOK, WithinQuota
  <2>7. OwnersActive' /\ HasOwner'
    BY <2>1, <2>2 DEF AddInsert, CheckedOK, Promises, OwnersActive, HasOwner, Owners
  <2> QED BY <2>2, <2>6, <2>7 DEF Promises, RetentionOnCabinet
<1> QED
  BY <1>1, <1>2

LEMMA RemoveSerial ==
  ASSUME SerialInv, SerialInv => TypeOK', NEW w \in Workers, RemoveCommit(w)
  PROVE  Promises'
<1> USE DEF SerialInv, IInv, Typed, TypeOK
<1>1. PICK t \in Users : t = arg[w].user
  BY DEF RemoveCommit, NamesOK, Targeted
<1>2. /\ role' \in {role, [role EXCEPT ![t] = "none"]}
      /\ UNCHANGED <<org, plan, retention, active>>
  BY <1>1 DEF RemoveCommit
<1>3. Members' \subseteq Members
  BY <1>2 DEF Members
<1>4. WithinQuota'
  BY <1>2, <1>3, FewerMembers DEF Promises, WithinQuota
<1>5. Owners' \subseteq Owners /\ (org = "live" => Owners' # {})
  <2>1. CASE role[t] = "owner"
    BY <1>1, <1>2, <2>1 DEF RemoveCommit, CheckedOK, Owners
  <2>2. CASE role[t] # "owner"
    BY <1>2, <2>2 DEF Owners, Promises, HasOwner
  <2> QED BY <2>1, <2>2
<1> QED
  BY <1>2, <1>4, <1>5 DEF Promises, HasOwner, OwnersActive, RetentionOnCabinet

LEMMA PlanSerial ==
  ASSUME SerialInv, NEW w \in Workers, PlanCommit(w) \/ RetentionCommit(w)
  PROVE  Promises'
<1> USE DEF SerialInv, IInv, Typed, TypeOK
<1>1. CASE Rollback(w)
  BY <1>1, PromisesKept DEF Rollback
<1>2. ASSUME PlanCommit(w), ~Rollback(w) PROVE Promises'
  <2>1. /\ org = "live" /\ org' = org
        /\ plan' = arg[w].plan
        /\ retention' => arg[w].plan = "cabinet"
        /\ UNCHANGED <<membership, active>>
    BY <1>2 DEF PlanCommit, CheckedOK, Written
  <2>2. Members' = Members /\ Owners' = Owners
    BY <2>1 DEF Members, Owners, membership
  <2>3. ~Exceeds(Cardinality(Members), arg[w].plan)
    BY <1>2 DEF PlanCommit, CheckedOK
  <2> QED BY <2>1, <2>2, <2>3 DEF Promises, HasOwner, OwnersActive,
          RetentionOnCabinet, WithinQuota
<1>3. ASSUME RetentionCommit(w), ~Rollback(w) PROVE Promises'
  <2>1. /\ org = "live" /\ org' = org
        /\ plan = "cabinet"
        /\ UNCHANGED <<plan, membership, active>>
    BY <1>3 DEF RetentionCommit, CheckedOK
  <2>2. Members' = Members /\ Owners' = Owners
    BY <2>1 DEF Members, Owners, membership
  <2> QED BY <2>1, <2>2 DEF Promises, HasOwner, OwnersActive,
          RetentionOnCabinet, WithinQuota
<1> QED
  BY <1>1, <1>2, <1>3

LEMMA DeleteSerial ==
  ASSUME SerialInv, SerialInv => TypeOK', NEW w \in Workers,
         DeleteCommit(w) \/ AccountCommit(w)
  PROVE  Promises'
<1> USE DEF SerialInv, IInv, Typed, TypeOK
<1>1. CASE DeleteCommit(w)
  <2>1. Members' = {} /\ Owners' = {} /\ org' = "gone" /\ UNCHANGED <<plan, retention>>
    BY <1>1 DEF DeleteCommit, Members, Owners
  <2>2. WithinQuota'
    BY <2>1, FewerMembers DEF Promises, WithinQuota
  <2> QED BY <2>1, <2>2 DEF Promises, HasOwner, OwnersActive, RetentionOnCabinet
<1>2. CASE AccountCommit(w)
  <2>1. PICK u \in Users : u = me[w]
    BY <1>2 DEF AccountCommit, NamesOK, Named
  <2>2. role[u] # "owner"
    BY <1>2, <2>1 DEF AccountCommit, CheckedOK
  <2>3. /\ active' = [active EXCEPT ![u] = FALSE]
        /\ UNCHANGED <<org, plan, retention, membership>>
    BY <1>2, <2>1 DEF AccountCommit
  <2>4. Members' = Members /\ Owners' = Owners
    BY <2>3 DEF Members, Owners, membership
  <2>5. OwnersActive'
    BY <2>2, <2>3, <2>4 DEF Promises, OwnersActive, Owners
  <2> QED BY <2>3, <2>4, <2>5 DEF Promises, HasOwner, RetentionOnCabinet, WithinQuota
<1> QED
  BY <1>1, <1>2

LEMMA ActSerial ==
  ASSUME SerialInv, NEW w \in Workers, Act(w), TypeOK'
  PROVE  Promises' /\ CheckedOK(w)'
<1>0. TypeOK
  BY DEF SerialInv, IInv, Typed
<1>1. CASE Rollback(w)
  BY <1>0, <1>1, FinishChecked, PromisesKept DEF Rollback, SerialInv
<1>2. ASSUME Step(w), ~Rollback(w) PROVE Promises' /\ CheckedOK(w)'
  <2>1. CASE \/ AddInsert(w) \/ RemoveCommit(w) \/ PlanCommit(w) \/ RetentionCommit(w)
             \/ DeleteCommit(w) \/ AccountCommit(w)
    <3>1. Finish(w)
      BY <1>2, <2>1 DEF AddInsert, RemoveCommit, PlanCommit, RetentionCommit,
         DeleteCommit, AccountCommit
    <3>2. CheckedOK(w)'
      BY <1>0, <3>1, FinishChecked
    <3>3. Promises'
      BY <2>1, AddSerial, RemoveSerial, PlanSerial, DeleteSerial
    <3> QED BY <3>2, <3>3
  <2> QED BY <1>2, <2>1, CheckSerial DEF Step
<1> QED
  BY <1>1, <1>2, CreateSerial, RequestSerial DEF Act, Abort

LEMMA SerialInductive ==
  ASSUME Serial
  PROVE  SerialInv /\ [Next]_vars => SerialInv'
<1> SUFFICES ASSUME SerialInv, [Next]_vars PROVE SerialInv'
  OBVIOUS
<1>1. IInv' /\ TypeOK'
  BY IInvInductive DEF SerialInv, IInv, Typed
<1>2. ASSUME NEW w \in Workers, Act(w) PROVE SerialInv'
  <2>1. Promises' /\ CheckedOK(w)'
    BY <1>1, <1>2, ActSerial
  <2>2. \A v \in Workers : v = w
    BY Serial DEF Serial
  <2> QED BY <1>1, <2>1, <2>2 DEF SerialInv
<1>3. CASE UNCHANGED vars
  <2>1. Promises'
    BY <1>3, PromisesKept DEF vars, SerialInv
  <2>2. \A w \in Workers : CheckedOK(w)'
    BY <1>3 DEF SerialInv, CheckedOK, Members, Owners, vars, rows, membership, session
  <2> QED BY <1>1, <2>1, <2>2 DEF SerialInv
<1> QED
  BY <1>2, <1>3, NextAct

LEMMA SerialInit == Init => SerialInv
<1> SUFFICES ASSUME Init PROVE SerialInv
  OBVIOUS
<1>1. Members = {} /\ Owners = {} /\ org = "none"
  BY DEF Init, Members, Owners
<1>2. WithinQuota
  BY <1>1, FS_EmptySet DEF WithinQuota, Exceeds
<1>3. HasOwner /\ OwnersActive
  BY <1>1 DEF HasOwner, OwnersActive
<1>4. ~retention
  BY Zenon DEF Init
<1>5. \A w \in Workers : CheckedOK(w)
  BY DEF Init, CheckedOK
<1> QED
  BY <1>2, <1>3, <1>4, <1>5, IInvInit DEF SerialInv, Promises, RetentionOnCabinet

LEMMA SerialInvariant ==
  ASSUME Serial
  PROVE  Spec => []SerialInv
BY SerialInit, SerialInductive, PTL DEF Spec

\* Requests served one at a time keep an owner, and an account behind every
\* owner, the number of members that the plan allows and no custom retention
\* outside the plan that offers it.
THEOREM SerialPromises ==
  ASSUME Serial
  PROVE  Spec => [](HasOwner /\ OwnersActive /\ WithinQuota /\ RetentionOnCabinet)
<1>1. SerialInv => HasOwner /\ OwnersActive /\ WithinQuota /\ RetentionOnCabinet
  BY DEF SerialInv, Promises
<1> QED
  BY <1>1, SerialInvariant, PTL

\* The members counted by add_member against the plan, and by update_plan
\* against the members, keep the number of members within the plan.
THEOREM SerialQuota ==
  ASSUME Serial
  PROVE  Spec => []WithinQuota
<1>1. SerialInv => WithinQuota
  BY DEF SerialInv, Promises
<1> QED
  BY <1>1, SerialInvariant, PTL

\* delete_my_account refuses the owner of an organization, add_member a deleted
\* account: an owner always has an account.
THEOREM SerialAccounts ==
  ASSUME Serial
  PROVE  Spec => []OwnersActive
<1>1. SerialInv => OwnersActive
  BY DEF SerialInv, Promises
<1> QED
  BY <1>1, SerialInvariant, PTL

LEMMA SerialDeletion ==
  ASSUME SerialInv, NEW w \in Workers, Act(w), org = "live", org' = "gone"
  PROVE  Cardinality(Members) <= 1
<1> USE DEF SerialInv, IInv, Typed, TypeOK
<1>1. DeleteCommit(w)
  <2>1. ~\E u \in Users, p \in Plans : Create(w, u, p)
    BY DEF Create
  <2>2. ~AddInsert(w) /\ ~RemoveCommit(w)
    BY DEF AddInsert, RemoveCommit, Rollback, rows
  <2> QED BY <2>1, <2>2, Quiet
<1>2. Members \subseteq {me[w]}
  BY <1>1 DEF DeleteCommit, CheckedOK
<1>3. CASE Members = {}
  BY <1>3, FS_EmptySet
<1>4. CASE Members = {me[w]}
  <2>1. \A x : Cardinality({x}) = 1
    BY FS_Singleton
  <2>2. Cardinality(Members) = 1
    BY <1>4, <2>1
  <2> QED BY <2>2
<1> QED
  BY <1>2, <1>3, <1>4

\* Served one at a time, the deletion of an organization cuts nobody's access.
THEOREM SerialDeletions ==
  ASSUME Serial
  PROVE  Spec => DeletionCutsNobody
<1>1. SerialInv /\ [Next]_vars =>
        [org = "live" /\ org' = "gone" => Cardinality(Members) <= 1]_vars
  BY SerialDeletion, NextAct
<1> QED
  BY <1>1, SerialInvariant, PTL DEF Spec, DeletionCutsNobody
=============================================================================
