---------------------------- MODULE SpaceAccess ----------------------------
(* Accounts, spaces and recovery (F008): src/auth/spaces.js, accounts.js,    *)
(* operations.js, core.js, recovery-fence.js and the lifecycle events of     *)
(* authorized-store.js, over the rows of one space.                          *)
(*                                                                           *)
(* repository.js runs every change in one transaction that holds the row of  *)
(* auth_control, so every operation is one action. A session is not a        *)
(* variable: whoever may log in may hold one. Programs, visibility, notices, *)
(* the audit and the repetition of an answered request are left out.         *)
EXTENDS Naturals, FiniteSets

CONSTANTS
  Account,       \* human accounts
  NoAccount,     \* nobody
  Role           \* the roles a member may ask for: all but OWNER

ASSUME AccountsAreSomebody == NoAccount \notin Account
ASSUME OwnerIsNotAsked == "OWNER" \notin Role

VARIABLES
  account,       \* rows of kind accounts; credential: an unused password link
  control,       \* auth_control
  space,         \* the row of the space
  grants,        \* the roles of each account under each grantKey of the space
  pending        \* PENDING applications: to create the space, to join it

vars == <<account, control, space, grants, pending>>

Key == {"DIRECT", "APPLICATION", "ADMIN", "MIGRATION", "OWNER"}

NobodyYet == [status |-> "NONE", admin |-> FALSE, trusted |-> FALSE, credential |-> FALSE]
NoGrants == [k \in Key |-> {}]
NoApplication == [create |-> FALSE, join |-> {}]
NoSpace == [status |-> "NONE", owner |-> NoAccount, successor |-> NoAccount]

Init ==
  /\ account = [a \in Account |-> NobodyYet]
  /\ control = [initialized |-> FALSE, recovery |-> FALSE]
  /\ space = NoSpace
  /\ grants = [a \in Account |-> NoGrants]
  /\ pending = [a \in Account |-> NoApplication]

---------------------------------------------------------------------------
(* What an account may do *)

Active(a) == account[a].status = "ACTIVE"

RolesIn(a) ==
  IF Active(a)
  THEN UNION {grants[a][k] : k \in {x \in Key : x = "ADMIN" => account[a].admin}}
  ELSE {}

\* sessionIn: an active account, and in recovery one the terminal trusts.
InSession(a) ==
  /\ control.initialized
  /\ Active(a)
  /\ control.recovery => account[a].trusted

Administers(a) == InSession(a) /\ account[a].admin

SpaceIsThere == space.status \notin {"NONE", "DELETED"}

Owns(a) == "OWNER" \in RolesIn(a) \/ account[a].admin
MayManage(a) == InSession(a) /\ SpaceIsThere /\ (Owns(a) \/ "PERMISSION_ADMIN" \in RolesIn(a))
MayOwn(a) == InSession(a) /\ SpaceIsThere /\ Owns(a)

Manages(roles) == roles \cap {"OWNER", "PERMISSION_ADMIN"} # {}

\* roleSet: the business and the compliance group exclude each other.
Compatible(roles) == ~({"business-owner", "compliance"} \subseteq roles)
RoleSet == {r \in SUBSET Role : Compatible(r)}

---------------------------------------------------------------------------
(* Accounts *)

Initialize(a) ==
  /\ ~control.initialized /\ ~control.recovery
  /\ account[a].status = "NONE"
  /\ account' = [account EXCEPT ![a] = [@ EXCEPT !.status = "ACTIVE", !.admin = TRUE]]
  /\ control' = [control EXCEPT !.initialized = TRUE]
  /\ UNCHANGED <<space, grants, pending>>

CreateAccount(b, a) ==
  /\ Administers(b)
  /\ account[a].status = "NONE"
  /\ account' = [account EXCEPT ![a] = [@ EXCEPT !.status = "PENDING", !.credential = TRUE]]
  /\ UNCHANGED <<control, space, grants, pending>>

RecoverAccount(b, a) ==
  /\ Administers(b)
  /\ account[a].status # "NONE"
  /\ account' = [account EXCEPT ![a].credential = TRUE]
  /\ UNCHANGED <<control, space, grants, pending>>

SetPassword(a) ==
  /\ account[a].credential
  /\ account[a].status # "DISABLED"
  /\ account' = [account EXCEPT ![a] = [@ EXCEPT !.status = "ACTIVE", !.credential = FALSE]]
  /\ UNCHANGED <<control, space, grants, pending>>

\* Mutant: any other administrator will do, a disabled or a new one too.
LastAdminAnyStatus(a) ==
  account[a].admin /\ Active(a) /\ ~\E b \in Account \ {a} : account[b].admin

LastAdmin(a) ==
  account[a].admin /\ Active(a) /\ ~\E b \in Account \ {a} : account[b].admin /\ Active(b)

SetStatus(b, a, status) ==
  /\ Administers(b)
  /\ account[a].status \in {"ACTIVE", "DISABLED"}      \* it has a password
  /\ status = "DISABLED" => ~LastAdmin(a)
  /\ account' = [account EXCEPT ![a].status = status]
  /\ UNCHANGED <<control, space, grants, pending>>

SetAdmin(b, a, admin) ==
  /\ Administers(b)
  /\ account[a].status # "NONE"
  /\ ~admin => ~LastAdmin(a)
  /\ account' = [account EXCEPT ![a].admin = admin]
  /\ UNCHANGED <<control, space, grants, pending>>

---------------------------------------------------------------------------
(* Applications *)

ApplyCreate(a) ==
  /\ InSession(a)
  /\ space.status = "NONE"
  /\ pending' = [pending EXCEPT ![a].create = TRUE]
  /\ UNCHANGED <<account, control, space, grants>>

ApplyJoin(a, roles) ==
  /\ InSession(a)
  /\ space.status = "ACTIVE"
  /\ roles # {}
  /\ pending[a].join = {}                 \* else the first one is answered
  /\ pending' = [pending EXCEPT ![a].join = roles]
  /\ UNCHANGED <<account, control, space, grants>>

WithdrawCreate(a) ==
  /\ InSession(a)
  /\ pending[a].create
  /\ pending' = [pending EXCEPT ![a].create = FALSE]
  /\ UNCHANGED <<account, control, space, grants>>

WithdrawJoin(a) ==
  /\ InSession(a)
  /\ pending[a].join # {}
  /\ pending' = [pending EXCEPT ![a].join = {}]
  /\ UNCHANGED <<account, control, space, grants>>

RejectCreate(b, a) ==
  /\ Administers(b)
  /\ pending[a].create /\ Active(a)
  /\ pending' = [pending EXCEPT ![a].create = FALSE]
  /\ UNCHANGED <<account, control, space, grants>>

RejectJoin(b, a) ==
  /\ MayManage(b)
  /\ pending[a].join # {} /\ Active(a)
  /\ pending' = [pending EXCEPT ![a].join = {}]
  /\ UNCHANGED <<account, control, space, grants>>

ApproveCreate(b, a) ==
  /\ Administers(b)
  /\ pending[a].create /\ Active(a)
  /\ space.status = "NONE"
  /\ space' = [status |-> "ACTIVE", owner |-> a, successor |-> NoAccount]
  /\ grants' = [grants EXCEPT ![a]["APPLICATION"] = @ \cup {"OWNER"}]
  /\ pending' = [pending EXCEPT ![a].create = FALSE]
  /\ UNCHANGED <<account, control>>

\* Where the grant of b to a is kept: an administrator's own grant is derived.
OwnGrantIsDerived(b, a) == a = b /\ account[b].admin /\ "OWNER" \notin RolesIn(b)

\* Mutant: a permission administrator may decide on another manager.
MayDecideOthers(b, a, granted) == Owns(b) \/ (a # b /\ ~Manages(granted))

\* What is beyond a permission administrator: itself, and other managers.
MayDecide(b, a, granted) ==
  Owns(b) \/ (a # b /\ ~Manages(granted) /\ ~Manages(RolesIn(a)))

Approvable(requested) ==
  requested \cup (IF "MAINTAIN" \in requested THEN {"READ"} ELSE {})

\* Mutant: the roles the applicant already has are not asked for.
FitsAlone(a, granted) == Compatible(granted)

\* The roles in force only: those of a hidden grant are not looked at.
Fits(a, granted) == Compatible(RolesIn(a) \cup granted)

ApproveJoin(b, a, granted) ==
  /\ MayManage(b)
  /\ pending[a].join # {} /\ Active(a)
  /\ space.status = "ACTIVE"
  /\ granted \subseteq Approvable(pending[a].join)
  /\ MayDecide(b, a, granted)
  /\ Fits(a, granted)
  /\ LET key == IF OwnGrantIsDerived(b, a) THEN "ADMIN" ELSE "APPLICATION"
     IN grants' = [grants EXCEPT ![a][key] = @ \cup granted]
  /\ pending' = [pending EXCEPT ![a].join = {}]
  /\ UNCHANGED <<account, control, space>>

---------------------------------------------------------------------------
(* Grants and ownership *)

\* Every grant of the account gives way to the new one, but for OWNER; a
\* derived grant replaces only the derived one.
Stripped(a, key) ==
  [k \in Key |-> IF key = "ADMIN" /\ k # "ADMIN" THEN grants[a][k]
                 ELSE grants[a][k] \cap {"OWNER"}]

GrantUnder(b, a, key, granted) ==
  /\ MayManage(b)
  /\ Active(a)
  /\ MayDecide(b, a, granted)
  /\ LET rest == Stripped(a, key) IN
     /\ Compatible((UNION {rest[k] : k \in Key}) \cup granted)
     /\ grants' = [grants EXCEPT ![a] = [rest EXCEPT ![key] = granted]]
  /\ UNCHANGED <<account, control, space, pending>>

\* An owner who is an administrator may ask for a derived grant (intervene).
Grant(b, a, granted) ==
  \/ ~OwnGrantIsDerived(b, a) /\ GrantUnder(b, a, "DIRECT", granted)
  \/ a = b /\ account[b].admin /\ GrantUnder(b, a, "ADMIN", granted)

\* Mutant: the roles the former owner got with its application stay.
CrownOver(a) == [grants EXCEPT ![space.owner]["OWNER"] = {},
                               ![a]["OWNER"] = {"OWNER"}]

\* The grants with a as the owner and nobody else.
Crown(a) ==
  [b \in Account |-> [k \in Key |->
     IF b = a /\ k = "OWNER" THEN {"OWNER"} ELSE grants[b][k] \ {"OWNER"}]]

OfferOwnership(b, a) ==
  /\ space.status = "ACTIVE"
  /\ MayOwn(b) /\ Active(a)
  /\ space' = [space EXCEPT !.successor = a]
  /\ UNCHANGED <<account, control, grants, pending>>

AcceptOwnership(a) ==
  /\ InSession(a)
  /\ space.status = "ACTIVE" /\ space.successor = a
  /\ grants' = Crown(a)
  /\ space' = [space EXCEPT !.owner = a, !.successor = NoAccount]
  /\ UNCHANGED <<account, control, pending>>

DesignateOwner(b, a) ==
  /\ Administers(b)
  /\ space.status # "NONE" /\ Active(a)
  /\ grants' = Crown(a)
  /\ space' = [space EXCEPT !.owner = a, !.successor = NoAccount]
  /\ UNCHANGED <<account, control, pending>>

\* The event of the product store that deletes a space, or thinks better of it.
MoveSpace(b, from, to) ==
  /\ MayOwn(b)
  /\ space.status = from
  /\ space' = [space EXCEPT !.status = to]
  /\ UNCHANGED <<account, control, grants, pending>>

Lifecycle(b) ==
  \/ MoveSpace(b, "ACTIVE", "DELETION_REQUESTED")
  \/ MoveSpace(b, "DELETION_REQUESTED", "ACTIVE")
  \/ MoveSpace(b, "DELETION_REQUESTED", "DELETED")

---------------------------------------------------------------------------
(* The deployment's terminal *)

MigrateOwner(a, status) ==
  /\ control.initialized
  /\ space.status = "NONE" /\ Active(a)
  /\ space' = [status |-> status, owner |-> a, successor |-> NoAccount]
  /\ grants' = [grants EXCEPT ![a]["OWNER"] = {"OWNER"}]
  /\ UNCHANGED <<account, control, pending>>

\* An account that is disabled has no roles in force to compare with.
MigrateGrant(a, roles) ==
  /\ control.initialized
  /\ space.status # "NONE" /\ account[a].status # "NONE"
  /\ Fits(a, roles)
  /\ grants' = [grants EXCEPT ![a]["MIGRATION"] = roles]
  /\ UNCHANGED <<account, control, space, pending>>

Distrusted(credential) ==
  [a \in Account |-> [account[a] EXCEPT !.trusted = FALSE, !.credential = @ /\ credential]]

\* Also what the fence appended to a restored archive does to its rows.
EnterRecovery ==
  /\ control' = [initialized |-> TRUE, recovery |-> TRUE]
  /\ account' = Distrusted(FALSE)
  /\ UNCHANGED <<space, grants, pending>>

\* An archive from before F008: only the closed boundary is created.
RestoreOldArchive ==
  /\ control' = [initialized |-> TRUE, recovery |-> TRUE]
  /\ account' = [a \in Account |-> NobodyYet]
  /\ space' = NoSpace
  /\ grants' = [a \in Account |-> NoGrants]
  /\ pending' = [a \in Account |-> NoApplication]

TrustRecoveryAdmin(a) ==
  /\ control.recovery
  /\ account' = [account EXCEPT ![a] =
                   [@ EXCEPT !.status = "ACTIVE", !.trusted = TRUE, !.admin = TRUE]]
  /\ UNCHANGED <<control, space, grants, pending>>

FinishRecovery ==
  /\ control.recovery
  /\ \E a \in Account : account[a].trusted /\ account[a].admin /\ Active(a)
  /\ control' = [control EXCEPT !.recovery = FALSE]
  /\ account' = Distrusted(TRUE)
  /\ UNCHANGED <<space, grants, pending>>

---------------------------------------------------------------------------
Administration(b, a) ==
  \/ CreateAccount(b, a)
  \/ RecoverAccount(b, a)
  \/ \E status \in {"ACTIVE", "DISABLED"} : SetStatus(b, a, status)
  \/ \E admin \in BOOLEAN : SetAdmin(b, a, admin)
  \/ RejectCreate(b, a)
  \/ ApproveCreate(b, a)
  \/ DesignateOwner(b, a)

Management(b, a) ==
  \/ RejectJoin(b, a)
  \/ \E granted \in RoleSet : ApproveJoin(b, a, granted) \/ Grant(b, a, granted)
  \/ OfferOwnership(b, a)

Membership(a) ==
  \/ SetPassword(a)
  \/ ApplyCreate(a)
  \/ \E roles \in RoleSet : ApplyJoin(a, roles)
  \/ WithdrawCreate(a)
  \/ WithdrawJoin(a)
  \/ AcceptOwnership(a)
  \/ Lifecycle(a)

Terminal ==
  \/ \E a \in Account :
       \/ Initialize(a)
       \/ \E status \in {"ACTIVE", "DELETED"} : MigrateOwner(a, status)
       \/ \E roles \in RoleSet : MigrateGrant(a, roles)
       \/ TrustRecoveryAdmin(a)
  \/ EnterRecovery
  \/ RestoreOldArchive
  \/ FinishRecovery

Next ==
  \/ \E a \in Account : Membership(a)
  \/ \E a, b \in Account : Administration(b, a) \/ Management(b, a)
  \/ Terminal

Spec == Init /\ [][Next]_vars

---------------------------------------------------------------------------
(* The rows keep their types; OWNER is no role of a direct, a derived or a   *)
(* migrated grant, which is why stripping those never unseats an owner.      *)
TypeOK ==
  /\ account \in [Account -> [status : {"NONE", "PENDING", "ACTIVE", "DISABLED"},
                              admin : BOOLEAN, trusted : BOOLEAN, credential : BOOLEAN]]
  /\ control \in [initialized : BOOLEAN, recovery : BOOLEAN]
  /\ space \in [status : {"NONE", "ACTIVE", "DELETION_REQUESTED", "DELETED"},
                owner : Account \cup {NoAccount}, successor : Account \cup {NoAccount}]
  /\ grants \in [Account -> [Key -> SUBSET (Role \cup {"OWNER"})]]
  /\ pending \in [Account -> [create : BOOLEAN, join : SUBSET Role]]
  /\ \A a \in Account, k \in Key \ {"APPLICATION", "OWNER"} : "OWNER" \notin grants[a][k]

(* However approvals, transfers, designations and migrations follow on each  *)
(* other, the accounts that hold OWNER under some key are the one the row of *)
(* the space names (spaces.js, transfer and designateOwner).                 *)
OneOwner ==
  {a \in Account : \E k \in Key : "OWNER" \in grants[a][k]} = {space.owner} \ {NoAccount}

(* Whatever administrators do to each other, and whatever recovery did, an   *)
(* initialised instance out of recovery has an administrator who can log in  *)
(* (accounts.js, protectLastAdmin; operations.js, finishRecovery).           *)
AdminRemains ==
  control.initialized /\ ~control.recovery => \E a \in Account : account[a].admin /\ Active(a)

Conflicted(a) == ~Compatible(RolesIn(a))

(* No step that writes a grant makes an account hold a business and a        *)
(* compliance role at once (spaces.js, roleSet in decide and grant).         *)
ConflictsOnlyReturn ==
  [][ grants' # grants => \A a \in Account : Conflicted(a)' => Conflicted(a) ]_vars

Managers == {a \in Account : Manages(RolesIn(a))}

(* A permission administrator who is neither owner nor administrator changes *)
(* the set of managers by no decision and no grant: not its own place, and   *)
(* nobody else's (spaces.js, AUTH_SELF_ESCALATION).                          *)
ManagersAppointed ==
  [][ Managers' # Managers => \A a, b \in Account : ~Owns(b) => ~Management(b, a) ]_vars

(* What the design says of D3: one account never holds a business and a      *)
(* compliance role of one space together.                                    *)
NoConflict == \A a \in Account : ~Conflicted(a)
=============================================================================
