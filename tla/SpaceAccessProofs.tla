-------------------------- MODULE SpaceAccessProofs --------------------------
(***************************************************************************)
(* Proofs about SpaceAccess, for any number of accounts and any roles.     *)
(***************************************************************************)
EXTENDS SpaceAccess, TLAPS

-----------------------------------------------------------------------------
(* Rows and their types *)

AccountRow == [status : {"NONE", "PENDING", "ACTIVE", "DISABLED"},
               admin : BOOLEAN, trusted : BOOLEAN, credential : BOOLEAN]
ControlRow == [initialized : BOOLEAN, recovery : BOOLEAN]
SpaceRow == [status : {"NONE", "ACTIVE", "DELETION_REQUESTED", "DELETED"},
             owner : Account \cup {NoAccount}, successor : Account \cup {NoAccount}]
GrantRow == [Key -> SUBSET (Role \cup {"OWNER"})]
ApplicationRow == [create : BOOLEAN, join : SUBSET Role]

\* OWNER is granted with a space or by a transfer, under no other key.
OwnerKeys(g) == \A k \in Key \ {"APPLICATION", "OWNER"} : "OWNER" \notin g[k]

LEMMA TypeParts ==
  TypeOK <=> /\ account \in [Account -> AccountRow]
             /\ control \in ControlRow
             /\ space \in SpaceRow
             /\ grants \in [Account -> GrantRow]
             /\ pending \in [Account -> ApplicationRow]
             /\ \A a \in Account : OwnerKeys(grants[a])
BY DEF TypeOK, AccountRow, ControlRow, SpaceRow, GrantRow, ApplicationRow, OwnerKeys

\* The roles a member asks for or is granted are not OWNER.
LEMMA AskedRoles ==
  \A r \in RoleSet : r \subseteq Role /\ "OWNER" \notin r /\ Compatible(r)
BY OwnerIsNotAsked DEF RoleSet

LEMMA KeyMembers ==
  /\ "DIRECT" \in Key /\ "APPLICATION" \in Key /\ "ADMIN" \in Key /\ "MIGRATION" \in Key /\ "OWNER" \in Key
BY DEF Key

\* Only some steps write the account, the space or the grants.
AccountStep ==
  \/ \E a \in Account : Initialize(a) \/ SetPassword(a) \/ TrustRecoveryAdmin(a)
  \/ \E a, b \in Account :
       \/ CreateAccount(b, a) \/ RecoverAccount(b, a)
       \/ \E status \in {"ACTIVE", "DISABLED"} : SetStatus(b, a, status)
       \/ \E admin \in BOOLEAN : SetAdmin(b, a, admin)
  \/ EnterRecovery \/ FinishRecovery

ApplicationStep ==
  \/ \E a \in Account :
       \/ ApplyCreate(a) \/ WithdrawCreate(a) \/ WithdrawJoin(a)
       \/ \E roles \in RoleSet : ApplyJoin(a, roles)
  \/ \E a, b \in Account : RejectCreate(b, a) \/ RejectJoin(b, a)

SpaceRowStep ==
  \/ \E a \in Account : Lifecycle(a)
  \/ \E a, b \in Account : OfferOwnership(b, a)

GrantStep ==
  \/ \E a, b \in Account, granted \in RoleSet : ApproveJoin(b, a, granted) \/ Grant(b, a, granted)
  \/ \E a \in Account, roles \in RoleSet : MigrateGrant(a, roles)

OwnerStep ==
  \/ \E a \in Account :
       AcceptOwnership(a) \/ \E status \in {"ACTIVE", "DELETED"} : MigrateOwner(a, status)
  \/ \E a, b \in Account : ApproveCreate(b, a) \/ DesignateOwner(b, a)

\* Every step is one of these.
LEMMA StepKinds ==
  ASSUME Next
  PROVE  AccountStep \/ ApplicationStep \/ SpaceRowStep \/ GrantStep \/ OwnerStep \/ RestoreOldArchive
<1>1. ASSUME NEW a \in Account, Membership(a)
      PROVE  AccountStep \/ ApplicationStep \/ SpaceRowStep \/ OwnerStep
  BY <1>1, Zenon DEF Membership, AccountStep, ApplicationStep, SpaceRowStep, OwnerStep
<1>2. ASSUME NEW a \in Account, NEW b \in Account, Administration(b, a) \/ Management(b, a)
      PROVE  AccountStep \/ ApplicationStep \/ SpaceRowStep \/ GrantStep \/ OwnerStep
  BY <1>2, Zenon
     DEF Administration, Management, AccountStep, ApplicationStep, SpaceRowStep, GrantStep, OwnerStep
<1>3. CASE Terminal
  BY <1>3, Zenon DEF Terminal, AccountStep, GrantStep, OwnerStep
<1> QED BY <1>1, <1>2, <1>3 DEF Next

LEMMA StepsLeave ==
  /\ AccountStep => UNCHANGED <<space, grants, pending>>
  /\ ApplicationStep => UNCHANGED <<account, control, space, grants>>
  /\ SpaceRowStep => UNCHANGED <<account, control, grants, pending>>
  /\ GrantStep => UNCHANGED <<account, control, space>>
  /\ OwnerStep => UNCHANGED <<account, control>>
<1>1. AccountStep => UNCHANGED <<space, grants, pending>>
  BY DEF AccountStep, Initialize, SetPassword, TrustRecoveryAdmin, CreateAccount, RecoverAccount, SetStatus,
         SetAdmin, EnterRecovery, FinishRecovery
<1>2. ApplicationStep => UNCHANGED <<account, control, space, grants>>
  BY Zenon DEF ApplicationStep, ApplyCreate, WithdrawCreate, WithdrawJoin, ApplyJoin, RejectCreate, RejectJoin
<1>3. SpaceRowStep => UNCHANGED <<account, control, grants, pending>>
  BY Zenon DEF SpaceRowStep, Lifecycle, MoveSpace, OfferOwnership
<1>4. GrantStep => UNCHANGED <<account, control, space>>
  BY Zenon DEF GrantStep, ApproveJoin, Grant, GrantUnder, MigrateGrant
<1>5. OwnerStep => UNCHANGED <<account, control>>
  BY DEF OwnerStep, AcceptOwnership, MigrateOwner, ApproveCreate, DesignateOwner
<1> QED BY <1>1, <1>2, <1>3, <1>4, <1>5

-----------------------------------------------------------------------------
(* Accounts: an administrator who can log in remains *)

\* One account row is written.
LEMMA AccountWritten ==
  ASSUME account \in [Account -> AccountRow], NEW a \in Account, NEW x \in AccountRow,
         account' = [account EXCEPT ![a] = x]
  PROVE  /\ account' \in [Account -> AccountRow]
         /\ account'[a] = x
         /\ \A b \in Account : b # a => account'[b] = account[b]
OBVIOUS

LEMMA AccountFields ==
  ASSUME NEW x \in AccountRow, NEW status \in {"NONE", "PENDING", "ACTIVE", "DISABLED"}, NEW admin \in BOOLEAN,
         NEW credential \in BOOLEAN
  PROVE  /\ [x EXCEPT !.status = status] \in AccountRow
         /\ [x EXCEPT !.admin = admin] \in AccountRow
         /\ [x EXCEPT !.credential = credential] \in AccountRow
         /\ [x EXCEPT !.status = status, !.credential = credential] \in AccountRow
         /\ [x EXCEPT !.status = status, !.admin = admin] \in AccountRow
         /\ [x EXCEPT !.status = status, !.trusted = TRUE, !.admin = admin] \in AccountRow
         /\ [x EXCEPT !.trusted = FALSE, !.credential = credential] \in AccountRow
BY DEF AccountRow

\* Somebody administers and can log in.
Administered == \E a \in Account : account[a].admin /\ Active(a)

\* A written row that still administers, or another one that does, is enough.
LEMMA StillAdministered ==
  ASSUME Administered, NEW a \in Account,
         \A b \in Account : b # a => account'[b] = account[b],
         \/ account'[a].admin /\ account'[a].status = "ACTIVE"
         \/ \E b \in Account \ {a} : account[b].admin /\ Active(b)
         \/ ~(account[a].admin /\ Active(a))
  PROVE  Administered'
BY DEF Administered, Active

\* What is written to the accounts, and by whom, keeps an administrator.
LEMMA AccountsKept ==
  ASSUME TypeOK, AdminRemains, AccountStep
  PROVE  /\ account' \in [Account -> AccountRow]
         /\ control' \in ControlRow
         /\ AdminRemains'
<1>1. account \in [Account -> AccountRow] /\ control \in ControlRow
  BY TypeParts
<1>2. AdminRemains <=> (control.initialized /\ ~control.recovery => Administered)
  BY DEF AdminRemains, Administered
<1>3. AdminRemains' <=> (control'.initialized /\ ~control'.recovery => Administered')
  BY DEF AdminRemains, Administered
<1>4. ASSUME NEW a \in Account, NEW x \in AccountRow, account' = [account EXCEPT ![a] = x],
             UNCHANGED control,
             \/ x.admin /\ x.status = "ACTIVE"
             \/ \E b \in Account \ {a} : account[b].admin /\ Active(b)
             \/ ~(account[a].admin /\ Active(a))
      PROVE  account' \in [Account -> AccountRow] /\ control' \in ControlRow /\ AdminRemains'
  <2>1. /\ account' \in [Account -> AccountRow]
        /\ account'[a] = x
        /\ \A b \in Account : b # a => account'[b] = account[b]
    BY <1>1, <1>4, AccountWritten
  <2>2. Administered => Administered'
    BY <1>4, <2>1, StillAdministered
  <2> QED BY <1>1, <1>2, <1>3, <1>4, <2>1, <2>2
<1>5. ASSUME NEW a \in Account, Initialize(a)
      PROVE  account' \in [Account -> AccountRow] /\ control' \in ControlRow /\ AdminRemains'
  <2> DEFINE x == [account[a] EXCEPT !.status = "ACTIVE", !.admin = TRUE]
  <2>1. x \in AccountRow /\ x.admin = TRUE /\ x.status = "ACTIVE"
    BY <1>1 DEF AccountRow
  <2>2. account' = [account EXCEPT ![a] = x]
    BY <1>5 DEF Initialize
  <2>3. account' \in [Account -> AccountRow] /\ account'[a] = x
    BY <1>1, <2>1, <2>2, AccountWritten
  <2>4. control' \in ControlRow
    BY <1>1, <1>5 DEF Initialize, ControlRow
  <2>5. Administered'
    BY <2>1, <2>3 DEF Administered, Active
  <2> QED BY <1>3, <2>3, <2>4, <2>5
<1>6. ASSUME NEW a \in Account, SetPassword(a)
      PROVE  account' \in [Account -> AccountRow] /\ control' \in ControlRow /\ AdminRemains'
  <2> DEFINE x == [account[a] EXCEPT !.status = "ACTIVE", !.credential = FALSE]
  <2>1. x \in AccountRow /\ x.admin = account[a].admin /\ x.status = "ACTIVE"
    BY <1>1 DEF AccountRow
  <2>2. account' = [account EXCEPT ![a] = x] /\ UNCHANGED control
    BY <1>6 DEF SetPassword
  <2> HIDE DEF x
  <2> QED BY <1>4, <2>1, <2>2
<1>7. ASSUME NEW a \in Account, TrustRecoveryAdmin(a)
      PROVE  account' \in [Account -> AccountRow] /\ control' \in ControlRow /\ AdminRemains'
  <2> DEFINE x == [account[a] EXCEPT !.status = "ACTIVE", !.trusted = TRUE, !.admin = TRUE]
  <2>1. x \in AccountRow /\ x.admin = TRUE /\ x.status = "ACTIVE"
    BY <1>1 DEF AccountRow
  <2>2. account' = [account EXCEPT ![a] = x] /\ UNCHANGED control
    BY <1>7 DEF TrustRecoveryAdmin
  <2> HIDE DEF x
  <2> QED BY <1>4, <2>1, <2>2
<1>8. ASSUME NEW a \in Account, NEW b \in Account, CreateAccount(b, a)
      PROVE  account' \in [Account -> AccountRow] /\ control' \in ControlRow /\ AdminRemains'
  <2> DEFINE x == [account[a] EXCEPT !.status = "PENDING", !.credential = TRUE]
  <2>1. x \in AccountRow
    BY <1>1 DEF AccountRow
  <2>2. account' = [account EXCEPT ![a] = x] /\ UNCHANGED control /\ ~Active(a)
    BY <1>8 DEF CreateAccount, Active
  <2> HIDE DEF x
  <2> QED BY <1>4, <2>1, <2>2
<1>9. ASSUME NEW a \in Account, NEW b \in Account, RecoverAccount(b, a)
      PROVE  account' \in [Account -> AccountRow] /\ control' \in ControlRow /\ AdminRemains'
  <2> DEFINE x == [account[a] EXCEPT !.credential = TRUE]
  <2>1. x \in AccountRow /\ x.admin = account[a].admin /\ x.status = account[a].status
    BY <1>1 DEF AccountRow
  <2>2. account' = [account EXCEPT ![a] = x] /\ UNCHANGED control
    BY <1>1, <1>9 DEF RecoverAccount
  <2> HIDE DEF x
  <2> QED BY <1>4, <2>1, <2>2 DEF Active
<1>10. ASSUME NEW a \in Account, NEW b \in Account, NEW status \in {"ACTIVE", "DISABLED"}, SetStatus(b, a, status)
      PROVE  account' \in [Account -> AccountRow] /\ control' \in ControlRow /\ AdminRemains'
  <2> DEFINE x == [account[a] EXCEPT !.status = status]
  <2>1. x \in AccountRow /\ x.admin = account[a].admin /\ x.status = status
    BY <1>1 DEF AccountRow
  <2>2. account' = [account EXCEPT ![a] = x] /\ UNCHANGED control
    BY <1>1, <1>10 DEF SetStatus
  <2>3. status = "ACTIVE" \/ ~LastAdmin(a)
    BY <1>10 DEF SetStatus
  <2> HIDE DEF x
  <2> QED BY <1>4, <2>1, <2>2, <2>3 DEF LastAdmin
<1>11. ASSUME NEW a \in Account, NEW b \in Account, NEW admin \in BOOLEAN, SetAdmin(b, a, admin)
      PROVE  account' \in [Account -> AccountRow] /\ control' \in ControlRow /\ AdminRemains'
  <2> DEFINE x == [account[a] EXCEPT !.admin = admin]
  <2>1. x \in AccountRow /\ x.admin = admin /\ x.status = account[a].status
    BY <1>1 DEF AccountRow
  <2>2. account' = [account EXCEPT ![a] = x] /\ UNCHANGED control
    BY <1>1, <1>11 DEF SetAdmin
  <2>3. admin \/ ~LastAdmin(a)
    BY <1>11 DEF SetAdmin
  <2> HIDE DEF x
  <2> QED BY <1>4, <2>1, <2>2, <2>3 DEF LastAdmin, Active
<1>12. ASSUME NEW credential \in BOOLEAN, account' = Distrusted(credential)
       PROVE  /\ account' \in [Account -> AccountRow]
              /\ \A a \in Account : account'[a].admin = account[a].admin /\ account'[a].status = account[a].status
  <2>1. ASSUME NEW a \in Account
        PROVE  /\ account'[a] \in AccountRow
               /\ account'[a].admin = account[a].admin /\ account'[a].status = account[a].status
    <3>1. account'[a] = [account[a] EXCEPT !.trusted = FALSE, !.credential = account[a].credential /\ credential]
      BY <1>12 DEF Distrusted
    <3>2. account[a] \in AccountRow
      BY <1>1
    <3> QED BY <3>1, <3>2 DEF AccountRow
  <2> QED BY <1>12, <2>1 DEF Distrusted
<1>13. CASE EnterRecovery
  <2>1. account' = Distrusted(FALSE) /\ control' = [initialized |-> TRUE, recovery |-> TRUE]
    BY <1>13 DEF EnterRecovery
  <2> QED BY <1>3, <1>12, <2>1 DEF ControlRow
<1>14. CASE FinishRecovery
  <2>1. account' = Distrusted(TRUE) /\ Administered /\ control' = [control EXCEPT !.recovery = FALSE]
    BY <1>14 DEF FinishRecovery, Administered
  <2>2. Administered'
    BY <1>12, <2>1 DEF Administered, Active
  <2> QED BY <1>1, <1>3, <1>12, <2>1, <2>2 DEF ControlRow
<1> QED BY <1>5, <1>6, <1>7, <1>8, <1>9, <1>10, <1>11, <1>13, <1>14 DEF AccountStep

-----------------------------------------------------------------------------
(* Grants                                                                    *)

\* The roles in force are those of the keys that count.
Counts(a, k) == k = "ADMIN" => account[a].admin

LEMMA RolesInForce ==
  ASSUME NEW a \in Account
  PROVE  /\ \A r : r \in RolesIn(a) <=> Active(a) /\ \E k \in Key : Counts(a, k) /\ r \in grants[a][k]
         /\ \A r : r \in RolesIn(a)' <=> Active(a)' /\ \E k \in Key : Counts(a, k)' /\ r \in grants'[a][k]
<1>1. ASSUME NEW r PROVE r \in RolesIn(a) <=> Active(a) /\ \E k \in Key : Counts(a, k) /\ r \in grants[a][k]
  BY DEF RolesIn, Counts
<1>2. ASSUME NEW r PROVE r \in RolesIn(a)' <=> Active(a)' /\ \E k \in Key : Counts(a, k)' /\ r \in grants'[a][k]
  BY DEF RolesIn, Counts
<1> QED BY <1>1, <1>2

\* Fewer roles conflict no more; OWNER is in no conflict.
LEMMA CompatibleShrinks ==
  ASSUME NEW R, NEW S, R \subseteq S \cup {"OWNER"}, Compatible(S)
  PROVE  Compatible(R)
BY DEF Compatible

\* How a decision or a grant leaves the grants of one account: OWNER stays where
\* it was, the roles in force fit together, and the others keep theirs.
GrantMoves(a) ==
  /\ grants' \in [Account -> GrantRow]
  /\ \A k \in Key : "OWNER" \in grants'[a][k] <=> "OWNER" \in grants[a][k]
  /\ Compatible(RolesIn(a)')
  /\ \A b \in Account : b # a => grants'[b] = grants[b]

\* A grant under one key is written.
LEMMA GrantWritten ==
  ASSUME grants \in [Account -> GrantRow], NEW a \in Account, NEW g \in GrantRow,
         grants' = [grants EXCEPT ![a] = g]
  PROVE  /\ grants' \in [Account -> GrantRow]
         /\ grants'[a] = g
         /\ \A b \in Account : b # a => grants'[b] = grants[b]
OBVIOUS

LEMMA ApproveMoves ==
  ASSUME TypeOK, NEW a \in Account, NEW b \in Account, NEW granted \in RoleSet, ApproveJoin(b, a, granted)
  PROVE  GrantMoves(a) /\ \A r \in RolesIn(a)' : r \in RolesIn(a) \/ r \in granted
<1>1. grants \in [Account -> GrantRow] /\ grants[a] \in GrantRow /\ UNCHANGED account
  BY TypeParts DEF ApproveJoin
<1>2. granted \subseteq Role /\ "OWNER" \notin granted
  BY AskedRoles
<1> DEFINE key == IF OwnGrantIsDerived(b, a) THEN "ADMIN" ELSE "APPLICATION"
           g == [grants[a] EXCEPT ![key] = grants[a][key] \cup granted]
<1>3. key \in Key
  BY KeyMembers
<1>4. g \in GrantRow /\ \A k \in Key : g[k] = IF k = key THEN grants[a][k] \cup granted ELSE grants[a][k]
  <2> HIDE DEF key
  <2> QED BY <1>1, <1>2, <1>3 DEF GrantRow
<1>5. grants' = [grants EXCEPT ![a] = g]
  BY <1>1 DEF ApproveJoin
<1> HIDE DEF g
<1>6. grants' \in [Account -> GrantRow] /\ grants'[a] = g /\ \A c \in Account : c # a => grants'[c] = grants[c]
  BY <1>1, <1>4, <1>5, GrantWritten
<1>7. \A k \in Key : "OWNER" \in grants'[a][k] <=> "OWNER" \in grants[a][k]
  BY <1>2, <1>4, <1>6
<1>8. ASSUME NEW r \in RolesIn(a)' PROVE r \in RolesIn(a) \/ r \in granted
  <2>1. PICK k \in Key : Counts(a, k)' /\ r \in grants'[a][k] /\ Active(a)'
    BY <1>8, RolesInForce
  <2>2. Counts(a, k) /\ Active(a)
    BY <1>1, <2>1 DEF Counts, Active
  <2> HIDE DEF key
  <2>3. r \in grants[a][k] \/ r \in granted
    BY <1>4, <1>6, <2>1
  <2> QED BY <2>2, <2>3, RolesInForce
<1>9. Compatible(RolesIn(a) \cup granted)
  BY DEF ApproveJoin, Fits
<1>10. Compatible(RolesIn(a)')
  BY <1>8, <1>9, CompatibleShrinks
<1> QED BY <1>6, <1>7, <1>8, <1>10 DEF GrantMoves

LEMMA GrantUnderMoves ==
  ASSUME TypeOK, NEW a \in Account, NEW b \in Account, NEW granted \in RoleSet, NEW key \in {"DIRECT", "ADMIN"},
         GrantUnder(b, a, key, granted)
  PROVE  /\ GrantMoves(a)
         /\ key = "DIRECT" => \A r \in RolesIn(a)' : r \in granted \/ (r = "OWNER" /\ "OWNER" \in RolesIn(a))
<1>1. grants \in [Account -> GrantRow] /\ grants[a] \in GrantRow /\ UNCHANGED account
      /\ OwnerKeys(grants[a])
  BY TypeParts DEF GrantUnder
<1>2. granted \subseteq Role /\ "OWNER" \notin granted /\ key \in Key
  BY AskedRoles, KeyMembers
<1> DEFINE rest == Stripped(a, key)
           g == [rest EXCEPT ![key] = granted]
<1>3. /\ rest \in GrantRow
      /\ \A k \in Key : rest[k] = IF key = "ADMIN" /\ k # "ADMIN" THEN grants[a][k] ELSE grants[a][k] \cap {"OWNER"}
  BY <1>1 DEF Stripped, GrantRow
<1>4. grants' = [grants EXCEPT ![a] = g] /\ Compatible((UNION {rest[k] : k \in Key}) \cup granted)
  BY DEF GrantUnder
<1> HIDE DEF rest
<1>5. g \in GrantRow /\ \A k \in Key : g[k] = IF k = key THEN granted ELSE rest[k]
  BY <1>2, <1>3 DEF GrantRow
<1> HIDE DEF g
<1>6. grants' \in [Account -> GrantRow] /\ grants'[a] = g /\ \A c \in Account : c # a => grants'[c] = grants[c]
  BY <1>1, <1>4, <1>5, GrantWritten
<1>7. \A k \in Key : "OWNER" \in grants'[a][k] <=> "OWNER" \in grants[a][k]
  <2>1. "OWNER" \notin grants[a][key]
    BY <1>1, <1>2 DEF OwnerKeys
  <2> QED BY <1>2, <1>3, <1>5, <1>6, <2>1
<1>8. ASSUME NEW r \in RolesIn(a)'
      PROVE  /\ r \in (UNION {rest[k] : k \in Key}) \cup granted
             /\ key = "DIRECT" => r \in granted \/ (r = "OWNER" /\ "OWNER" \in RolesIn(a))
  <2>1. PICK k \in Key : Counts(a, k)' /\ r \in grants'[a][k] /\ Active(a)'
    BY <1>8, RolesInForce
  <2>2. Counts(a, k) /\ Active(a)
    BY <1>1, <2>1 DEF Counts, Active
  <2>3. r \in granted \/ r \in rest[k]
    BY <1>5, <1>6, <2>1
  <2>4. key = "DIRECT" /\ r \in rest[k] => r = "OWNER" /\ r \in grants[a][k]
    BY <1>3
  <2>5. r \in (UNION {rest[i] : i \in Key}) \cup granted
    BY <2>3
  <2>6. r \in grants[a][k] => r \in RolesIn(a)
    BY <2>2, RolesInForce
  <2> QED BY <2>3, <2>4, <2>5, <2>6
<1>9. Compatible(RolesIn(a)')
  BY <1>4, <1>8, CompatibleShrinks
<1> QED BY <1>6, <1>7, <1>8, <1>9 DEF GrantMoves

LEMMA MigrateMoves ==
  ASSUME TypeOK, NEW a \in Account, NEW roles \in RoleSet, MigrateGrant(a, roles)
  PROVE  GrantMoves(a)
<1>1. grants \in [Account -> GrantRow] /\ grants[a] \in GrantRow /\ UNCHANGED account
      /\ OwnerKeys(grants[a])
  BY TypeParts DEF MigrateGrant
<1>2. roles \subseteq Role /\ "OWNER" \notin roles /\ "MIGRATION" \in Key
  BY AskedRoles, KeyMembers
<1> DEFINE g == [grants[a] EXCEPT !["MIGRATION"] = roles]
<1>3. g \in GrantRow /\ \A k \in Key : g[k] = IF k = "MIGRATION" THEN roles ELSE grants[a][k]
  BY <1>1, <1>2 DEF GrantRow
<1>4. grants' = [grants EXCEPT ![a] = g]
  BY <1>1 DEF MigrateGrant
<1> HIDE DEF g
<1>5. grants' \in [Account -> GrantRow] /\ grants'[a] = g /\ \A c \in Account : c # a => grants'[c] = grants[c]
  BY <1>1, <1>3, <1>4, GrantWritten
<1>6. \A k \in Key : "OWNER" \in grants'[a][k] <=> "OWNER" \in grants[a][k]
  <2>1. "OWNER" \notin grants[a]["MIGRATION"]
    BY <1>1, <1>2 DEF OwnerKeys
  <2> QED BY <1>2, <1>3, <1>5, <2>1
<1>7. ASSUME NEW r \in RolesIn(a)' PROVE r \in RolesIn(a) \cup roles
  <2>1. PICK k \in Key : Counts(a, k)' /\ r \in grants'[a][k] /\ Active(a)'
    BY <1>7, RolesInForce
  <2>2. Counts(a, k) /\ Active(a)
    BY <1>1, <2>1 DEF Counts, Active
  <2>3. r \in roles \/ r \in grants[a][k]
    BY <1>3, <1>5, <2>1
  <2> QED BY <2>2, <2>3, RolesInForce
<1>8. Compatible(RolesIn(a)')
  <2>1. Compatible(RolesIn(a) \cup roles)
    BY DEF MigrateGrant, Fits
  <2> QED BY <1>7, <2>1, CompatibleShrinks
<1> QED BY <1>5, <1>6, <1>8 DEF GrantMoves

\* A decision or a grant moves the grants of one account.
LEMMA GrantStepMoves ==
  ASSUME TypeOK, GrantStep
  PROVE  (\E a \in Account : GrantMoves(a)) /\ pending' \in [Account -> ApplicationRow]
<1>1. pending \in [Account -> ApplicationRow]
  BY TypeParts
<1>2. ASSUME NEW a \in Account, NEW b \in Account, NEW granted \in RoleSet, ApproveJoin(b, a, granted)
      PROVE  GrantMoves(a) /\ pending' \in [Account -> ApplicationRow]
  BY <1>1, <1>2, ApproveMoves DEF ApproveJoin, ApplicationRow
<1>3. ASSUME NEW a \in Account, NEW b \in Account, NEW granted \in RoleSet, Grant(b, a, granted)
      PROVE  GrantMoves(a) /\ pending' \in [Account -> ApplicationRow]
  BY <1>1, <1>3, GrantUnderMoves DEF Grant, GrantUnder
<1>4. ASSUME NEW a \in Account, NEW roles \in RoleSet, MigrateGrant(a, roles)
      PROVE  GrantMoves(a) /\ pending' \in [Account -> ApplicationRow]
  BY <1>1, <1>4, MigrateMoves DEF MigrateGrant
<1> QED BY <1>2, <1>3, <1>4 DEF GrantStep

-----------------------------------------------------------------------------
(* The owner                                                                 *)

\* Nobody owns a space that is not there.
Unowned == space.status = "NONE" => space.owner = NoAccount

Holds(a) == \E k \in Key : "OWNER" \in grants[a][k]

\* The new owner is the account the row names, and no other role is given.
Crowned(a) ==
  /\ grants' \in [Account -> GrantRow]
  /\ \A b \in Account : OwnerKeys(grants'[b])
  /\ \A b \in Account : Holds(b)' <=> b = a
  /\ \A b \in Account, k \in Key : grants'[b][k] \subseteq grants[b][k] \cup {"OWNER"}

\* A transfer or a designation takes OWNER from everybody else.
LEMMA CrownMoves ==
  ASSUME TypeOK, NEW a \in Account, grants' = Crown(a)
  PROVE  Crowned(a)
<1>1. grants \in [Account -> GrantRow] /\ \A b \in Account : OwnerKeys(grants[b])
  BY TypeParts
<1>2. ASSUME NEW b \in Account, NEW k \in Key
      PROVE  grants'[b][k] = IF b = a /\ k = "OWNER" THEN {"OWNER"} ELSE grants[b][k] \ {"OWNER"}
  BY DEF Crown
<1>3. \A b \in Account, k \in Key : "OWNER" \in grants'[b][k] <=> b = a /\ k = "OWNER"
  BY <1>2
<1>4. grants' \in [Account -> GrantRow]
  <2>1. ASSUME NEW b \in Account PROVE grants'[b] \in GrantRow
    <3>1. ASSUME NEW k \in Key PROVE grants'[b][k] \in SUBSET (Role \cup {"OWNER"})
      <4>1. grants[b][k] \in SUBSET (Role \cup {"OWNER"})
        BY <1>1 DEF GrantRow
      <4>2. CASE b = a /\ k = "OWNER"
        BY <1>2, <4>2
      <4>3. CASE ~(b = a /\ k = "OWNER")
        <5>1. grants'[b][k] = grants[b][k] \ {"OWNER"}
          BY <1>2, <4>3
        <5> QED BY <4>1, <5>1
      <4> QED BY <4>2, <4>3
    <3>2. grants'[b] = [k \in Key |-> IF b = a /\ k = "OWNER" THEN {"OWNER"} ELSE grants[b][k] \ {"OWNER"}]
      BY DEF Crown
    <3> QED BY <3>1, <3>2 DEF GrantRow
  <2> QED BY <2>1 DEF Crown
<1>5. \A b \in Account : Holds(b)' <=> b = a
  BY <1>3, KeyMembers DEF Holds
<1>6. \A b \in Account : OwnerKeys(grants'[b])
  BY <1>3 DEF OwnerKeys
<1>7. ASSUME NEW b \in Account, NEW k \in Key
      PROVE  grants'[b][k] \subseteq grants[b][k] \cup {"OWNER"}
  <2>1. CASE b = a /\ k = "OWNER"
    BY <1>2, <2>1
  <2>2. CASE ~(b = a /\ k = "OWNER")
    <3>1. grants'[b][k] = grants[b][k] \ {"OWNER"}
      BY <1>2, <2>2
    <3> QED BY <3>1
  <2> QED BY <2>1, <2>2
<1> QED BY <1>4, <1>5, <1>6, <1>7 DEF Crowned

\* Where nobody owned anything, one account is given OWNER under one key.
LEMMA FirstOwner ==
  ASSUME TypeOK, OneOwner, Unowned, space.status = "NONE",
         NEW a \in Account, NEW key \in {"APPLICATION", "OWNER"}, NEW roles,
         roles \in {{"OWNER"}, grants[a][key] \cup {"OWNER"}},
         grants' = [grants EXCEPT ![a][key] = roles]
  PROVE  Crowned(a)
<1>1. grants \in [Account -> GrantRow] /\ grants[a] \in GrantRow /\ \A b \in Account : OwnerKeys(grants[b])
  BY TypeParts
<1>2. key \in Key
  BY KeyMembers
<1>3. \A b \in Account, k \in Key : "OWNER" \notin grants[b][k]
  BY DEF OneOwner, Unowned
<1> DEFINE g == [grants[a] EXCEPT ![key] = roles]
<1>4. g \in GrantRow /\ \A k \in Key : g[k] = IF k = key THEN roles ELSE grants[a][k]
  BY <1>1, <1>2 DEF GrantRow
<1>5. grants' = [grants EXCEPT ![a] = g]
  BY <1>1
<1> HIDE DEF g
<1>6. grants' \in [Account -> GrantRow] /\ grants'[a] = g /\ \A c \in Account : c # a => grants'[c] = grants[c]
  BY <1>1, <1>4, <1>5, GrantWritten
<1>7. ASSUME NEW b \in Account, NEW k \in Key
      PROVE  "OWNER" \in grants'[b][k] <=> b = a /\ k = key
  <2>1. "OWNER" \notin grants[b][k]
    BY <1>3
  <2>2. "OWNER" \in roles
    OBVIOUS
  <2>3. CASE b = a
    BY <1>4, <1>6, <2>1, <2>2, <2>3
  <2>4. CASE b # a
    BY <1>6, <2>1, <2>4
  <2> QED BY <2>3, <2>4
<1>8. \A b \in Account : Holds(b)' <=> b = a
  BY <1>2, <1>7 DEF Holds
<1>9. \A b \in Account : OwnerKeys(grants'[b])
  BY <1>7 DEF OwnerKeys
<1>10. \A b \in Account, k \in Key : grants'[b][k] \subseteq grants[b][k] \cup {"OWNER"}
  BY <1>4, <1>6
<1> QED BY <1>6, <1>8, <1>9, <1>10 DEF Crowned

\* Every step that makes an owner names it in the row of the space.
LEMMA OwnerStepMoves ==
  ASSUME TypeOK, OneOwner, Unowned, OwnerStep
  PROVE  /\ \E a \in Account : Crowned(a) /\ space'.owner = a
         /\ space' \in SpaceRow
         /\ space'.status # "NONE"
         /\ pending' \in [Account -> ApplicationRow]
<1>1. pending \in [Account -> ApplicationRow] /\ space \in SpaceRow
  BY TypeParts
<1>2. ASSUME NEW a \in Account, AcceptOwnership(a) \/ \E b \in Account : DesignateOwner(b, a)
      PROVE  /\ Crowned(a) /\ space'.owner = a /\ space' \in SpaceRow /\ space'.status # "NONE"
             /\ pending' \in [Account -> ApplicationRow]
  <2>1. /\ grants' = Crown(a) /\ space' = [space EXCEPT !.owner = a, !.successor = NoAccount]
        /\ space.status # "NONE" /\ UNCHANGED pending
    BY <1>2 DEF AcceptOwnership, DesignateOwner
  <2>2. space' \in SpaceRow /\ space'.owner = a /\ space'.status = space.status
    BY <1>1, <2>1 DEF SpaceRow
  <2> QED BY <1>1, <2>1, <2>2, CrownMoves
<1>3. ASSUME NEW a \in Account, NEW b \in Account, ApproveCreate(b, a)
      PROVE  /\ Crowned(a) /\ space'.owner = a /\ space' \in SpaceRow /\ space'.status # "NONE"
             /\ pending' \in [Account -> ApplicationRow]
  <2>1. /\ space.status = "NONE"
        /\ grants' = [grants EXCEPT ![a]["APPLICATION"] = grants[a]["APPLICATION"] \cup {"OWNER"}]
        /\ space' = [status |-> "ACTIVE", owner |-> a, successor |-> NoAccount]
        /\ pending' = [pending EXCEPT ![a].create = FALSE]
    BY <1>3, KeyMembers, TypeParts DEF ApproveCreate, GrantRow
  <2>2. pending' \in [Account -> ApplicationRow]
    BY <1>1, <2>1 DEF ApplicationRow
  <2>3. Crowned(a)
    BY <2>1, FirstOwner
  <2> QED BY <2>1, <2>2, <2>3 DEF SpaceRow
<1>4. ASSUME NEW a \in Account, NEW status \in {"ACTIVE", "DELETED"}, MigrateOwner(a, status)
      PROVE  /\ Crowned(a) /\ space'.owner = a /\ space' \in SpaceRow /\ space'.status # "NONE"
             /\ pending' \in [Account -> ApplicationRow]
  <2>1. /\ space.status = "NONE" /\ UNCHANGED pending
        /\ grants' = [grants EXCEPT ![a]["OWNER"] = {"OWNER"}]
        /\ space' = [status |-> status, owner |-> a, successor |-> NoAccount]
    BY <1>4 DEF MigrateOwner
  <2>2. Crowned(a)
    BY <2>1, FirstOwner
  <2> QED BY <1>1, <2>1, <2>2 DEF SpaceRow
<1> QED BY <1>2, <1>3, <1>4 DEF OwnerStep

-----------------------------------------------------------------------------
(* The invariant                                                             *)

AccessInv ==
  /\ TypeOK
  /\ AdminRemains
  /\ OneOwner
  /\ Unowned

LEMMA TypedNext ==
  ASSUME account' \in [Account -> AccountRow], control' \in ControlRow, space' \in SpaceRow,
         grants' \in [Account -> GrantRow], pending' \in [Account -> ApplicationRow],
         \A a \in Account : OwnerKeys(grants'[a])
  PROVE  TypeOK'
BY DEF TypeOK, AccountRow, ControlRow, SpaceRow, GrantRow, ApplicationRow, OwnerKeys

\* The holders of OWNER are nobody or the account the row names.
LEMMA OwnerHolds ==
  /\ space \in SpaceRow =>
       (OneOwner <=> \A a \in Account : Holds(a) <=> (a = space.owner /\ a # NoAccount))
  /\ space' \in SpaceRow =>
       (OneOwner' <=> \A a \in Account : Holds(a)' <=> (a = space'.owner /\ a # NoAccount))
<1>1. ASSUME NEW S, NEW o \in Account \cup {NoAccount}, S \subseteq Account
      PROVE  S = {o} \ {NoAccount} <=> \A a \in Account : a \in S <=> (a = o /\ a # NoAccount)
  <2>1. ASSUME \A a \in Account : a \in S <=> (a = o /\ a # NoAccount)
        PROVE  S = {o} \ {NoAccount}
    <3>1. ASSUME NEW x \in S PROVE x \in {o} \ {NoAccount}
      BY <1>1, <2>1, <3>1
    <3>2. ASSUME NEW x \in {o} \ {NoAccount} PROVE x \in S
      BY <1>1, <2>1, <3>2
    <3> QED BY <3>1, <3>2
  <2>2. ASSUME S = {o} \ {NoAccount}
        PROVE  \A a \in Account : a \in S <=> (a = o /\ a # NoAccount)
    BY <2>2
  <2> QED BY <2>1, <2>2
<1> DEFINE S == {a \in Account : Holds(a)}
           T == {a \in Account : Holds(a)'}
<1>2. /\ OneOwner <=> S = {space.owner} \ {NoAccount}
      /\ OneOwner' <=> T = {space'.owner} \ {NoAccount}
  BY DEF OneOwner, Holds
<1>3. /\ space \in SpaceRow => space.owner \in Account \cup {NoAccount}
      /\ space' \in SpaceRow => space'.owner \in Account \cup {NoAccount}
  BY DEF SpaceRow
<1>4. /\ S \subseteq Account /\ \A a \in Account : a \in S <=> Holds(a)
      /\ T \subseteq Account /\ \A a \in Account : a \in T <=> Holds(a)'
  OBVIOUS
<1> HIDE DEF S, T
<1>5. space \in SpaceRow =>
        (S = {space.owner} \ {NoAccount} <=> \A a \in Account : a \in S <=> (a = space.owner /\ a # NoAccount))
  BY <1>1, <1>3, <1>4
<1>6. space' \in SpaceRow =>
        (T = {space'.owner} \ {NoAccount} <=> \A a \in Account : a \in T <=> (a = space'.owner /\ a # NoAccount))
  BY <1>1, <1>3, <1>4
<1> QED BY <1>2, <1>4, <1>5, <1>6

LEMMA ApplicationsKept ==
  ASSUME TypeOK, ApplicationStep
  PROVE  pending' \in [Account -> ApplicationRow]
<1>1. pending \in [Account -> ApplicationRow]
  BY TypeParts
<1>2. ASSUME NEW a \in Account, ApplyCreate(a) \/ WithdrawCreate(a) \/ WithdrawJoin(a)
      PROVE  pending' \in [Account -> ApplicationRow]
  BY <1>1, <1>2 DEF ApplyCreate, WithdrawCreate, WithdrawJoin, ApplicationRow
<1>3. ASSUME NEW a \in Account, NEW roles \in RoleSet, ApplyJoin(a, roles)
      PROVE  pending' \in [Account -> ApplicationRow]
  BY <1>1, <1>3, AskedRoles DEF ApplyJoin, ApplicationRow
<1>4. ASSUME NEW a \in Account, NEW b \in Account, RejectCreate(b, a) \/ RejectJoin(b, a)
      PROVE  pending' \in [Account -> ApplicationRow]
  BY <1>1, <1>4 DEF RejectCreate, RejectJoin, ApplicationRow
<1> QED BY <1>2, <1>3, <1>4 DEF ApplicationStep

\* An offer names a successor, a lifecycle event a status: the owner stays.
LEMMA SpaceRowKept ==
  ASSUME TypeOK, SpaceRowStep
  PROVE  /\ space' \in SpaceRow /\ space'.owner = space.owner
         /\ space.status # "NONE"
         /\ space'.status # "NONE"
<1>1. space \in SpaceRow
  BY TypeParts
<1>2. ASSUME NEW a \in Account, Lifecycle(a)
      PROVE  /\ space' \in SpaceRow /\ space'.owner = space.owner
             /\ space.status # "NONE" /\ space'.status # "NONE"
  BY <1>1, <1>2 DEF Lifecycle, MoveSpace, SpaceRow
<1>3. ASSUME NEW a \in Account, NEW b \in Account, OfferOwnership(b, a)
      PROVE  /\ space' \in SpaceRow /\ space'.owner = space.owner
             /\ space.status # "NONE" /\ space'.status # "NONE"
  BY <1>1, <1>3 DEF OfferOwnership, SpaceRow
<1> QED BY <1>2, <1>3 DEF SpaceRowStep

LEMMA AccessInit == Init => AccessInv
<1> SUFFICES ASSUME Init PROVE AccessInv
  OBVIOUS
<1>1. /\ account = [a \in Account |-> NobodyYet] /\ control = [initialized |-> FALSE, recovery |-> FALSE]
      /\ space = NoSpace /\ grants = [a \in Account |-> NoGrants] /\ pending = [a \in Account |-> NoApplication]
  BY DEF Init
<1>2. /\ NobodyYet \in AccountRow /\ NoSpace \in SpaceRow /\ NoGrants \in GrantRow
      /\ NoApplication \in ApplicationRow
  BY DEF NobodyYet, AccountRow, NoSpace, SpaceRow, NoGrants, GrantRow, NoApplication, ApplicationRow
<1>3. \A k \in Key : NoGrants[k] = {}
  BY DEF NoGrants
<1>4. TypeOK
  BY <1>1, <1>2, <1>3, TypeParts DEF OwnerKeys, ControlRow
<1>5. AdminRemains
  BY <1>1 DEF AdminRemains
<1>6. OneOwner /\ Unowned
  BY <1>1, <1>3 DEF OneOwner, Unowned, NoSpace
<1> QED BY <1>4, <1>5, <1>6 DEF AccessInv

LEMMA AccessNext == AccessInv /\ [Next]_vars => AccessInv'
<1> SUFFICES ASSUME AccessInv, [Next]_vars PROVE AccessInv'
  OBVIOUS
<1>1. /\ account \in [Account -> AccountRow] /\ control \in ControlRow /\ space \in SpaceRow
      /\ grants \in [Account -> GrantRow] /\ pending \in [Account -> ApplicationRow]
      /\ \A a \in Account : OwnerKeys(grants[a])
  BY TypeParts DEF AccessInv
<1>2. CASE AccountStep
  <2>1. UNCHANGED <<space, grants, pending>>
    BY <1>2, StepsLeave
  <2>2. account' \in [Account -> AccountRow] /\ control' \in ControlRow /\ AdminRemains'
    BY <1>2, AccountsKept DEF AccessInv
  <2>3. OneOwner' /\ Unowned'
    BY <2>1 DEF AccessInv, OneOwner, Unowned
  <2> QED BY <1>1, <2>1, <2>2, <2>3, TypedNext DEF AccessInv
<1>3. CASE ApplicationStep
  <2>1. UNCHANGED <<account, control, space, grants>>
    BY <1>3, StepsLeave
  <2>2. pending' \in [Account -> ApplicationRow]
    BY <1>3, ApplicationsKept DEF AccessInv
  <2>3. OneOwner' /\ Unowned' /\ AdminRemains'
    BY <2>1 DEF AccessInv, OneOwner, Unowned, AdminRemains, Active
  <2> QED BY <1>1, <2>1, <2>2, <2>3, TypedNext DEF AccessInv
<1>4. CASE SpaceRowStep
  <2>1. UNCHANGED <<account, control, grants, pending>>
    BY <1>4, StepsLeave
  <2>2. space' \in SpaceRow /\ space'.owner = space.owner /\ space'.status # "NONE"
    BY <1>4, SpaceRowKept DEF AccessInv
  <2>3. OneOwner' /\ Unowned' /\ AdminRemains'
    BY <2>1, <2>2 DEF AccessInv, OneOwner, Unowned, AdminRemains, Active
  <2> QED BY <1>1, <2>1, <2>2, <2>3, TypedNext DEF AccessInv
<1>5. CASE GrantStep
  <2>1. UNCHANGED <<account, control, space>>
    BY <1>5, StepsLeave
  <2>2. pending' \in [Account -> ApplicationRow]
    BY <1>5, GrantStepMoves DEF AccessInv
  <2>3. PICK a \in Account : GrantMoves(a)
    BY <1>5, GrantStepMoves DEF AccessInv
  <2>4. \A b \in Account, k \in Key : "OWNER" \in grants'[b][k] <=> "OWNER" \in grants[b][k]
    BY <2>3 DEF GrantMoves
  <2>5. \A b \in Account : OwnerKeys(grants'[b])
    BY <1>1, <2>4 DEF OwnerKeys
  <2>6. OneOwner' /\ Unowned' /\ AdminRemains'
    <3>1. \A b \in Account : Holds(b)' <=> Holds(b)
      BY <2>4 DEF Holds
    <3>2. OneOwner'
      BY <1>1, <2>1, <3>1, OwnerHolds DEF AccessInv
    <3> QED BY <2>1, <3>2 DEF AccessInv, Unowned, AdminRemains, Active
  <2> QED BY <1>1, <2>1, <2>2, <2>3, <2>5, <2>6, TypedNext DEF AccessInv, GrantMoves
<1>6. CASE OwnerStep
  <2>1. UNCHANGED <<account, control>>
    BY <1>6, StepsLeave
  <2>2. /\ \E a \in Account : Crowned(a) /\ space'.owner = a
        /\ space' \in SpaceRow /\ space'.status # "NONE"
        /\ pending' \in [Account -> ApplicationRow]
    BY <1>6, OwnerStepMoves DEF AccessInv
  <2>3. PICK a \in Account : Crowned(a) /\ space'.owner = a
    BY <2>2
  <2>4. OneOwner'
    BY <2>2, <2>3, OwnerHolds, AccountsAreSomebody DEF Crowned
  <2>5. Unowned' /\ AdminRemains'
    BY <2>1, <2>2 DEF AccessInv, Unowned, AdminRemains, Active
  <2> QED BY <1>1, <2>1, <2>2, <2>3, <2>4, <2>5, TypedNext DEF AccessInv, Crowned
<1>7. CASE RestoreOldArchive
  <2>1. /\ account' = [a \in Account |-> NobodyYet] /\ control' = [initialized |-> TRUE, recovery |-> TRUE]
        /\ space' = NoSpace /\ grants' = [a \in Account |-> NoGrants]
        /\ pending' = [a \in Account |-> NoApplication]
    BY <1>7 DEF RestoreOldArchive
  <2>2. /\ NobodyYet \in AccountRow /\ NoSpace \in SpaceRow /\ NoGrants \in GrantRow
        /\ NoApplication \in ApplicationRow
    BY DEF NobodyYet, AccountRow, NoSpace, SpaceRow, NoGrants, GrantRow, NoApplication, ApplicationRow
  <2>3. \A k \in Key : NoGrants[k] = {}
    BY DEF NoGrants
  <2>4. TypeOK'
    BY <2>1, <2>2, <2>3, TypedNext DEF OwnerKeys, ControlRow
  <2>5. AdminRemains'
    BY <2>1 DEF AdminRemains
  <2>6. OneOwner' /\ Unowned'
    BY <2>1, <2>3 DEF OneOwner, Unowned, NoSpace
  <2> QED BY <2>4, <2>5, <2>6 DEF AccessInv
<1>8. CASE UNCHANGED vars
  BY <1>8 DEF vars, AccessInv, TypeOK, AdminRemains, Active, OneOwner, Unowned
<1> QED BY <1>2, <1>3, <1>4, <1>5, <1>6, <1>7, <1>8, StepKinds

LEMMA AccessCorrect == Spec => []AccessInv
BY AccessInit, AccessNext, PTL DEF Spec

-----------------------------------------------------------------------------
(* What a step may do to the roles in force                                  *)

\* Where the account and its grants rest, so do the roles in force.
LEMMA RolesRest ==
  ASSUME NEW a \in Account, account'[a] = account[a], grants'[a] = grants[a]
  PROVE  RolesIn(a)' = RolesIn(a)
BY DEF RolesIn, Active

LEMMA ConflictsNext ==
  ASSUME AccessInv, Next, grants' # grants, NEW a \in Account, Conflicted(a)'
  PROVE  Conflicted(a)
<1>1. TypeOK /\ OneOwner /\ Unowned
  BY DEF AccessInv
<1>2. ~Compatible(RolesIn(a)')
  BY DEF Conflicted, Compatible
<1>3. CASE GrantStep
  <2>1. PICK b \in Account : GrantMoves(b)
    BY <1>1, <1>3, GrantStepMoves
  <2>2. a # b
    BY <1>2, <2>1 DEF GrantMoves
  <2>3. RolesIn(a)' = RolesIn(a)
    BY <1>3, <2>1, <2>2, StepsLeave, RolesRest DEF GrantMoves
  <2> QED BY <1>2, <2>3 DEF Conflicted
<1>4. CASE OwnerStep
  <2>1. PICK b \in Account : Crowned(b)
    BY <1>1, <1>4, OwnerStepMoves
  <2>2. UNCHANGED account
    BY <1>4, StepsLeave
  <2>3. ASSUME NEW r \in RolesIn(a)' PROVE r \in RolesIn(a) \cup {"OWNER"}
    <3>1. PICK k \in Key : Counts(a, k)' /\ r \in grants'[a][k] /\ Active(a)'
      BY <2>3, RolesInForce
    <3>2. Counts(a, k) /\ Active(a)
      BY <2>2, <3>1 DEF Counts, Active
    <3>3. r \in grants[a][k] \cup {"OWNER"}
      BY <2>1, <3>1 DEF Crowned
    <3> QED BY <3>2, <3>3, RolesInForce
  <2>4. ~Compatible(RolesIn(a))
    BY <1>2, <2>3, CompatibleShrinks
  <2> QED BY <2>4 DEF Conflicted
<1>5. CASE RestoreOldArchive
  <2>1. account'[a].status = "NONE"
    BY <1>5 DEF RestoreOldArchive, NobodyYet
  <2>2. RolesIn(a)' = {}
    BY <2>1 DEF RolesIn, Active
  <2> QED BY <1>2, <2>2 DEF Compatible
<1> QED BY <1>3, <1>4, <1>5, StepKinds, StepsLeave

\* What a permission administrator, neither owner nor administrator, decides or
\* grants concerns somebody else who manages neither before nor after.
LEMMA ManagersNext ==
  ASSUME AccessInv, NEW a \in Account, NEW b \in Account, ~Owns(b), Management(b, a)
  PROVE  Managers' = Managers
<1>1. TypeOK
  BY DEF AccessInv
<1>2. ASSUME UNCHANGED account, \A c \in Account : c # a => grants'[c] = grants[c],
             ~Manages(RolesIn(a)), ~Manages(RolesIn(a)')
      PROVE  Managers' = Managers
  <2>1. ASSUME NEW c \in Account PROVE Manages(RolesIn(c)') <=> Manages(RolesIn(c))
    <3>1. CASE c = a
      BY <1>2, <3>1
    <3>2. CASE c # a
      BY <1>2, <3>2, RolesRest
    <3> QED BY <3>1, <3>2
  <2>2. Managers' = {c \in Account : Manages(RolesIn(c)')}
    BY DEF Managers, Manages
  <2> QED BY <2>1, <2>2 DEF Managers
<1>3. ASSUME RejectJoin(b, a) \/ OfferOwnership(b, a)
      PROVE  Managers' = Managers
  <2>1. UNCHANGED <<account, grants>>
    BY <1>3 DEF RejectJoin, OfferOwnership
  <2> QED BY <2>1 DEF Managers, Manages, RolesIn, Active
<1>4. ASSUME NEW granted \in RoleSet, ApproveJoin(b, a, granted)
      PROVE  Managers' = Managers
  <2>1. ~Manages(granted) /\ ~Manages(RolesIn(a)) /\ UNCHANGED account
    BY <1>4 DEF ApproveJoin, MayDecide
  <2>2. GrantMoves(a) /\ \A r \in RolesIn(a)' : r \in RolesIn(a) \/ r \in granted
    BY <1>1, <1>4, ApproveMoves
  <2>3. ~Manages(RolesIn(a)')
    BY <2>1, <2>2 DEF Manages
  <2> QED BY <1>2, <2>1, <2>2, <2>3 DEF GrantMoves
<1>5. ASSUME NEW granted \in RoleSet, Grant(b, a, granted)
      PROVE  Managers' = Managers
  <2>1. /\ ~Manages(granted) /\ ~Manages(RolesIn(a)) /\ a # b /\ UNCHANGED account
        /\ GrantUnder(b, a, "DIRECT", granted)
    BY <1>5 DEF Grant, GrantUnder, MayDecide
  <2>2. GrantMoves(a) /\ \A r \in RolesIn(a)' : r \in granted \/ (r = "OWNER" /\ "OWNER" \in RolesIn(a))
    BY <1>1, <2>1, GrantUnderMoves
  <2>3. ~Manages(RolesIn(a)')
    BY <2>1, <2>2 DEF Manages
  <2> QED BY <1>2, <2>1, <2>2, <2>3 DEF GrantMoves
<1> QED BY <1>3, <1>4, <1>5 DEF Management

-----------------------------------------------------------------------------
(* The theorems                                                              *)

(* The rows of accounts, grants and applications keep their types, and no    *)
(* decision, grant or migration writes OWNER outside an approved application *)
(* or a transfer (spaces.js).                                                *)
THEOREM TypeCorrect == Spec => []TypeOK
<1>1. AccessInv => TypeOK
  BY DEF AccessInv
<1> QED BY <1>1, AccessCorrect, PTL

(* However approvals, transfers, designations and migrations follow on each  *)
(* other, OWNER is held by the account the row of the space names and by     *)
(* nobody else (spaces.js, transfer and designateOwner).                     *)
THEOREM OneOwnerCorrect == Spec => []OneOwner
<1>1. AccessInv => OneOwner
  BY DEF AccessInv
<1> QED BY <1>1, AccessCorrect, PTL

(* Administrators disable and demote each other, passwords are reset, an     *)
(* archive is restored: out of recovery an administrator can log in          *)
(* (accounts.js, protectLastAdmin; operations.js, finishRecovery).           *)
THEOREM AdminRemainsCorrect == Spec => []AdminRemains
<1>1. AccessInv => AdminRemains
  BY DEF AccessInv
<1> QED BY <1>1, AccessCorrect, PTL

(* A decision, a grant, a migration or a change of owner never brings a      *)
(* business and a compliance role together in one account (spaces.js,        *)
(* roleSet in decide and grant): only a change of the account itself can.    *)
THEOREM ConflictsOnlyReturnCorrect == Spec => ConflictsOnlyReturn
<1>1. AccessInv /\ [Next]_vars =>
        [grants' # grants => \A a \in Account : Conflicted(a)' => Conflicted(a)]_vars
  BY ConflictsNext
<1> QED BY <1>1, AccessCorrect, PTL DEF Spec, ConflictsOnlyReturn

(* A permission administrator who is neither owner nor administrator neither *)
(* makes nor unmakes a manager, itself included (spaces.js,                  *)
(* AUTH_SELF_ESCALATION in decide and grant).                                *)
THEOREM ManagersAppointedCorrect == Spec => ManagersAppointed
<1>1. AccessInv /\ [Next]_vars =>
        [Managers' # Managers => \A a, b \in Account : ~Owns(b) => ~Management(b, a)]_vars
  BY ManagersNext
<1> QED BY <1>1, AccessCorrect, PTL DEF Spec, ManagersAppointed
=============================================================================
