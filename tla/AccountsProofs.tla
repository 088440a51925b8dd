--------------------------- MODULE AccountsProofs ---------------------------
(***************************************************************************)
(* Proofs about Accounts for any number of requests, users, names and      *)
(* passwords, any seed, bodies and token lifetime, and any bounds.         *)
(***************************************************************************)
EXTENDS Accounts, TLAPS

LEMMA LifetimeType == Lifetime \in Nat \ {0}
BY AccountsAssumption DEF Lifetime

(* What a handler holds between two steps, by where it is. *)
LEMMA Held ==
  ASSUME NEW h \in Handling
  PROVE  /\ h.pc = "verify" => h.uid \in Users /\ h.row \in Rows /\ h.pass \in Passwords
         /\ h.pc = "insert" => h.row \in Rows
         /\ h.pc = "write" => h.uid \in Users /\ h.row \in Rows /\ h.body \in Patches
         /\ h.pc = "refer" => h.uid \in Users
BY DEF Handling, Idle

(* A body replaces fields of a row by what it asks for, and by nothing     *)
(* else: the three ways the handler tests its fields agree.                *)
LEMMA PatchedIsAsked ==
  ASSUME NEW row \in Rows, NEW b \in Patches
  PROVE  Patched(row, b) \in Rows /\ Patched(row, b) = Asked(row, b)
<1>1. b \in Bodies
  BY AccountsAssumption
<1>2. DOMAIN row = {"name", "pass", "role", "status"}
  BY DEF Rows
<1>3. Patched(row, b) \in Rows
  BY <1>1 DEF Patched, Bodies, Rows, Roles, Statuses, Absent
<1>4. /\ Patched(row, b).name = Asked(row, b).name
      /\ Patched(row, b).pass = Asked(row, b).pass
  BY <1>1, <1>2 DEF Patched, Asked
<1>5. Patched(row, b).role = Asked(row, b).role
  BY <1>1, <1>2 DEF Patched, Asked, Bodies, Roles, Absent
<1>6. Patched(row, b).status = Asked(row, b).status
  BY <1>1, <1>2 DEF Patched, Asked, Bodies, Statuses, Absent
<1>7. /\ Asked(row, b) = [f \in {"name", "pass", "role", "status"} |-> Asked(row, b)[f]]
      /\ Patched(row, b) = [f \in {"name", "pass", "role", "status"} |-> Patched(row, b)[f]]
  BY <1>2 DEF Asked, Patched
<1>8. QED
  BY <1>3, <1>4, <1>5, <1>6, <1>7

(* Three actions change table users. *)
Quiet == UNCHANGED <<users, used, want, held>>
TableStep ==
  \/ \E r \in Requests : InsertUser(r) \/ UpdateWrite(r)
  \/ \E t \in tokens, u \in Users : DeleteUser(t, u)

LEMMA Steps == Next => Quiet \/ TableStep
BY DEF Next, LoginStep, RegisterStep, CreateUserStep, UpdateUserStep, SubmitStep,
   LoginRead, LoginIssue, RegisterCheck, CreateCheck, UpdateRead, Submit, InsertReference,
   Forget, Tick, tableVars, history, Quiet, TableStep

-----------------------------------------------------------------------------
LEMMA InitTypes == Init => TypeOK
BY AccountsAssumption DEF Init, TypeOK, Handling, Roles

(* The three table actions. *)
LEMMA InsertTypes ==
  ASSUME TypeOK, NEW r \in Requests, InsertUser(r)
  PROVE  TypeOK'
<1> USE DEF TypeOK
<1>1. req[r].row \in Rows /\ Idle \in Handling
  BY Held DEF InsertUser, Handling
<1>2. /\ used' \subseteq Users /\ DOMAIN users' \subseteq used'
      /\ DOMAIN want' = DOMAIN users'
      /\ users' \in [DOMAIN users' -> Rows] /\ want' \in [DOMAIN users' -> Rows]
  <2>1. CASE GetByUsername(req[r].row.name) # {}
    BY <2>1 DEF InsertUser, CreateRow
  <2>2. CASE GetByUsername(req[r].row.name) = {}
    <3>1. PICK u \in Users \ used :
            /\ users' = Put(users, u, req[r].row) /\ want' = Put(want, u, req[r].row)
            /\ used' = used \cup {u}
      BY <2>2 DEF InsertUser, CreateRow
    <3>2. QED
      BY <1>1, <3>1 DEF Put
  <2>3. QED
    BY <2>1, <2>2
<1>3. QED
  BY <1>1, <1>2 DEF InsertUser, Answer

LEMMA RememberTypes ==
  ASSUME TypeOK, NEW u \in Users, Remember(u)
  PROVE  held' \in [Users -> [Roles -> 0..MaxTime]]
<1>1. [x \in Roles |-> LastHeld(u, x)] \in [Roles -> 0..MaxTime]
  BY AccountsAssumption DEF TypeOK, LastHeld
<1>2. QED
  BY <1>1 DEF TypeOK, Remember

LEMMA WriteTypes ==
  ASSUME TypeOK, NEW r \in Requests, UpdateWrite(r)
  PROVE  TypeOK'
<1> DEFINE u == req[r].uid
           b == req[r].body
           new == Patched(req[r].row, b)
           old == IF u \in DOMAIN want THEN want[u] ELSE req[r].row
<1> USE DEF TypeOK
<1>1. u \in Users /\ req[r].row \in Rows /\ b \in Patches /\ Idle \in Handling
  BY Held DEF UpdateWrite, Handling
<1>2. new \in Rows /\ Asked(old, b) \in Rows
  BY <1>1, PatchedIsAsked
<1>3. CASE u \in DOMAIN users /\ GetByUsername(new.name) \subseteq {u}
  <2>1. /\ users' = Put(users, u, new) /\ Remember(u)
        /\ want' = Put(want, u, IF u \in raced THEN new ELSE Asked(old, b))
    BY <1>3 DEF UpdateWrite, WriteRow
  <2>2. /\ DOMAIN users' = DOMAIN users /\ DOMAIN want' = DOMAIN users
        /\ users' \in [DOMAIN users' -> Rows] /\ want' \in [DOMAIN users' -> Rows]
    BY <1>2, <1>3, <2>1 DEF Put
  <2>3. held' \in [Users -> [Roles -> 0..MaxTime]]
    BY <1>1, <2>1, RememberTypes
  <2>4. QED
    BY <1>1, <2>2, <2>3 DEF UpdateWrite, Answer
<1>4. CASE ~(u \in DOMAIN users /\ GetByUsername(new.name) \subseteq {u})
  BY <1>1, <1>4 DEF UpdateWrite, WriteRow, Answer
<1>5. QED
  BY <1>3, <1>4

LEMMA DeleteTypes ==
  ASSUME TypeOK, NEW t \in tokens, NEW u \in Users, DeleteUser(t, u)
  PROVE  TypeOK'
<1> USE DEF TypeOK
<1>1. held' \in [Users -> [Roles -> 0..MaxTime]]
  BY RememberTypes DEF DeleteUser, DeleteRow
<1>2. /\ DOMAIN users' \subseteq DOMAIN users /\ DOMAIN want' = DOMAIN users'
      /\ users' \in [DOMAIN users' -> Rows] /\ want' \in [DOMAIN users' -> Rows]
  BY DEF DeleteUser, DeleteRow, Drop
<1>3. QED
  BY <1>1, <1>2 DEF DeleteUser

LEMMA IssueTypes ==
  ASSUME TypeOK, NEW r \in Requests, LoginIssue(r)
  PROVE  TypeOK'
<1> USE DEF TypeOK
<1>1. req[r].uid \in Users /\ req[r].row \in Rows /\ Idle \in Handling
  BY Held DEF LoginIssue, Handling
<1>2. now + Lifetime \in 0..(MaxTime + Lifetime)
  BY LifetimeType, AccountsAssumption
<1>3. IssueToken(req[r].uid, req[r].row.role) \in Tokens
  BY <1>1, <1>2 DEF IssueToken, Tokens, Rows
<1>4. tokens' \subseteq Tokens
  BY <1>3 DEF LoginIssue
<1>5. QED
  BY <1>1, <1>4 DEF LoginIssue, Answer, tableVars, history

LEMMA ReadTypes ==
  ASSUME TypeOK, NEW r \in Requests,
         \/ \E n \in Names, p \in Passwords : LoginRead(r, n, p) \/ RegisterCheck(r, n, p)
         \/ \E t \in tokens, row \in Forms : CreateCheck(r, t, row)
         \/ \E t \in tokens, u \in Users, b \in Patches : UpdateRead(r, t, u, b)
         \/ \E t \in tokens : Submit(r, t)
  PROVE  TypeOK'
<1> USE DEF TypeOK, tableVars, history, Hold
<1>1. ASSUME NEW n \in Names, NEW p \in Passwords, LoginRead(r, n, p) PROVE TypeOK'
  <2>1. PICK u \in GetByUsername(n) :
          Hold(r, [pc |-> "verify", uid |-> u, row |-> users[u], pass |-> p])
    BY <1>1 DEF LoginRead
  <2>2. u \in Users /\ users[u] \in Rows
    BY DEF GetByUsername
  <2>3. [pc |-> "verify", uid |-> u, row |-> users[u], pass |-> p] \in Handling
    BY <2>2 DEF Handling
  <2>4. QED
    BY <1>1, <2>1, <2>3 DEF LoginRead
<1>2. ASSUME NEW n \in Names, NEW p \in Passwords, RegisterCheck(r, n, p) PROVE TypeOK'
  <2>1. [name |-> n, pass |-> p, role |-> "USER", status |-> "ACTIVE"] \in Rows
    BY DEF Rows, Roles, Statuses
  <2>2. QED
    BY <1>2, <2>1 DEF RegisterCheck, Handling
<1>3. ASSUME NEW t \in tokens, NEW row \in Forms, CreateCheck(r, t, row) PROVE TypeOK'
  BY <1>3, AccountsAssumption DEF CreateCheck, Handling
<1>4. ASSUME NEW t \in tokens, NEW u \in Users, NEW b \in Patches, UpdateRead(r, t, u, b)
      PROVE  TypeOK'
  <2>1. [pc |-> "write", uid |-> u, row |-> users[u], body |-> b] \in Handling
    BY <1>4 DEF UpdateRead, GetByID, Handling
  <2>2. raced' \subseteq Users
    BY <1>4 DEF UpdateRead
  <2>3. QED
    BY <1>4, <2>1, <2>2 DEF UpdateRead
<1>5. ASSUME NEW t \in tokens, Submit(r, t) PROVE TypeOK'
  BY <1>5 DEF Submit, Handling, Tokens
<1>6. QED
  BY <1>1, <1>2, <1>3, <1>4, <1>5

LEMMA StepTypes == TypeOK /\ [Next]_vars => TypeOK'
<1> SUFFICES ASSUME TypeOK, [Next]_vars PROVE TypeOK'
  OBVIOUS
<1>1. CASE UNCHANGED vars
  BY <1>1 DEF vars, TypeOK, tableVars, history
<1>2. ASSUME NEW r \in Requests,
             \/ LoginStep(r) \/ RegisterStep(r) \/ CreateUserStep(r)
             \/ UpdateUserStep(r) \/ SubmitStep(r)
      PROVE  TypeOK'
  <2>1. CASE InsertReference(r)
    BY <2>1, Held DEF TypeOK, InsertReference, Answer, Handling, history
  <2>2. QED
    BY <1>2, <2>1, ReadTypes, IssueTypes, InsertTypes, WriteTypes
       DEF LoginStep, RegisterStep, CreateUserStep, UpdateUserStep, SubmitStep
<1>3. CASE Tick
  BY <1>3, AccountsAssumption DEF Tick, TypeOK, tableVars, history
<1>4. ASSUME NEW t \in tokens, Forget(t) PROVE TypeOK'
  BY <1>4 DEF Forget, TypeOK, tableVars, history
<1>5. QED
  BY <1>1, <1>2, <1>3, <1>4, DeleteTypes DEF Next

(* Every variable keeps its type: TypeOK of Accounts.  In particular the   *)
(* row an update writes back is one the table's columns admit, whatever    *)
(* fields its body has.                                                    *)
THEOREM TypeCorrect == Spec => []TypeOK
BY StepTypes, InitTypes, PTL DEF Spec

-----------------------------------------------------------------------------
LEMMA InitSmall == Init => UniqueNames /\ NoOrphans
BY AccountsAssumption DEF Init, UniqueNames, NoOrphans

(* Two accounts never get the same name: UniqueNames.  The look-up before  *)
(* an insert does not ensure it; the UNIQUE column does.                   *)
THEOREM NamesStayUnique == Spec => []UniqueNames
<1>1. UniqueNames /\ [Next]_vars => UniqueNames'
  <2> SUFFICES ASSUME UniqueNames, [Next]_vars PROVE UniqueNames'
    OBVIOUS
  <2>1. CASE UNCHANGED users
    BY <2>1 DEF UniqueNames
  <2>2. ASSUME NEW r \in Requests, InsertUser(r) PROVE UniqueNames'
    <3>1. CASE GetByUsername(req[r].row.name) # {}
      BY <2>2, <3>1 DEF InsertUser, CreateRow, UniqueNames
    <3>2. CASE GetByUsername(req[r].row.name) = {}
      <4>1. PICK u \in Users \ used : users' = Put(users, u, req[r].row)
        BY <2>2, <3>2 DEF InsertUser, CreateRow
      <4>2. QED
        BY <3>2, <4>1 DEF Put, GetByUsername, UniqueNames
    <3>3. QED
      BY <3>1, <3>2
  <2>3. ASSUME NEW r \in Requests, UpdateWrite(r) PROVE UniqueNames'
    BY <2>3 DEF UpdateWrite, WriteRow, GetByUsername, Put, UniqueNames
  <2>4. ASSUME NEW t \in tokens, NEW u \in Users, DeleteUser(t, u) PROVE UniqueNames'
    BY <2>4 DEF DeleteUser, DeleteRow, Drop, UniqueNames
  <2>5. QED
    BY <2>1, <2>2, <2>3, <2>4, Steps DEF vars, tableVars, Quiet, TableStep
<1>2. QED
  BY <1>1, InitSmall, PTL DEF Spec

LEMMA ReferencesGrow ==
  ASSUME Next
  PROVE  UNCHANGED refs \/ \E r \in Requests : InsertReference(r)
BY DEF Next, LoginStep, RegisterStep, CreateUserStep, UpdateUserStep, SubmitStep,
   LoginRead, LoginIssue, RegisterCheck, CreateCheck, InsertUser, UpdateRead, UpdateWrite,
   Submit, Forget, DeleteUser, Tick, tableVars

(* Documents and tasks keep the account they belong to: NoOrphans.         *)
THEOREM ReferencesStay == Spec => []NoOrphans
<1>1. NoOrphans /\ [Next]_vars => NoOrphans'
  <2> SUFFICES ASSUME NoOrphans, [Next]_vars PROVE NoOrphans'
    OBVIOUS
  <2>1. CASE UNCHANGED <<users, refs>>
    BY <2>1 DEF NoOrphans
  <2>2. ASSUME NEW r \in Requests, InsertReference(r) PROVE NoOrphans'
    BY <2>2 DEF InsertReference, NoOrphans
  <2>3. ASSUME NEW r \in Requests, InsertUser(r) PROVE NoOrphans'
    BY <2>3 DEF InsertUser, CreateRow, Put, NoOrphans
  <2>4. ASSUME NEW r \in Requests, UpdateWrite(r) PROVE NoOrphans'
    BY <2>4 DEF UpdateWrite, WriteRow, Put, NoOrphans
  <2>5. ASSUME NEW t \in tokens, NEW u \in Users, DeleteUser(t, u) PROVE NoOrphans'
    BY <2>5 DEF DeleteUser, DeleteRow, Drop, NoOrphans
  <2>6. CASE Next /\ UNCHANGED refs /\ Quiet
    BY <2>1, <2>6 DEF Quiet
  <2>7. QED
    BY <2>1, <2>2, <2>3, <2>4, <2>5, <2>6, Steps, ReferencesGrow
       DEF vars, tableVars, TableStep
<1>2. QED
  BY <1>1, InitSmall, PTL DEF Spec

(* A deleted account does not come back, although an update that read it   *)
(* may still be in flight: DeletedStaysDeleted.  An UPDATE of a row that   *)
(* is gone touches nothing, and ids are not used twice.                    *)
THEOREM DeletionIsFinal == Spec => DeletedStaysDeleted
<1>1. [Next]_vars => [(used \ DOMAIN users) \cap DOMAIN users' = {}]_vars
  <2> SUFFICES ASSUME Next PROVE (used \ DOMAIN users) \cap DOMAIN users' = {}
    OBVIOUS
  <2>1. ASSUME NEW r \in Requests, InsertUser(r)
        PROVE  (used \ DOMAIN users) \cap DOMAIN users' = {}
    BY <2>1 DEF InsertUser, CreateRow, Put
  <2>2. ASSUME NEW r \in Requests, UpdateWrite(r) PROVE DOMAIN users' = DOMAIN users
    BY <2>2 DEF UpdateWrite, WriteRow, Put
  <2>3. ASSUME NEW t \in tokens, NEW u \in Users, DeleteUser(t, u)
        PROVE  DOMAIN users' \subseteq DOMAIN users
    BY <2>3 DEF DeleteUser, DeleteRow, Drop
  <2>4. QED
    BY <2>1, <2>2, <2>3, Steps DEF Quiet, TableStep
<1>2. QED
  BY <1>1, PTL DEF Spec, DeletedStaysDeleted

-----------------------------------------------------------------------------
(* What a token, and a login in flight, still prove about their account.   *)
HeldIsPast == \A u \in Users, x \in Roles : held[u][x] <= now
LoginsAreFresh ==
  \A r \in Requests : req[r].pc = "verify" =>
    LastHeld(req[r].uid, req[r].row.role) = now
TokensAreBounded ==
  \A t \in tokens : t.exp <= LastHeld(t.uid, t.role) + Lifetime
AccessInv == HeldIsPast /\ LoginsAreFresh /\ TokensAreBounded

LEMMA LastHeldType ==
  ASSUME TypeOK, HeldIsPast, NEW u \in Users, NEW x \in Roles
  PROVE  LastHeld(u, x) \in 0..now
BY DEF TypeOK, HeldIsPast, LastHeld

(* Within the hour, no write to table users takes back what an account was *)
(* good for.                                                               *)
LEMMA NothingForgotten ==
  ASSUME TypeOK, HeldIsPast, Quiet \/ TableStep, UNCHANGED now
  PROVE  /\ HeldIsPast'
         /\ \A u \in Users, x \in Roles : LastHeld(u, x)' >= LastHeld(u, x)
<1> DEFINE Goal == /\ HeldIsPast'
                   /\ \A u \in Users, x \in Roles : LastHeld(u, x)' >= LastHeld(u, x)
<1> USE DEF TypeOK
<1>1. CASE Quiet
  <2>1. \A u \in Users, x \in Roles : LastHeld(u, x)' = LastHeld(u, x)
    BY <1>1 DEF Quiet, LastHeld, ActiveAs
  <2>2. QED
    BY <1>1, <2>1, LastHeldType DEF Quiet, HeldIsPast
<1>2. ASSUME NEW u \in Users, Remember(u),
             \A v \in Users : v # u => /\ v \in DOMAIN users' <=> v \in DOMAIN users
                                       /\ v \in DOMAIN users => users'[v] = users[v]
      PROVE  Goal
  <2>1. \A x \in Roles : held'[u][x] = LastHeld(u, x)
    BY <1>2 DEF Remember
  <2>2. \A v \in Users : v # u => held'[v] = held[v]
    BY <1>2 DEF Remember
  <2>3. HeldIsPast'
    BY <2>1, <2>2, LastHeldType DEF HeldIsPast
  <2>4. ASSUME NEW v \in Users, NEW x \in Roles, v # u PROVE LastHeld(v, x)' = LastHeld(v, x)
    BY <1>2, <2>2, <2>4 DEF LastHeld, ActiveAs
  <2>5. ASSUME NEW x \in Roles PROVE LastHeld(u, x)' >= LastHeld(u, x)
    BY <2>1, LastHeldType DEF LastHeld
  <2>6. QED
    BY <2>3, <2>4, <2>5, LastHeldType
<1>3. ASSUME NEW r \in Requests, InsertUser(r) PROVE Goal
  <2>1. /\ UNCHANGED held
        /\ \A u \in DOMAIN users : u \in DOMAIN users' /\ users'[u] = users[u]
    BY <1>3 DEF InsertUser, CreateRow, Put
  <2>2. \A u \in Users, x \in Roles : ActiveAs(u, x) => ActiveAs(u, x)'
    BY <2>1 DEF ActiveAs
  <2>3. \A u \in Users, x \in Roles : LastHeld(u, x)' >= LastHeld(u, x)
    BY <2>1, <2>2 DEF LastHeld, HeldIsPast
  <2>4. QED
    BY <2>1, <2>3 DEF HeldIsPast
<1>4. ASSUME NEW r \in Requests, UpdateWrite(r) PROVE Goal
  <2> DEFINE u == req[r].uid
             new == Patched(req[r].row, req[r].body)
  <2>1. u \in Users
    BY <1>4, Held DEF UpdateWrite
  <2>2. CASE u \in DOMAIN users /\ GetByUsername(new.name) \subseteq {u}
    <3>1. Remember(u) /\ users' = Put(users, u, new)
      BY <1>4, <2>2 DEF UpdateWrite, WriteRow
    <3>2. QED
      BY <1>2, <2>1, <3>1 DEF Put
  <2>3. CASE ~(u \in DOMAIN users /\ GetByUsername(new.name) \subseteq {u})
    BY <1>1, <1>4, <2>3 DEF UpdateWrite, WriteRow, Quiet
  <2>4. QED
    BY <2>2, <2>3
<1>5. ASSUME NEW t \in tokens, NEW u \in Users, DeleteUser(t, u) PROVE Goal
  <2>1. Remember(u) /\ users' = Drop(users, u)
    BY <1>5 DEF DeleteUser, DeleteRow
  <2>2. QED
    BY <1>2, <2>1 DEF Drop
<1>6. QED
  BY <1>1, <1>3, <1>4, <1>5 DEF TableStep

LEMMA TimePasses ==
  ASSUME TypeOK, AccessInv, Tick
  PROVE  AccessInv'
<1> USE DEF TypeOK, AccessInv
<1>1. now \in Nat /\ now' = now + 1 /\ UNCHANGED <<users, held, tokens, req>>
  BY DEF Tick, tableVars, history
<1>2. HeldIsPast'
  BY <1>1 DEF HeldIsPast
<1>3. LoginsAreFresh'
  BY <1>1 DEF Tick, LoginsAreFresh
<1>4. \A u \in Users, x \in Roles : LastHeld(u, x)' >= LastHeld(u, x)
  BY <1>1 DEF LastHeld, ActiveAs, HeldIsPast
<1>5. ASSUME NEW t \in tokens
      PROVE  t.exp <= LastHeld(t.uid, t.role)' + Lifetime
  <2>1. t.uid \in Users /\ t.role \in Roles /\ t.exp \in Int
    BY LifetimeType DEF Tokens
  <2>2. LastHeld(t.uid, t.role) \in Nat /\ LastHeld(t.uid, t.role)' \in Nat
    BY <1>1, <2>1 DEF LastHeld
  <2>3. QED
    BY <1>4, <2>1, <2>2, LifetimeType DEF TokensAreBounded
<1>6. TokensAreBounded'
  BY <1>1, <1>5 DEF TokensAreBounded, Lifetime
<1>7. QED
  BY <1>2, <1>3, <1>6

(* A step within the hour that starts no login and issues no token. *)
LEMMA AccessUntouched ==
  ASSUME TypeOK, TypeOK', AccessInv, Quiet \/ TableStep, UNCHANGED now,
         tokens' \subseteq tokens,
         \A q \in Requests : req'[q].pc = "verify" => req'[q] = req[q]
  PROVE  AccessInv'
<1>1. /\ HeldIsPast'
      /\ \A u \in Users, x \in Roles : LastHeld(u, x)' >= LastHeld(u, x)
  BY NothingForgotten DEF AccessInv
<1>2. \A u \in Users, x \in Roles :
        /\ LastHeld(u, x) \in 0..now
        /\ LastHeld(u, x)' \in Int /\ LastHeld(u, x)' <= now'
  BY <1>1, LastHeldType DEF TypeOK, AccessInv, LastHeld, HeldIsPast
<1>3. LoginsAreFresh'
  <2>1. ASSUME NEW q \in Requests, req[q].pc = "verify",
               NEW u, u = req[q].uid, NEW x, x = req[q].row.role
        PROVE  LastHeld(u, x)' = now'
    <3>1. u \in Users /\ x \in Roles
      BY <2>1, Held DEF TypeOK, Rows
    <3>2. LastHeld(u, x) = now
      BY <2>1 DEF AccessInv, LoginsAreFresh
    <3>3. LastHeld(u, x)' >= now /\ LastHeld(u, x)' <= now' /\ LastHeld(u, x)' \in Int
      BY <1>1, <1>2, <3>1, <3>2
    <3>4. now' = now /\ now \in Int
      BY DEF TypeOK
    <3>5. QED
      BY <3>3, <3>4
  <2>2. QED
    BY <2>1 DEF LoginsAreFresh
<1>4. ASSUME NEW t \in tokens' PROVE t.exp <= LastHeld(t.uid, t.role)' + Lifetime
  <2>1. t \in tokens /\ t.uid \in Users /\ t.role \in Roles /\ t.exp \in Int
    BY LifetimeType DEF TypeOK, Tokens
  <2>2. QED
    BY <1>1, <1>2, <2>1, LifetimeType DEF AccessInv, TokensAreBounded
<1>5. QED
  BY <1>1, <1>3, <1>4 DEF AccessInv, TokensAreBounded, Lifetime

LEMMA LoginKeepsAccess ==
  ASSUME TypeOK, AccessInv, NEW r \in Requests, LoginStep(r)
  PROVE  AccessInv'
<1> USE DEF TypeOK, AccessInv
<1>1. UNCHANGED <<users, held, now>>
  BY DEF LoginStep, LoginRead, LoginIssue, tableVars, history
<1>2. \A u, x : LastHeld(u, x)' = LastHeld(u, x)
  BY <1>1 DEF LastHeld, ActiveAs
<1>3. HeldIsPast'
  BY <1>1 DEF HeldIsPast
<1>4. ASSUME NEW n \in Names, NEW p \in Passwords, LoginRead(r, n, p) PROVE AccessInv'
  <2>1. PICK u \in GetByUsername(n) :
          /\ users[u].status = "ACTIVE"
          /\ Hold(r, [pc |-> "verify", uid |-> u, row |-> users[u], pass |-> p])
    BY <1>4 DEF LoginRead
  <2>2. LastHeld(u, users[u].role) = now
    BY <2>1 DEF LastHeld, ActiveAs, GetByUsername
  <2>3. LoginsAreFresh'
    BY <1>1, <1>2, <2>1, <2>2 DEF Hold, LoginsAreFresh
  <2>4. TokensAreBounded'
    BY <1>2, <1>4 DEF LoginRead, TokensAreBounded, Lifetime
  <2>5. QED
    BY <1>3, <2>3, <2>4
<1>5. CASE LoginIssue(r)
  <2>1. LoginsAreFresh'
    BY <1>1, <1>2, <1>5 DEF LoginIssue, Answer, Idle, LoginsAreFresh
  <2>2. LastHeld(req[r].uid, req[r].row.role) = now
    BY <1>5 DEF LoginIssue, LoginsAreFresh
  <2>3. tokens' \subseteq tokens \cup {IssueToken(req[r].uid, req[r].row.role)}
    BY <1>5 DEF LoginIssue
  <2>4. TokensAreBounded'
    BY <1>2, <2>2, <2>3, LifetimeType DEF TokensAreBounded, IssueToken, Lifetime
  <2>5. QED
    BY <1>3, <2>1, <2>4
<1>6. QED
  BY <1>4, <1>5 DEF LoginStep

LEMMA OthersKeepAccess ==
  ASSUME TypeOK, AccessInv, NEW r \in Requests,
         RegisterStep(r) \/ CreateUserStep(r) \/ UpdateUserStep(r) \/ SubmitStep(r)
  PROVE  AccessInv'
<1>0. TypeOK'
  BY StepTypes DEF Next
<1>1. UNCHANGED <<now, tokens>>
  BY DEF RegisterStep, CreateUserStep, UpdateUserStep, SubmitStep, RegisterCheck,
     CreateCheck, InsertUser, UpdateRead, UpdateWrite, Submit, InsertReference
<1>2. Quiet \/ TableStep
  BY Steps DEF Next
<1>3. \A q \in Requests : req'[q].pc = "verify" => req'[q] = req[q]
  <2> USE DEF Hold, Answer, Idle, TypeOK
  <2>1. CASE RegisterStep(r) \/ CreateUserStep(r)
    BY <2>1 DEF RegisterStep, CreateUserStep, RegisterCheck, CreateCheck, InsertUser
  <2>2. CASE UpdateUserStep(r) \/ SubmitStep(r)
    BY <2>2 DEF UpdateUserStep, SubmitStep, UpdateRead, UpdateWrite, Submit, InsertReference
  <2>3. QED
    BY <2>1, <2>2
<1>4. QED
  BY <1>0, <1>1, <1>2, <1>3, AccessUntouched

(* A token that is accepted proves that its account was ACTIVE in its role *)
(* less than one lifetime ago: AccessIsBounded.  The proof follows the     *)
(* logins in flight, whose row may be disabled or deleted under them.      *)
THEOREM AccessStaysBounded == Spec => []AccessIsBounded
<1>1. Init => AccessInv
  BY DEF Init, AccessInv, HeldIsPast, LoginsAreFresh, TokensAreBounded, Idle
<1>2. TypeOK /\ AccessInv /\ [Next]_vars => AccessInv'
  <2> SUFFICES ASSUME TypeOK, AccessInv, [Next]_vars PROVE AccessInv'
    OBVIOUS
  <2>1. CASE UNCHANGED vars
    BY <2>1, StepTypes, AccessUntouched DEF vars, tableVars, history, Quiet
  <2>2. ASSUME NEW t \in tokens, NEW u \in Users, DeleteUser(t, u) PROVE AccessInv'
    BY <2>2, StepTypes, AccessUntouched DEF DeleteUser, TableStep
  <2>3. ASSUME NEW t \in tokens, Forget(t) PROVE AccessInv'
    BY <2>3, StepTypes, AccessUntouched DEF Forget, tableVars, history, Quiet
  <2>4. QED
    BY <2>1, <2>2, <2>3, LoginKeepsAccess, OthersKeepAccess, TimePasses DEF Next
<1>3. TypeOK /\ AccessInv => AccessIsBounded
  <2> SUFFICES ASSUME TypeOK, AccessInv, NEW t \in tokens, Accepted(t)
               PROVE  now < LastHeld(t.uid, t.role) + Lifetime
    BY DEF AccessIsBounded
  <2>1. t.uid \in Users /\ t.role \in Roles /\ t.exp \in Int /\ now \in Int
    BY LifetimeType DEF TypeOK, Tokens
  <2>2. LastHeld(t.uid, t.role) \in Int
    BY <2>1, LastHeldType DEF AccessInv
  <2>3. QED
    BY <2>1, <2>2, LifetimeType DEF AccessInv, TokensAreBounded, Accepted
<1>4. QED
  BY <1>1, <1>2, <1>3, TypeCorrect, PTL DEF Spec

-----------------------------------------------------------------------------
(* An update in flight is of an account that was there when it began; if   *)
(* no other was in flight with it, the row it holds is still the table's.  *)
WritesInHand == \A r \in Requests : req[r].pc = "write" => req[r].uid \in used
WritesAreAlone ==
  \A r, q \in Requests :
    req[r].pc = "write" /\ req[q].pc = "write" /\ req[q].uid = req[r].uid =>
      q = r \/ req[r].uid \in raced
RowsInHand ==
  \A r \in Requests :
    req[r].pc = "write" /\ req[r].uid \in DOMAIN users \ raced
      => req[r].row = users[req[r].uid]
UpdateInv == WritesInHand /\ WritesAreAlone /\ RowsInHand /\ UpdatesKept

(* A step that starts no update and leaves the rows updates are of. *)
LEMMA UpdateUntouched ==
  ASSUME TypeOK, UpdateInv, used \subseteq used', UNCHANGED raced,
         \A u \in DOMAIN users' \cap used :
           u \in DOMAIN users /\ users'[u] = users[u] /\ want'[u] = want[u],
         \A u \in DOMAIN users' \ used : users'[u] = want'[u],
         \A q \in Requests : req'[q].pc = "write" => req'[q] = req[q]
  PROVE  UpdateInv'
<1> USE DEF UpdateInv
<1>1. WritesInHand'
  BY DEF WritesInHand
<1>2. WritesAreAlone'
  BY DEF WritesAreAlone
<1>3. RowsInHand'
  BY DEF RowsInHand, WritesInHand
<1>4. UpdatesKept'
  BY DEF UpdatesKept
<1>5. QED
  BY <1>1, <1>2, <1>3, <1>4

LEMMA InsertKeepsUpdates ==
  ASSUME TypeOK, UpdateInv, NEW r \in Requests, InsertUser(r)
  PROVE  UpdateInv'
<1>1. \A q \in Requests : req'[q].pc = "write" => req'[q] = req[q]
  BY DEF InsertUser, Answer, Idle, TypeOK
<1>2. UNCHANGED raced
  BY DEF InsertUser
<1>3. CASE GetByUsername(req[r].row.name) # {}
  <2>1. UNCHANGED <<users, want, used>>
    BY <1>3 DEF InsertUser, CreateRow
  <2>2. QED
    BY <1>1, <1>2, <2>1, UpdateUntouched DEF TypeOK
<1>4. CASE GetByUsername(req[r].row.name) = {}
  <2>1. PICK u \in Users \ used :
          /\ users' = Put(users, u, req[r].row) /\ want' = Put(want, u, req[r].row)
          /\ used' = used \cup {u}
    BY <1>4 DEF InsertUser, CreateRow
  <2>2. /\ DOMAIN users' = DOMAIN users \cup {u} /\ u \notin DOMAIN users
        /\ users'[u] = want'[u]
        /\ \A x \in DOMAIN users : users'[x] = users[x] /\ want'[x] = want[x]
    BY <2>1 DEF Put, TypeOK
  <2>3. QED
    BY <1>1, <1>2, <2>1, <2>2, UpdateUntouched DEF TypeOK
<1>5. QED
  BY <1>3, <1>4

LEMMA ReadKeepsUpdates ==
  ASSUME TypeOK, UpdateInv, NEW r \in Requests, NEW t \in tokens, NEW u \in Users,
         NEW b \in Patches, UpdateRead(r, t, u, b)
  PROVE  UpdateInv'
<1> DEFINE busy == \E q \in Requests : req[q].pc = "write" /\ req[q].uid = u
<1> USE DEF UpdateInv
<1>1. /\ u \in DOMAIN users /\ req[r].pc = "idle"
      /\ UNCHANGED <<users, used, want>>
  BY DEF UpdateRead, GetByID, Hold, Idle, tableVars
<1>2. /\ req'[r].pc = "write" /\ req'[r].uid = u /\ req'[r].row = users[u]
      /\ \A q \in Requests : q # r => req'[q] = req[q]
  BY DEF UpdateRead, Hold, TypeOK
<1>3. /\ busy => u \in raced'
      /\ \A x : x \in raced' <=> x \in raced \/ (busy /\ x = u)
  BY DEF UpdateRead
<1>4. WritesInHand'
  BY <1>1, <1>2 DEF WritesInHand, TypeOK
<1>5. WritesAreAlone'
  <2> SUFFICES ASSUME NEW p \in Requests, NEW q \in Requests, p # q,
                      req'[p].pc = "write", req'[q].pc = "write",
                      req'[q].uid = req'[p].uid, req'[p].uid \notin raced'
               PROVE  FALSE
    BY DEF WritesAreAlone
  <2>1. CASE p = r \/ q = r
    BY <1>2, <1>3, <2>1
  <2>2. CASE p # r /\ q # r
    BY <1>2, <1>3, <2>2 DEF WritesAreAlone
  <2>3. QED
    BY <2>1, <2>2
<1>6. RowsInHand'
  BY <1>1, <1>2, <1>3 DEF RowsInHand
<1>7. UpdatesKept'
  BY <1>1, <1>3 DEF UpdatesKept
<1>8. QED
  BY <1>4, <1>5, <1>6, <1>7

LEMMA WriteKeepsUpdates ==
  ASSUME TypeOK, UpdateInv, NEW r \in Requests, UpdateWrite(r)
  PROVE  UpdateInv'
<1> DEFINE u == req[r].uid
           b == req[r].body
           new == Patched(req[r].row, b)
           old == IF u \in DOMAIN want THEN want[u] ELSE req[r].row
<1>1. u \in Users /\ req[r].row \in Rows /\ b \in Patches /\ req[r].pc = "write"
  BY Held DEF UpdateWrite, TypeOK
<1>2. /\ UNCHANGED <<used, raced>>
      /\ \A q \in Requests : req'[q].pc = "write" => q # r /\ req'[q] = req[q]
  BY DEF UpdateWrite, Answer, Idle, TypeOK
<1>3. CASE ~(u \in DOMAIN users /\ GetByUsername(new.name) \subseteq {u})
  <2>1. UNCHANGED <<users, want>>
    BY <1>3 DEF UpdateWrite, WriteRow
  <2>2. QED
    BY <1>2, <2>1, UpdateUntouched DEF TypeOK
<1>4. CASE u \in DOMAIN users /\ GetByUsername(new.name) \subseteq {u}
  <2> USE DEF UpdateInv
  <2>1. /\ users' = Put(users, u, new)
        /\ want' = Put(want, u, IF u \in raced THEN new ELSE Asked(old, b))
    BY <1>4 DEF UpdateWrite, WriteRow
  <2>2. DOMAIN want = DOMAIN users
    BY DEF TypeOK
  <2>3. /\ DOMAIN users' = DOMAIN users /\ users'[u] = new
        /\ want'[u] = IF u \in raced THEN new ELSE Asked(old, b)
        /\ \A x \in DOMAIN users : x # u => users'[x] = users[x] /\ want'[x] = want[x]
    BY <1>4, <2>1, <2>2 DEF Put
  <2>4. u \notin raced => new = Asked(old, b)
    <3>1. u \notin raced => old = req[r].row
      BY <1>1, <1>4, <2>2 DEF RowsInHand, UpdatesKept
    <3>2. new = Asked(req[r].row, b)
      BY <1>1, PatchedIsAsked
    <3>3. QED
      BY <3>1, <3>2
  <2>5. WritesInHand' /\ WritesAreAlone'
    BY <1>2 DEF WritesInHand, WritesAreAlone
  <2>6. RowsInHand'
    <3>1. ASSUME NEW q \in Requests, req'[q].pc = "write", req'[q].uid \in DOMAIN users' \ raced'
          PROVE  req'[q].row = users'[req'[q].uid]
      <4>1. q # r /\ req'[q] = req[q] /\ req[q].uid \in DOMAIN users \ raced
        BY <1>2, <2>3, <3>1
      <4>2. req[q].uid # u
        BY <1>1, <3>1, <4>1 DEF WritesAreAlone
      <4>3. QED
        BY <2>3, <3>1, <4>1, <4>2 DEF RowsInHand
    <3>2. QED
      BY <3>1 DEF RowsInHand
  <2>7. UpdatesKept'
    BY <1>2, <2>3, <2>4 DEF UpdatesKept
  <2>8. QED
    BY <2>5, <2>6, <2>7
<1>5. QED
  BY <1>3, <1>4

(* Between updates that do not overlap, an account's row is what those     *)
(* updates asked for, field by field: UpdatesKept.                         *)
THEOREM UpdatesStayKept == Spec => []UpdatesKept
<1>1. Init => UpdateInv
  BY DEF Init, UpdateInv, WritesInHand, WritesAreAlone, RowsInHand, UpdatesKept, Idle
<1>2. TypeOK /\ UpdateInv /\ [Next]_vars => UpdateInv'
  <2> SUFFICES ASSUME TypeOK, UpdateInv, [Next]_vars PROVE UpdateInv'
    OBVIOUS
  <2>1. CASE UNCHANGED vars
    BY <2>1, UpdateUntouched DEF vars, tableVars, history, TypeOK
  <2>2. ASSUME NEW r \in Requests, LoginStep(r) \/ RegisterStep(r) \/ CreateUserStep(r)
        PROVE  UpdateInv'
    <3>1. CASE InsertUser(r)
      BY <3>1, InsertKeepsUpdates
    <3>2. CASE ~InsertUser(r)
      <4>1. UNCHANGED <<users, used, want, raced>>
        BY <2>2, <3>2 DEF LoginStep, RegisterStep, CreateUserStep, LoginRead, LoginIssue,
           RegisterCheck, CreateCheck, tableVars, history
      <4>2. \A q \in Requests : req'[q].pc = "write" => req'[q] = req[q]
        BY <2>2, <3>2 DEF LoginStep, RegisterStep, CreateUserStep, LoginRead, LoginIssue,
           RegisterCheck, CreateCheck, Hold, Answer, Idle, TypeOK
      <4>3. QED
        BY <4>1, <4>2, UpdateUntouched DEF TypeOK
    <3>3. QED
      BY <3>1, <3>2
  <2>3. ASSUME NEW r \in Requests, SubmitStep(r) PROVE UpdateInv'
    <3>1. /\ UNCHANGED <<users, used, want, raced>>
          /\ \A q \in Requests : req'[q].pc = "write" => req'[q] = req[q]
      BY <2>3 DEF SubmitStep, Submit, InsertReference, tableVars, history,
         Hold, Answer, Idle, TypeOK
    <3>2. QED
      BY <3>1, UpdateUntouched DEF TypeOK
  <2>4. ASSUME NEW r \in Requests, UpdateUserStep(r) PROVE UpdateInv'
    BY <2>4, ReadKeepsUpdates, WriteKeepsUpdates DEF UpdateUserStep
  <2>5. ASSUME NEW t \in tokens, NEW u \in Users, DeleteUser(t, u) PROVE UpdateInv'
    <3>1. /\ DOMAIN users' \subseteq DOMAIN users /\ UNCHANGED <<used, raced, req>>
          /\ \A x \in DOMAIN users' : users'[x] = users[x] /\ want'[x] = want[x]
      BY <2>5 DEF DeleteUser, DeleteRow, Drop, TypeOK
    <3>2. QED
      BY <3>1, UpdateUntouched DEF TypeOK
  <2>6. ASSUME Tick \/ \E t \in tokens : Forget(t) PROVE UpdateInv'
    BY <2>6, UpdateUntouched DEF Tick, Forget, tableVars, history, TypeOK
  <2>7. QED
    BY <2>1, <2>2, <2>3, <2>4, <2>5, <2>6 DEF Next
<1>3. QED
  BY <1>1, <1>2, TypeCorrect, PTL DEF Spec, UpdateInv
=============================================================================
