------------------------------ MODULE Accounts ------------------------------
(***************************************************************************)
(* User accounts and the tokens that stand for them: table users, the      *)
(* login and registration handlers of restapi and webui, the user handlers *)
(* of adminapi, and the JWT middleware in front of them.                   *)
(*                                                                         *)
(* Every HTTP request runs in a goroutine of its own.  A handler that      *)
(* talks to the database twice, or hashes a password in between, is two    *)
(* actions here; each SQL statement is atomic.  A token carries the role   *)
(* its account had at login and nothing ever revokes it.  Requests that    *)
(* are malformed, refused or read-only change nothing and are left out.    *)
(* One tick of `now` is an hour, the unit of auth.jwt_ttl_hours.           *)
(***************************************************************************)
EXTENDS Integers, FiniteSets

CONSTANTS
  Requests,     \* requests in flight at a time
  Users,        \* ids uuid.NewString can return
  Names,        \* usernames of at least three characters
  Passwords,    \* passwords of at least six characters
  Seed,         \* table users as deploy/init-db.sh leaves it
  Forms,        \* request bodies of POST /api/v1/admin/users
  Patches,      \* request bodies of PUT /api/v1/admin/users/{id}
  TTLHours,     \* auth.jwt_ttl_hours
  LookupFails,  \* may GetByUsername fail (its error is dropped on creation)
  MaxTime,      \* bound on now
  MaxTokens     \* bound on the tokens clients hold

Roles == {"ADMIN", "USER"}
Statuses == {"ACTIVE", "DISABLED"}
Absent == ""    \* a field the request body does not have
Rows == [name : Names, pass : Passwords, role : Roles, status : Statuses]
Bodies == [name : Names \cup {Absent}, pass : Passwords \cup {Absent},
           role : Roles \cup {Absent}, status : Statuses \cup {Absent}]

ASSUME AccountsAssumption ==
  /\ Forms \subseteq Rows /\ Patches \subseteq Bodies
  /\ Absent \notin Names \cup Passwords
  /\ DOMAIN Seed \subseteq Users /\ Seed \in [DOMAIN Seed -> Rows]
  /\ \A u, v \in DOMAIN Seed : Seed[u].name = Seed[v].name => u = v
  /\ TTLHours \in Int /\ MaxTime \in Nat \ {0} /\ LookupFails \in BOOLEAN

VARIABLES
  users,    \* table users: id -> row
  used,     \* ids the table has ever held (uuid.NewString does not repeat)
  refs,     \* users that rows of documents and tasks refer to
  tokens,   \* tokens that have been issued
  now,
  req,      \* request -> what its handler holds between two steps
  held,     \* history: when an account was last seen ACTIVE in a role
  want,     \* history: the row the answered updates add up to
  raced     \* history: users two updates have overlapped on (want follows the
            \* row from then on)

tableVars == <<users, used, refs>>
history == <<held, want, raced>>
vars == <<tableVars, tokens, now, req, history>>

(* NewJWTManager: 12 hours unless the configuration gives a positive TTL. *)
Lifetime == IF TTLHours > 0 THEN TTLHours ELSE 12

Tokens == [uid : Users, role : Roles, exp : 0..(MaxTime + Lifetime)]

Idle == [pc |-> "idle"]
Handling ==
  {Idle}
    \cup [pc : {"verify"}, uid : Users, row : Rows, pass : Passwords]
    \cup [pc : {"insert"}, row : Rows]
    \cup [pc : {"write"}, uid : Users, row : Rows, body : Patches]
    \cup [pc : {"refer"}, uid : Users]

Init ==
  /\ users = Seed /\ used = DOMAIN Seed /\ refs = {}
  /\ tokens = {} /\ now = 1
  /\ req = [r \in Requests |-> Idle]
  /\ held = [u \in Users |-> [x \in Roles |-> 0]]
  /\ want = Seed /\ raced = {}

-----------------------------------------------------------------------------
Put(f, k, v) == [x \in DOMAIN f \cup {k} |-> IF x = k THEN v ELSE f[x]]
Drop(f, k) == [x \in DOMAIN f \ {k} |-> f[x]]

(* UserRepo.GetByID finds the row. *)
GetByID(u) == u \in DOMAIN users

(* UserRepo.GetByUsername: at most one user, by UniqueNames. *)
GetByUsername(n) == {u \in DOMAIN users : users[u].name = n}

ActiveAs(u, x) ==
  u \in DOMAIN users /\ users[u].status = "ACTIVE" /\ users[u].role = x
LastHeld(u, x) == IF ActiveAs(u, x) THEN now ELSE held[u][x]

(* The row of u is about to change or go: remember what it was good for. *)
Remember(u) ==
  held' = [held EXCEPT ![u] = [x \in Roles |-> LastHeld(u, x)]]

(* Mutant: the expiry of a token is not looked at. *)
AcceptedForEver(t) == t \in tokens

(* JWTMiddleware: ParseToken takes an unexpired token with our signature;  *)
(* the database is not asked.                                              *)
Accepted(t) == t \in tokens /\ now < t.exp

(* AdminOnlyMiddleware believes the role in the token. *)
AdminCall(t) == Accepted(t) /\ t.role = "ADMIN"

Answer(r) == req' = [req EXCEPT ![r] = Idle]
Hold(r, h) == req[r] = Idle /\ req' = [req EXCEPT ![r] = h]
-----------------------------------------------------------------------------
(* Mutant: the status of the account is not looked at. *)
LoginReadAnyStatus(r, n, p) ==
  /\ \E u \in GetByUsername(n) :
       Hold(r, [pc |-> "verify", uid |-> u, row |-> users[u], pass |-> p])
  /\ UNCHANGED <<tableVars, tokens, now, history>>

(* Login, and LoginSubmit of the web pages: the row under this username is *)
(* read; only an ACTIVE one goes on to the password.                       *)
LoginRead(r, n, p) ==
  /\ \E u \in GetByUsername(n) :
       /\ users[u].status = "ACTIVE"
       /\ Hold(r, [pc |-> "verify", uid |-> u, row |-> users[u], pass |-> p])
  /\ UNCHANGED <<tableVars, tokens, now, history>>

(* Mutant: the lifetime counts from the end of the current hour. *)
IssueTokenLate(u, x) == [uid |-> u, role |-> x, exp |-> now + Lifetime + 1]

(* IssueToken signs the id and the role it is given. *)
IssueToken(u, x) == [uid |-> u, role |-> x, exp |-> now + Lifetime]

(* VerifyPassword: bcrypt compares with the hash in the row that was read. *)
VerifyPassword(row, p) == row.pass = p

LoginIssue(r) ==
  LET h == req[r] IN
  /\ h.pc = "verify"
  /\ IF VerifyPassword(h.row, h.pass)
       THEN /\ Cardinality(tokens) < MaxTokens
            /\ tokens' = tokens \cup {IssueToken(h.uid, h.row.role)}
       ELSE UNCHANGED tokens
  /\ Answer(r)
  /\ UNCHANGED <<tableVars, now, history>>

(* Clients forget tokens the middleware would refuse. *)
Forget(t) ==
  /\ t \in tokens /\ t.exp <= now
  /\ tokens' = tokens \ {t}
  /\ UNCHANGED <<tableVars, now, req, history>>

-----------------------------------------------------------------------------
(* Register: the name is looked up, the password hashed, and the role and  *)
(* status are not the caller's to choose.                                  *)
RegisterCheck(r, n, p) ==
  /\ LookupFails \/ GetByUsername(n) = {}
  /\ Hold(r, [pc |-> "insert",
              row |-> [name |-> n, pass |-> p, role |-> "USER", status |-> "ACTIVE"]])
  /\ UNCHANGED <<tableVars, tokens, now, history>>

(* CreateUser of the admin API, where they are. *)
CreateCheck(r, t, row) ==
  /\ AdminCall(t)
  /\ LookupFails \/ GetByUsername(row.name) = {}
  /\ Hold(r, [pc |-> "insert", row |-> row])
  /\ UNCHANGED <<tableVars, tokens, now, history>>

(* Mutant: column username is not UNIQUE. *)
CreateRowNotUnique(row) ==
  \E u \in Users \ used :
     /\ users' = Put(users, u, row) /\ want' = Put(want, u, row)
     /\ used' = used \cup {u}

(* UserRepo.Create under a fresh id: the UNIQUE column refuses a name that *)
(* is there by now.                                                        *)
CreateRow(row) ==
  IF GetByUsername(row.name) # {}
    THEN UNCHANGED <<users, want, used>>
    ELSE \E u \in Users \ used :
           /\ users' = Put(users, u, row) /\ want' = Put(want, u, row)
           /\ used' = used \cup {u}

InsertUser(r) ==
  /\ req[r].pc = "insert"
  /\ CreateRow(req[r].row)
  /\ Answer(r)
  /\ UNCHANGED <<refs, tokens, now, held, raced>>

-----------------------------------------------------------------------------
(* UpdateUser reads the whole row ... *)
UpdateRead(r, t, u, b) ==
  /\ AdminCall(t)
  /\ GetByID(u)
  /\ Hold(r, [pc |-> "write", uid |-> u, row |-> users[u], body |-> b])
  /\ raced' = IF \E q \in Requests : req[q].pc = "write" /\ req[q].uid = u
                THEN raced \cup {u} ELSE raced
  /\ UNCHANGED <<tableVars, tokens, now, held, want>>

(* Mutant: the test for an absent status is missing, and what is not       *)
(* DISABLED is ACTIVE.                                                     *)
PatchedStatusAlways(row, b) ==
  [name   |-> IF b.name = Absent THEN row.name ELSE b.name,
   pass   |-> IF b.pass = Absent THEN row.pass ELSE b.pass,
   role   |-> IF b.role = Absent THEN row.role ELSE b.role,
   status |-> IF b.status = "DISABLED" THEN "DISABLED" ELSE "ACTIVE"]

(* ... replaces the fields the body has ... *)
Patched(row, b) ==
  [name   |-> IF b.name = Absent THEN row.name ELSE b.name,
   pass   |-> IF b.pass = Absent THEN row.pass ELSE b.pass,
   role   |-> CASE b.role = Absent -> row.role
                [] b.role = "ADMIN" -> "ADMIN" [] OTHER -> "USER",
   status |-> CASE b.status = Absent -> row.status
                [] b.status = "DISABLED" -> "DISABLED" [] OTHER -> "ACTIVE"]

(* What the body asks for, field by field. *)
Asked(row, b) == [f \in DOMAIN row |-> IF b[f] = Absent THEN row[f] ELSE b[f]]

(* Mutant: a row that is gone is inserted again. *)
WriteRowUpserts(u, new, asked) ==
  /\ users' = Put(users, u, new) /\ want' = Put(want, u, new)
  /\ Remember(u)

(* UserRepo.Update writes every column WHERE user_id = ?: an error when    *)
(* the new name is another user's, no effect when the row is gone.         *)
WriteRow(u, new, asked) ==
  IF u \in DOMAIN users /\ GetByUsername(new.name) \subseteq {u}
    THEN /\ users' = Put(users, u, new)
         /\ want' = Put(want, u, IF u \in raced THEN new ELSE asked)
         /\ Remember(u)
    ELSE UNCHANGED <<users, want, held>>

(* ... and writes it back. *)
UpdateWrite(r) ==
  LET h == req[r] IN
  /\ h.pc = "write"
  /\ WriteRow(h.uid, Patched(h.row, h.body),
              Asked(IF h.uid \in DOMAIN want THEN want[h.uid] ELSE h.row, h.body))
  /\ Answer(r)
  /\ UNCHANGED <<used, refs, tokens, now, raced>>

(* Mutant: foreign keys are not enforced on this connection. *)
DeleteRowNoFK(u) ==
  /\ u \in DOMAIN users
  /\ users' = Drop(users, u) /\ want' = Drop(want, u)
  /\ Remember(u)

(* UserRepo.Delete: SQLite refuses while documents or tasks refer to the   *)
(* row, and an id that is not there deletes nothing.  It also refuses      *)
(* while user_permissions refers to it; that table is left out, so there   *)
(* are more deletes here than in the program.                              *)
DeleteRow(u) ==
  /\ u \in DOMAIN users /\ u \notin refs
  /\ users' = Drop(users, u) /\ want' = Drop(want, u)
  /\ Remember(u)

(* DeleteUser: any account but one's own. *)
DeleteUser(t, u) ==
  /\ AdminCall(t) /\ t.uid # u
  /\ DeleteRow(u)
  /\ UNCHANGED <<used, refs, tokens, now, req, raced>>

-----------------------------------------------------------------------------
(* UploadDocument and CreateTask: the middleware takes the caller's id off *)
(* the token, the file or the device is looked up, and the row inserted.   *)
Submit(r, t) ==
  /\ Accepted(t)
  /\ Hold(r, [pc |-> "refer", uid |-> t.uid])
  /\ UNCHANGED <<tableVars, tokens, now, history>>

InsertReference(r) ==
  /\ req[r].pc = "refer"
  /\ refs' = IF req[r].uid \in DOMAIN users THEN refs \cup {req[r].uid} ELSE refs
  /\ Answer(r)
  /\ UNCHANGED <<users, used, tokens, now, history>>

(* An hour passes.  No login takes that long. *)
Tick ==
  /\ now < MaxTime
  /\ \A r \in Requests : req[r].pc # "verify"
  /\ now' = now + 1
  /\ UNCHANGED <<tableVars, tokens, req, history>>

-----------------------------------------------------------------------------
(* The handlers, each with all of its steps. *)
LoginStep(r) ==
  \/ \E n \in Names, p \in Passwords : LoginRead(r, n, p)
  \/ LoginIssue(r)
RegisterStep(r) ==
  \/ \E n \in Names, p \in Passwords : RegisterCheck(r, n, p)
  \/ InsertUser(r)
CreateUserStep(r) ==
  \/ \E t \in tokens, row \in Forms : CreateCheck(r, t, row)
  \/ InsertUser(r)
UpdateUserStep(r) ==
  \/ \E t \in tokens, u \in Users, b \in Patches : UpdateRead(r, t, u, b)
  \/ UpdateWrite(r)
SubmitStep(r) ==
  \/ \E t \in tokens : Submit(r, t)
  \/ InsertReference(r)

Next ==
  \/ \E r \in Requests :
       \/ LoginStep(r) \/ RegisterStep(r) \/ CreateUserStep(r)
       \/ UpdateUserStep(r) \/ SubmitStep(r)
  \/ \E t \in tokens : Forget(t) \/ \E u \in Users : DeleteUser(t, u)
  \/ Tick

Spec == Init /\ [][Next]_vars
-----------------------------------------------------------------------------
(* Types of the variables; the history variables included. *)
TypeOK ==
  /\ used \subseteq Users /\ DOMAIN users \subseteq used /\ DOMAIN want = DOMAIN users
  /\ users \in [DOMAIN users -> Rows] /\ want \in [DOMAIN users -> Rows]
  /\ refs \subseteq Users /\ raced \subseteq Users
  /\ tokens \subseteq Tokens
  /\ now \in 1..MaxTime
  /\ req \in [Requests -> Handling]
  /\ held \in [Users -> [Roles -> 0..MaxTime]]

(* No two accounts share a username, although the check and the insert of  *)
(* two registrations, and an administrator's renaming, may interleave.     *)
UniqueNames ==
  \A u, v \in DOMAIN users : users[u].name = users[v].name => u = v

(* A token the middleware accepts names a role its account held, while it  *)
(* was ACTIVE, less than one token lifetime ago.  Disabling, demoting or   *)
(* deleting an account therefore ends its access within that time,         *)
(* whatever logins were being handled meanwhile; nothing ends it sooner.   *)
AccessIsBounded ==
  \A t \in tokens : Accepted(t) => now < LastHeld(t.uid, t.role) + Lifetime

(* As long as no two updates of an account overlap, its row is what the    *)
(* answered updates add up to: a field the body leaves out keeps its       *)
(* value, so a DISABLED account stays so until someone enables it.  (When  *)
(* they overlap, the later write restores the fields it read.)             *)
UpdatesKept == \A u \in DOMAIN users \ raced : users[u] = want[u]

(* Documents and tasks belong to an account that exists, although an       *)
(* upload may be admitted before its account is deleted and write after.   *)
NoOrphans == refs \subseteq DOMAIN users

(* An account that was deleted does not come back by the write of an       *)
(* update that had read it before.                                         *)
DeletedStaysDeleted ==
  [][(used \ DOMAIN users) \cap DOMAIN users' = {}]_vars
=============================================================================
