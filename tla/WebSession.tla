------------------------------ MODULE WebSession ------------------------------
(***************************************************************************)
(* The web pages as one browser meets them: webui and webui/admin behind   *)
(* auth.JWTMiddleware, the token cookie that LoginSubmit sets, and the     *)
(* logout link of app.js.                                                  *)
(*                                                                         *)
(* The repository holds two source trees, which differ in extractBearer:   *)
(* the one at the root takes a token only from the Authorization header,   *)
(* which no browser sends when it follows a link; the nested copy falls    *)
(* back to the cookie.                                                     *)
(***************************************************************************)
EXTENDS Integers

CONSTANTS
  CookieAuth,   \* does extractBearer look at the cookie
  Roles,        \* roles an account may have, "ADMIN" among them
  Lifetime,     \* of a token
  MaxTime,      \* the clock stops there
  NoCookie

VARIABLES
  page,         \* what the browser shows
  cookie,       \* the cookie "token"
  role,         \* users.role of the account
  active,       \* users.status is ACTIVE
  now

vars == <<page, cookie, role, active, now>>

UserPages == {"dashboard", "tasks", "task_new", "devices"}
AdminPages == {"admin", "users", "factories", "agents", "admin_devices", "audit"}
Paths == UserPages \cup AdminPages

TypeOK ==
  /\ page \in Paths \cup {"blank", "login", "unauthorized", "forbidden"}
  /\ cookie \in [role : Roles, exp : 0..(MaxTime + Lifetime)] \cup {NoCookie}
  /\ role \in Roles /\ active \in BOOLEAN /\ now \in 0..MaxTime

Init ==
  /\ page = "blank" /\ cookie = NoCookie
  /\ role \in Roles /\ active \in BOOLEAN /\ now = 0

-----------------------------------------------------------------------------
(* ParseToken: the token is there and has not expired. *)
Valid(token) == token # NoCookie /\ now < token.exp

(* IssueToken: the role the account has now. *)
IssueToken == [role |-> role, exp |-> now + Lifetime]

(* extractBearer of the root tree: the header alone, which a navigation    *)
(* does not have.                                                          *)
HeaderOnly(sent) == NoCookie

(* extractBearer of the nested copy: the cookie, failing the header. *)
HeaderOrCookie(sent) == sent

ExtractBearer(sent) == IF CookieAuth THEN HeaderOrCookie(sent) ELSE HeaderOnly(sent)

(* JWTMiddleware. *)
Opened(path, sent) ==
  IF Valid(ExtractBearer(sent)) THEN path ELSE "unauthorized"

(* AdminOnlyMiddleware behind it: the role is the token's. *)
AdminOnly(path, sent) ==
  IF Opened(path, sent) = path /\ sent.role # "ADMIN" THEN "forbidden"
  ELSE Opened(path, sent)

-----------------------------------------------------------------------------
(* DashboardPage, TasksPage, TaskNewPage, DevicesPage. *)
VisitUserPage(path) ==
  /\ page' = Opened(path, cookie)
  /\ UNCHANGED <<cookie, role, active, now>>

(* The pages under /admin. *)
VisitAdminPage(path) ==
  /\ page' = AdminOnly(path, cookie)
  /\ UNCHANGED <<cookie, role, active, now>>

(* The start page goes on to the dashboard if the cookie is good. *)
Index ==
  /\ page' = IF Valid(cookie) THEN Opened("dashboard", cookie) ELSE "login"
  /\ UNCHANGED <<cookie, role, active, now>>

LoginPage ==
  /\ page' = "login"
  /\ UNCHANGED <<cookie, role, active, now>>

(* The form comes back with an error unless the password is right and the  *)
(* account active; then the cookie is set and the browser is sent on.      *)
LoginSubmit ==
  /\ page = "login"
  /\ \/ page' = "login" /\ UNCHANGED cookie
     \/ /\ active
        /\ cookie' = IssueToken
        /\ page' = Opened("dashboard", cookie')
  /\ UNCHANGED <<role, active, now>>

(* The logout link: a script can neither read nor clear an HttpOnly cookie. *)
LogoutLink ==
  /\ page \in UserPages
  /\ page' = "login"
  /\ UNCHANGED <<cookie, role, active, now>>

(* An administrator changes the account; the browser drops a cookie that   *)
(* has expired.                                                            *)
UpdateUser ==
  /\ role' \in Roles /\ active' \in BOOLEAN
  /\ UNCHANGED <<page, cookie, now>>

Tick ==
  /\ now < MaxTime /\ now' = now + 1
  /\ cookie' = IF cookie # NoCookie /\ now' >= cookie.exp THEN NoCookie ELSE cookie
  /\ UNCHANGED <<page, role, active>>

Browse ==
  \/ \E path \in UserPages : VisitUserPage(path)
  \/ \E path \in AdminPages : VisitAdminPage(path)
SignIn == Index \/ LoginPage \/ LoginSubmit

Next == Browse \/ SignIn \/ LogoutLink \/ UpdateUser \/ Tick

Spec == Init /\ [][Next]_vars
-----------------------------------------------------------------------------
(* A browser that has a good cookie is never told that it is not logged in *)
(* (README.md:115: the web UI passes the token in a cookie).               *)
CookieOpensPages ==
  [][page # "unauthorized" /\ page' = "unauthorized" => ~Valid(cookie)']_vars
=============================================================================
