--------------------------- MODULE WebSessionProofs ---------------------------
(***************************************************************************)
(* What the Web run refutes for the root tree holds for the nested copy,   *)
(* whose middleware falls back to the cookie.                              *)
(***************************************************************************)
EXTENDS WebSession, TLAPS

(* A guarded page turns only a browser without a good cookie away. *)
LEMMA GuardRefusesBadCookie ==
  ASSUME CookieAuth, NEW path \in Paths, NEW sent
  PROVE  /\ Opened(path, sent) = "unauthorized" => ~Valid(sent)
         /\ AdminOnly(path, sent) = "unauthorized" => ~Valid(sent)
BY DEF Opened, AdminOnly, ExtractBearer, HeaderOrCookie, Paths, UserPages, AdminPages

(* With the cookie as a fallback, as extractBearer of the nested tree has  *)
(* it, no browser with a good cookie is told that it is not logged in,     *)
(* whatever the roles, the lifetime of a token and what administrators do  *)
(* to the account meanwhile: CookieOpensPages.                             *)
THEOREM CookieIsEnough ==
  ASSUME CookieAuth PROVE Spec => CookieOpensPages
<1> DEFINE Good == page # "unauthorized" /\ page' = "unauthorized" => ~Valid(cookie)'
<1>1. ASSUME [Next]_vars PROVE Good
  <2>1. ASSUME NEW path \in UserPages, VisitUserPage(path) PROVE Good
    BY <2>1, GuardRefusesBadCookie DEF VisitUserPage, Valid, Paths
  <2>2. ASSUME NEW path \in AdminPages, VisitAdminPage(path) PROVE Good
    BY <2>2, GuardRefusesBadCookie DEF VisitAdminPage, Valid, Paths
  <2>3. CASE Index
    BY <2>3, GuardRefusesBadCookie DEF Index, Valid, Paths, UserPages
  <2>4. CASE LoginPage
    BY <2>4 DEF LoginPage
  <2>5. CASE LoginSubmit
    BY <2>5, GuardRefusesBadCookie DEF LoginSubmit, Valid, Paths, UserPages
  <2>6. CASE LogoutLink
    BY <2>6 DEF LogoutLink
  <2>7. CASE UpdateUser
    BY <2>7 DEF UpdateUser
  <2>8. CASE Tick
    BY <2>8 DEF Tick
  <2>9. CASE UNCHANGED vars
    BY <2>9 DEF vars
  <2>10. QED
    BY <1>1, <2>1, <2>2, <2>3, <2>4, <2>5, <2>6, <2>7, <2>8, <2>9
       DEF Next, Browse, SignIn
<1>2. QED
  BY <1>1, PTL DEF Spec, CookieOpensPages
=============================================================================
