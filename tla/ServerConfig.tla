----------------------------- MODULE ServerConfig -----------------------------
(***************************************************************************)
(* config.Load and config.Validate: what a configuration file turns into   *)
(* and whether the server starts with it.                                  *)
(*                                                                         *)
(* A configuration has the fields the two functions look at.  A text is    *)
(* "" or not; a domain is the sequence of its labels, and of a label it    *)
(* matters whether it is empty, has a space or a slash in it ("broken"),   *)
(* is all digits, or is a name.                                            *)
(***************************************************************************)
EXTENDS Integers, Sequences

Labels == {"", "broken", "digits", "name"}
Texts == {"", "set"}

Configs ==
  [listen : Texts, domain : Seq(Labels), path : Texts, parent : BOOLEAN, ttl : Int,
   cost : Int, audit : Int, log : Int, retention : Int, secret : Texts, master : Texts]

(* applyFixedDefaults: a zero cannot be told from a missing value. *)
Default(n, d) == IF n = 0 THEN d ELSE n
ApplyFixedDefaults(f) ==
  [f EXCEPT !.listen = "set", !.cost = Default(@, 10), !.ttl = Default(@, 12),
            !.audit = Default(@, 180), !.log = Default(@, 30),
            !.retention = Default(@, 24)]

(* isValidDomain: at least two labels, none of them empty or broken, and   *)
(* not an address of digits only.                                          *)
IsValidDomain(d) ==
  /\ Len(d) > 1
  /\ \A i \in DOMAIN d : d[i] \notin {"", "broken"}
  /\ \E i \in DOMAIN d : d[i] = "name"

Validate(c) ==
  /\ c.listen # "" /\ IsValidDomain(c.domain)
  /\ c.path # "" /\ c.parent
  /\ c.ttl \in 1..720 /\ c.audit \in 30..365 /\ c.log \in 7..90
  /\ c.secret # "" /\ c.master # ""

Accepted(f) == Validate(ApplyFixedDefaults(f))
=============================================================================
