----------------------------- MODULE MCTenancy -----------------------------
(* Tenancy on small sets of requests, one subject at a time.                *)
EXTENDS Tenancy

CONSTANTS u1, u2, b1, b2

R(a, i, k, o, t) == [actor |-> a, idem |-> i, kind |-> k, on |-> o, to |-> t]

\* Two owners who demote, suspend and remove each other and themselves.
Members == [from |-> "founded", requests |->
  {R(u1, "i", "role", u2, "Viewer"), R(u1, "i", "status", u2, "SUSPENDED"),
   R(u2, "i", "role", u1, "Admin"), R(u2, "j", "remove", u2, "-"),
   R(u2, "k", "role", u2, "Owner")}]

\* An organization from its creation to its deletion.
Lives == [from |-> "nothing", requests |->
  {R(u1, "i", "create", None, "-"), R(u1, "j", "add", u2, "Admin"),
   R(u1, "k", "delete", None, "-"), R(u2, "i", "environment", None, "-"),
   R(u2, "j", "rename", None, "-")}]

\* One key that is rotated by people and by itself, and revoked.
Keys == [from |-> "founded", requests |->
  {R(u1, "i", "rotate", 1, "-"), R(1, "i", "rotate", 1, "-"),
   R(u2, "i", "revoke", 1, "-"), R(u2, "j", "create key", None, "-"),
   R(u2, "j", "rotate", 2, "-")}]

\* Registrations and activations.
Channels == [from |-> "founded", requests |->
  {R(u1, "i", "register", b1, "h1"), R(u2, "i", "register", b1, "h2"),
   R(u2, "j", "register", b2, "h1"), R(u1, "j", "activate", b1, 0),
   R(u2, "k", "activate", b2, 0)}]

AllScenarios == {Members, Lives, Keys, Channels}
=============================================================================
