------------------------------ MODULE MCAccounts ------------------------------
(***************************************************************************)
(* Instances of the accounts for TLC, from an empty database.              *)
(***************************************************************************)
EXTENDS AccountsProperties, TLC

CONSTANTS h1, h2, u1, u2, u3, s1, s2, k1

TwoHandlers == {h1, h2}
ThreeUsers == {u1, u2, u3}
TwoSessions == {s1, s2}
OneCode == {k1}
Symmetric == Permutations(Handlers) \cup Permutations(Users) \cup Permutations(Sessions)
  \cup Permutations(Codes)

Call(op) == [NoCall EXCEPT !.op = op]
Named(op, n, r) == [Call(op) EXCEPT !.name = n, !.role = r]
Sent(op, s) == [Call(op) EXCEPT !.session = s]
Change(s, u, r, d) == [Sent("updateUser", s) EXCEPT !.user = u, !.role = r, !.disabled = d]

(* Admins demote, disable and enable each other while codes are issued,    *)
(* deleted and redeemed, under a name that create-user also wants.         *)
SomeCalls ==
  {Named("init", "ann", None), Named("create-user", "bob", "admin"), Call("generate-invite")}
  \cup {Named("login", n, None) : n \in {"ann", "bob"}}
  \cup {Change(s, u, "user", None) : s \in Sessions, u \in Users}
  \cup {Change(s, u, None, d) : s \in Sessions, u \in Users, d \in {"yes", "no"}}
  \cup {Sent("logout", s) : s \in Sessions}
  \cup {[Sent("deleteInvite", s) EXCEPT !.code = k] : s \in Sessions, k \in Codes}
  \cup {[Named("redeem", n, None) EXCEPT !.code = k] : n \in {"bob", "cid"}, k \in Codes}
=============================================================================
