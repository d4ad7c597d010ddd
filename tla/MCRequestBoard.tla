--------------------------- MODULE MCRequestBoard ---------------------------
(***************************************************************************)
(* Instances of the request board for TLC.                                 *)
(***************************************************************************)
EXTENDS BoardProperties, TLC

CONSTANTS h1, h2, h3, i1, i2, i3, i4, d1, d2, d3, v1, u1

TwoHandlers == {h1, h2}
ThreeHandlers == {h1, h2, h3}
OneHandler == {h1}
Symmetric == Permutations(Handlers) \cup Permutations(ReqIds)

(* "x" and "X", "y" and "Y" are the same names to a case-insensitive index.*)
MCTitles == {"x", "X", "y", "Y", "z"}
MCLower == [t \in MCTitles |-> CASE t = "X" -> "x" [] t = "Y" -> "y" [] OTHER -> t]
MCUrls == {u1}
\* d3 is a destination created again under the name of d1.
MCDestName == (d1 :> "nas") @@ (d2 :> "vps") @@ (d3 :> "nas")
\* v1 is the id of d1, spelled otherwise.
MCMeant == [v \in Variants |-> d1]

Call(op) == [NoCall EXCEPT !.op = op, !.role = "mod", !.canBatch = TRUE]
Create(role, name, alt, dests) ==
  [Call("create") EXCEPT !.role = role, !.name = name, !.alt = alt,
     !.category = "current_future", !.dests = dests]
NewForm(name, alt, url, dests) ==
  [Create("mod", name, alt, dests) EXCEPT !.op = "newForm", !.status = Blank, !.url = url]
Batch(names) == [Call("batch") EXCEPT !.category = "batch_add", !.names = names]
Rename(i, name) == [Call("update") EXCEPT !.id = i, !.name = name]
SetAlt(i, alt) == [Call("update") EXCEPT !.id = i, !.alt = alt]
Edit(i, name, alt, dests) ==
  [Call("edit") EXCEPT !.id = i, !.name = name, !.alt = alt, !.status = Blank,
     !.category = Blank, !.url = Blank, !.dests = dests]
Delete(i) == [Call("delete") EXCEPT !.id = i]
AddDest(i, d) == [Call("addDest") EXCEPT !.id = i, !.dests = {d}]
RemoveDest(i, d) == [Call("removeDest") EXCEPT !.id = i, !.dests = {d}]
CreateDest(d) == [Call("createDest") EXCEPT !.dests = {d}]
DeleteDest(d) == [Call("deleteDest") EXCEPT !.dests = {d}]

(* Names: inserts, renames and alternate names that fold to three keys,    *)
(* the fewest with which two rows can share an alternate name.             *)
NamesCalls ==
  {Create("user", "x", "y", {}), NewForm("z", "y", Blank, {}), Batch(<<"z", "X">>)}
  \cup UNION {{Rename(i, "y"), SetAlt(i, "Y"), Delete(i)} : i \in ReqIds}

(* Links: all the ways a destination is attached, detached or deleted, and *)
(* a batch and a rename for the catalogue.                                 *)
LinksCalls ==
  {Batch(<<"y", "X">>), Create("mod", "x", None, {d1, d2}), NewForm("x", Blank, u1, {d1}),
   CreateDest(d1), CreateDest(d2), CreateDest(d3), DeleteDest(d1)}
  \cup UNION {{Edit(i, "x", Blank, {d2}), Edit(i, "x", Blank, {d1, d3}),
               AddDest(i, d1), RemoveDest(i, d1), Rename(i, "y"), Delete(i)} : i \in ReqIds}

(* Two removals and nothing that brings a link back.                       *)
RemovalCalls ==
  {Create("mod", "x", None, {d1, d2}), CreateDest(d1), CreateDest(d2)}
  \cup UNION {{RemoveDest(i, d1), RemoveDest(i, d2)} : i \in ReqIds}

(* Batches in opposite orders, a create that is undone half way.           *)
BatchCalls ==
  {Batch(<<"x", "y">>), Batch(<<"y", Blank, "X">>),
   [Batch(<<"X">>) EXCEPT !.op = "batchForm"],
   Create("mod", "y", None, {d1})}

(* One client at a time, every operation and every refusal.                *)
SerialCalls ==
  {Create("user", "x", "y", {d1}), Create("mod", "x", "y", {d1}),
   Create("mod", "x", "X", {}),
   [Create("mod", "y", None, {}) EXCEPT !.status = Blank],
   NewForm("y", Blank, u1, {v1, d2}), NewForm("y", "x", Blank, {Malformed}),
   Batch(<<"y", "X", "y">>), [Batch(<<Blank>>) EXCEPT !.op = "batchForm"],
   [Batch(<<"x">>) EXCEPT !.canBatch = FALSE],
   CreateDest(d1), CreateDest(d2), DeleteDest(d1), DeleteDest(d2)}
  \cup UNION {
    {Rename(i, "y"), Rename(i, "X"), SetAlt(i, "x"), SetAlt(i, "y"), SetAlt(i, Blank),
     [Rename(i, None) EXCEPT !.url = Blank, !.status = "done"],
     Edit(i, "x", Blank, {d1}), Edit(i, "y", "x", {d2}), Edit(i, "x", Blank, {}),
     [Edit(i, "y", Blank, {d1, d2}) EXCEPT !.url = u1],
     [Edit(i, "x", "y", {d2}) EXCEPT !.url = Malformed], Edit(i, "x", Blank, {Malformed}),
     Edit(i, "x", Blank, {v1}), Edit(i, "y", Blank, {v1, d2}), Edit(i, "x", Blank, {v1, d1}),
     AddDest(i, v1), RemoveDest(i, v1),
     Delete(i), [Delete(i) EXCEPT !.role = "user"],
     AddDest(i, d1), AddDest(i, d2), RemoveDest(i, d1), RemoveDest(i, d2)} : i \in ReqIds}
=============================================================================
