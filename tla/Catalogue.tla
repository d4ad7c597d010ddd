------------------------------ MODULE Catalogue ------------------------------
(***************************************************************************)
(* What the request board promises the people who look at it, whatever     *)
(* goes on in handlers and transactions: a catalogue of entries and of the *)
(* servers each is sent to, changed by one atomic act at a time.           *)
(*                                                                         *)
(*   - entries appear whole and together with the tags they are made with; *)
(*   - no two entries have the same folded name, or the same folded        *)
(*     alternate name;                                                     *)
(*   - an entry that was withdrawn never comes back, and its tags go with  *)
(*     it; a closed server takes its tags along;                           *)
(*   - the URL of an entry is corrected, never cleared.                    *)
(***************************************************************************)
CONSTANTS ReqIds, Dests, Row, NoRow, None, Lower

VARIABLES entries, withdrawn, tags, servers

cvars == <<entries, withdrawn, tags, servers>>

Published == {i \in ReqIds : entries[i] # NoRow}

Distinct(e, P) ==
  \A i, j \in P : i # j =>
    /\ Lower[e[i].name] # Lower[e[j].name]
    /\ e[i].alt # None /\ e[j].alt # None => Lower[e[i].alt] # Lower[e[j].alt]

CInit ==
  /\ entries = [i \in ReqIds |-> NoRow]
  /\ withdrawn = {}
  /\ tags = {}
  /\ servers = [d \in Dests |-> "unborn"]

(* New entries come out, with tags of open servers only.                   *)
PublishEntries ==
  \E S \in SUBSET (ReqIds \ (Published \cup withdrawn)) :
    /\ entries' \in [ReqIds -> Row]
    /\ \A i \in ReqIds \ S : entries'[i] = entries[i]
    /\ \A i \in S : entries'[i] # NoRow
    /\ Distinct(entries', Published \cup S)
    /\ tags \subseteq tags'
    /\ \A l \in tags' \ tags : l[1] \in S /\ l[2] \in Dests /\ servers[l[2]] = "live"
    /\ UNCHANGED <<withdrawn, servers>>

ReviseEntry(i) ==
  /\ i \in Published
  /\ entries' \in [ReqIds -> Row]
  /\ \A j \in ReqIds \ {i} : entries'[j] = entries[j]
  /\ entries'[i] # NoRow
  /\ Distinct(entries', Published)
  /\ entries[i].url # None => entries'[i].url # None
  /\ UNCHANGED <<withdrawn, tags, servers>>

WithdrawEntry(i) ==
  /\ i \in Published
  /\ entries' = [entries EXCEPT ![i] = NoRow]
  /\ withdrawn' = withdrawn \cup {i}
  /\ tags' = {l \in tags : l[1] # i}
  /\ UNCHANGED servers

Tag(i, d) ==
  /\ i \in Published /\ servers[d] = "live"
  /\ tags' = tags \cup {<<i, d>>}
  /\ UNCHANGED <<entries, withdrawn, servers>>

Untag(i, d) ==
  /\ tags' = tags \ {<<i, d>>}
  /\ UNCHANGED <<entries, withdrawn, servers>>

OpenServer(d) ==
  /\ servers[d] = "unborn"
  /\ servers' = [servers EXCEPT ![d] = "live"]
  /\ UNCHANGED <<entries, withdrawn, tags>>

CloseServer(d) ==
  /\ servers[d] = "live"
  /\ servers' = [servers EXCEPT ![d] = "gone"]
  /\ tags' = {l \in tags : l[2] # d}
  /\ UNCHANGED <<entries, withdrawn>>

CNext ==
  \/ PublishEntries
  \/ \E i \in ReqIds : ReviseEntry(i) \/ WithdrawEntry(i)
  \/ \E i \in ReqIds, d \in Dests : Tag(i, d) \/ Untag(i, d)
  \/ \E d \in Dests : OpenServer(d) \/ CloseServer(d)

CSpec == CInit /\ [][CNext]_cvars
=============================================================================
