---------------------------- MODULE BoardProofs ----------------------------
(***************************************************************************)
(* Proofs about the request board, for any number of handlers, requests,   *)
(* destinations and titles.  IInv is inductive: the lemmas below show it   *)
(* for each kind of write, and the steps of the handlers are instances.    *)
(***************************************************************************)
EXTENDS BoardProperties, FiniteSetTheorems, TLAPS

(* What uuid.Parse makes of the strings a client sends: each is malformed  *)
(* or means one destination, and a canonical string means itself.          *)
LEMMA CanonicalIds ==
  ASSUME NEW d \in Dests
  PROVE  Parse(d) = d /\ d # Malformed /\ d \notin Variants
BY SpecialValues DEF Parse
LEMMA ParsedIds ==
  ASSUME NEW S, S \subseteq IdStrings
  PROVE  Ids(S) \subseteq Dests /\ Ids(S) \subseteq IdStrings
BY SpecialValues DEF Ids, Parse, IdStrings
LEMMA OneId ==
  ASSUME NEW s \in IdStrings
  PROVE  IF s = Malformed THEN Ids({s}) = {} /\ Parse(s) \notin Dests
                          ELSE Ids({s}) = {Parse(s)} /\ Parse(s) \in Dests
BY SpecialValues DEF Ids, Parse, IdStrings
LEMMA IdsOfUnion ==
  ASSUME NEW S, NEW T
  PROVE  Ids(S \cup T) = Ids(S) \cup Ids(T)
BY DEF Ids
LEMMA IdsOfDests ==
  ASSUME NEW S, S \subseteq Dests
  PROVE  Ids(S) = S
<1>1. \A d \in S : Parse(d) = d /\ d # Malformed
  BY CanonicalIds
<1> QED
  BY <1>1 DEF Ids

(* The initial state satisfies the invariant.                              *)
LEMMA InitIInv == Init => IInv
<1> SUFFICES ASSUME Init PROVE IInv
  OBVIOUS
<1>1. NoCall \in CallType /\ Idle("none") \in Task
  BY DEF NoCall, CallType, CreateOps, Roles, Idle, Task, Pcs, Replies
<1>2. NoRow \in Row
  BY DEF NoRow, Row, Categories, Statuses
<1>3. Live = {} /\ Open = {}
  BY DEF Init, Live, Open
<1>4. TypeOK
  <2>1. phase \in [ReqIds -> {"unborn", "open", "live", "gone"}]
    BY DEF Init
  <2>2. row \in [ReqIds -> Row]
    BY <1>2 DEF Init
  <2>3. links \subseteq ReqIds \X Dests
    BY DEF Init
  <2>4. destPhase \in [Dests -> {"unborn", "live", "gone"}]
    BY DEF Init
  <2>5. task \in [Handlers -> Task]
    BY <1>1 DEF Init
  <2>6. \A i \in ReqIds : row[i].name \in Titles <=> i \in Live \cup Open
    BY <1>3, SpecialValues DEF Init, NoRow
  <2> QED
    BY <2>1, <2>2, <2>3, <2>4, <2>5, <2>6 DEF TypeOK
<1>5. UniqueKeys /\ LinksRefer
  BY <1>3 DEF Init, UniqueKeys, LinksRefer
<1>6. \A h \in Handlers : task[h] = Idle("none")
  BY DEF Init
<1>7. OpenRowsOwned
  BY <1>3, <1>6 DEF OpenRowsOwned, Idle
<1>8. \A h \in Handlers : MineFits(task[h]) /\ CallFits(task[h])
  BY <1>6 DEF MineFits, CallFits, Idle
<1> QED
  BY <1>4, <1>5, <1>7, <1>8 DEF IInv

-----------------------------------------------------------------------------
(* A step that changes no row and no phase: handler h moves on to t, and   *)
(* the links it leaves all refer.                                          *)
LEMMA LinkStep ==
  ASSUME IInv, NEW h \in Handlers, NEW t \in Task,
         task' = [task EXCEPT ![h] = t],
         UNCHANGED <<phase, row, destPhase>>,
         links' \subseteq ReqIds \X Dests,
         \A l \in links' : l[1] \in Live \cup Open /\ destPhase[l[2]] = "live",
         MineFits(t), CallFits(t), t.mine \subseteq task[h].mine,
         task[h].mine \cap Open \subseteq t.mine
  PROVE  IInv'
<1>1. Live' = Live /\ Open' = Open
  BY DEF Live, Open
<1>2. task \in [Handlers -> Task] /\ task' \in [Handlers -> Task]
  BY DEF IInv, TypeOK
<1>3. task'[h] = t /\ \A g \in Handlers \ {h} : task'[g] = task[g]
  BY <1>2
<1>4. TypeOK'
  BY <1>1, <1>2 DEF IInv, TypeOK
<1>5. UniqueKeys'
  BY <1>1 DEF IInv, UniqueKeys, Clash, SameName, SameAlt, AltDiffers, Key
<1>6. LinksRefer'
  BY <1>1 DEF LinksRefer
<1>7. \A g \in Handlers : (MineFits(task[g]) /\ CallFits(task[g]))'
  <2> SUFFICES ASSUME NEW g \in Handlers PROVE MineFits(task[g])' /\ CallFits(task[g])'
    OBVIOUS
  <2>1. CASE g = h
    BY <1>1, <1>3, <2>1 DEF MineFits, CallFits
  <2>2. CASE g # h
    BY <1>1, <1>3, <2>2 DEF IInv, MineFits, CallFits
  <2> QED
    BY <2>1, <2>2
<1>8. OpenRowsOwned'
  <2>1. ASSUME NEW i \in Open
        PROVE  \E g \in Handlers : i \in task'[g].mine /\ task'[g].pc \in {"link", "bulk"}
    <3>1. PICK g \in Handlers : i \in task[g].mine /\ task[g].pc \in {"link", "bulk"}
      BY <2>1 DEF IInv, OpenRowsOwned
    <3>2. CASE g # h
      BY <1>3, <3>1, <3>2
    <3>3. CASE g = h
      <4>1. i \in t.mine
        BY <2>1, <3>1, <3>3
      <4>2. i \in ReqIds /\ phase[i] = "open"
        BY <2>1 DEF Open
      <4>3. t.pc \in {"link", "bulk"}
        BY <4>1, <4>2 DEF MineFits
      <4> QED
        BY <1>3, <4>1, <4>3
    <3> QED
      BY <3>2, <3>3
  <2>2. \A f, g \in Handlers : f # g => task'[f].mine \cap task'[g].mine = {}
    BY <1>3 DEF IInv, OpenRowsOwned
  <2> QED
    BY <1>1, <2>1, <2>2 DEF OpenRowsOwned
<1> QED
  BY <1>4, <1>5, <1>6, <1>7, <1>8 DEF IInv

(* A step that changes nothing but where handler h is.                     *)
LEMMA QuietStep ==
  ASSUME IInv, NEW h \in Handlers, NEW t \in Task,
         Goto(h, t), UNCHANGED board,
         MineFits(t), CallFits(t), t.mine = task[h].mine
  PROVE  IInv'
<1>1. links' \subseteq ReqIds \X Dests
  BY DEF board, IInv, TypeOK
<1>2. \A l \in links' : l[1] \in Live \cup Open /\ destPhase[l[2]] = "live"
  BY DEF board, IInv, LinksRefer
<1> QED
  BY <1>1, <1>2, LinkStep DEF Goto, board

(* What an answered handler looks like.                                    *)
LEMMA IdleFits ==
  ASSUME NEW a \in Replies
  PROVE  /\ Idle(a) \in Task /\ Idle(a).mine = {} /\ Idle(a).pc = "idle"
         /\ MineFits(Idle(a)) /\ CallFits(Idle(a))
BY DEF Idle, Task, Pcs, NoCall, CallType, CreateOps, Roles, MineFits, CallFits

(* A handler with nothing uncommitted may answer without another change.   *)
LEMMA QuietAnswer ==
  ASSUME IInv, NEW h \in Handlers, NEW a \in Replies,
         Answer(h, a), UNCHANGED board, task[h].pc \notin {"link", "bulk"}
  PROVE  IInv'
<1>1. links' \subseteq ReqIds \X Dests
  BY DEF board, IInv, TypeOK
<1>2. \A l \in links' : l[1] \in Live \cup Open /\ destPhase[l[2]] = "live"
  BY DEF board, IInv, LinksRefer
<1>3. task[h].mine \cap Open = {}
  BY DEF IInv, MineFits, Open
<1> QED
  BY <1>1, <1>2, <1>3, IdleFits, LinkStep DEF Answer, Goto, board

-----------------------------------------------------------------------------
(* The uncommitted rows of a transaction are undone and its handler        *)
(* answers, as in Rollback.                                                *)
LEMMA RollbackStep ==
  ASSUME IInv, NEW h \in Handlers, NEW a \in Replies, Rollback(h), Answer(h, a)
  PROVE  IInv'
<1> DEFINE undone == task[h].mine \cap Open
<1>1. /\ phase' = [i \in ReqIds |-> IF i \in undone THEN "unborn" ELSE phase[i]]
      /\ row' = [i \in ReqIds |-> IF i \in undone THEN NoRow ELSE row[i]]
      /\ links' = {l \in links : l[1] \notin undone}
      /\ destPhase' = destPhase
  BY DEF Rollback
<1>2. phase \in [ReqIds -> {"unborn", "open", "live", "gone"}] /\ row \in [ReqIds -> Row]
  BY DEF IInv, TypeOK
<1>3. Live' = Live /\ Open' = Open \ undone
  BY <1>1, <1>2 DEF Live, Open
<1>4. task \in [Handlers -> Task] /\ task' \in [Handlers -> Task]
  BY IdleFits DEF IInv, TypeOK, Answer, Goto
<1>5. task'[h] = Idle(a) /\ \A g \in Handlers \ {h} : task'[g] = task[g]
  BY <1>4 DEF Answer, Goto
<1>6. NoRow \in Row /\ NoRow.name \notin Titles
  BY SpecialValues DEF NoRow, Row, Categories, Statuses
<1> HIDE DEF undone
<1>7. undone \cap Live = {} /\ undone \subseteq Open
  BY <1>2 DEF undone, Open, Live
<1>8. TypeOK'
  <2>1. \A i \in ReqIds : row'[i].name \in Titles <=> i \in (Live \cup Open)'
    BY <1>1, <1>3, <1>6, <1>7 DEF IInv, TypeOK
  <2>2. phase' \in [ReqIds -> {"unborn", "open", "live", "gone"}]
    BY <1>1, <1>2
  <2>3. row' \in [ReqIds -> Row]
    BY <1>1, <1>2, <1>6
  <2> QED
    BY <2>1, <2>2, <2>3, <1>1, <1>4 DEF IInv, TypeOK
<1>9. UniqueKeys'
  <2>1. \A i \in (Live \cup Open)' : i \in Live \cup Open /\ row'[i] = row[i]
    BY <1>1, <1>3, <1>7 DEF Live, Open
  <2> QED
    BY <2>1 DEF IInv, UniqueKeys, Clash, SameName, SameAlt, AltDiffers, Key
<1>10. LinksRefer'
  BY <1>1, <1>3 DEF IInv, LinksRefer
<1>11. \A f, g \in Handlers : f # g => task'[f].mine \cap task'[g].mine = {}
  BY <1>5, IdleFits DEF IInv, OpenRowsOwned
<1>12. OpenRowsOwned'
  <2>1. ASSUME NEW i \in Open'
        PROVE  \E g \in Handlers : i \in task'[g].mine /\ task'[g].pc \in {"link", "bulk"}
    <3>1. i \in Open /\ i \notin undone
      BY <1>3, <2>1
    <3>2. PICK g \in Handlers : i \in task[g].mine /\ task[g].pc \in {"link", "bulk"}
      BY <3>1 DEF IInv, OpenRowsOwned
    <3>3. g # h
      BY <3>1, <3>2 DEF undone
    <3> QED
      BY <1>5, <3>2, <3>3
  <2> QED
    BY <2>1, <1>11 DEF OpenRowsOwned
<1>13. \A g \in Handlers : (MineFits(task[g]) /\ CallFits(task[g]))'
  <2> SUFFICES ASSUME NEW g \in Handlers PROVE MineFits(task[g])' /\ CallFits(task[g])'
    OBVIOUS
  <2>1. CASE g = h
    BY <1>5, <2>1, IdleFits DEF MineFits, CallFits, Idle
  <2>2. CASE g # h
    <3>1. task'[g] = task[g] /\ task[g].mine \cap undone = {}
      BY <1>5, <2>2 DEF IInv, OpenRowsOwned, undone
    <3>2. MineFits(task[g]) /\ CallFits(task[g])
      BY DEF IInv
    <3>3. task[g].mine \subseteq ReqIds
      BY <1>4 DEF Task
    <3>4. \A i \in task[g].mine : phase'[i] = phase[i]
      BY <1>1, <3>1, <3>3
    <3> QED
      BY <1>3, <3>1, <3>2, <3>4 DEF MineFits, CallFits
  <2> QED
    BY <2>1, <2>2
<1> QED
  BY <1>8, <1>9, <1>10, <1>12, <1>13 DEF IInv

(* A transaction commits: its rows become visible.                         *)
LEMMA PublishStep ==
  ASSUME IInv, NEW h \in Handlers, NEW t \in Task,
         task[h].pc \in {"link", "bulk"}, Publish(h), Goto(h, t),
         t.mine \in {{}, task[h].mine}, t.pc \in {"reread", "idle"},
         t.pc = "idle" => t.mine = {}, CallFits(t)
  PROVE  IInv'
<1> DEFINE mine == task[h].mine
<1>1. /\ phase' = [i \in ReqIds |-> IF i \in mine THEN "live" ELSE phase[i]]
      /\ row' = row /\ links' = links /\ destPhase' = destPhase
  BY DEF Publish
<1>2. phase \in [ReqIds -> {"unborn", "open", "live", "gone"}] /\ row \in [ReqIds -> Row]
  BY DEF IInv, TypeOK
<1>3. mine \subseteq Open /\ mine \subseteq ReqIds
  BY DEF IInv, MineFits, Open
<1>4. Live' = Live \cup mine /\ Open' = Open \ mine
  BY <1>1, <1>2, <1>3 DEF Live, Open
<1>5. task \in [Handlers -> Task] /\ task' \in [Handlers -> Task]
  BY DEF IInv, TypeOK, Goto
<1>6. task'[h] = t /\ \A g \in Handlers \ {h} : task'[g] = task[g]
  BY <1>5 DEF Goto
<1>7. (Live \cup Open)' = Live \cup Open
  BY <1>3, <1>4
<1>8. TypeOK'
  <2>1. phase' \in [ReqIds -> {"unborn", "open", "live", "gone"}]
    BY <1>1, <1>2
  <2> QED
    BY <2>1, <1>1, <1>5, <1>7 DEF IInv, TypeOK
<1>9. UniqueKeys' /\ LinksRefer'
  BY <1>1, <1>7 DEF IInv, UniqueKeys, LinksRefer, Clash, SameName, SameAlt, AltDiffers, Key
<1>10. \A f, g \in Handlers : f # g => task'[f].mine \cap task'[g].mine = {}
  BY <1>6 DEF IInv, OpenRowsOwned
<1>11. OpenRowsOwned'
  <2>1. ASSUME NEW i \in Open'
        PROVE  \E g \in Handlers : i \in task'[g].mine /\ task'[g].pc \in {"link", "bulk"}
    <3>1. PICK g \in Handlers : i \in task[g].mine /\ task[g].pc \in {"link", "bulk"}
      BY <1>4, <2>1 DEF IInv, OpenRowsOwned
    <3>2. g # h
      BY <1>4, <2>1, <3>1
    <3> QED
      BY <1>6, <3>1, <3>2
  <2> QED
    BY <2>1, <1>10 DEF OpenRowsOwned
<1>12. \A g \in Handlers : (MineFits(task[g]) /\ CallFits(task[g]))'
  <2> SUFFICES ASSUME NEW g \in Handlers PROVE MineFits(task[g])' /\ CallFits(task[g])'
    OBVIOUS
  <2>1. CASE g = h
    <3>1. \A i \in t.mine : phase'[i] = "live"
      BY <1>1, <1>3
    <3> QED
      BY <1>6, <2>1, <3>1 DEF MineFits, CallFits
  <2>2. CASE g # h
    <3>1. task'[g] = task[g] /\ task[g].mine \cap mine = {}
      BY <1>6, <2>2 DEF IInv, OpenRowsOwned
    <3>2. MineFits(task[g]) /\ CallFits(task[g])
      BY DEF IInv
    <3>3. \A i \in task[g].mine : phase'[i] = phase[i]
      BY <1>1, <1>5, <3>1 DEF Task
    <3> QED
      BY <1>4, <3>1, <3>2, <3>3 DEF MineFits, CallFits
  <2> QED
    BY <2>1, <2>2
<1> QED
  BY <1>8, <1>9, <1>11, <1>12 DEF IInv

(* A new uncommitted row whose keys nobody else has.                       *)
LEMMA InsertStep ==
  ASSUME IInv, NEW h \in Handlers, NEW t \in Task, NEW i \in ReqIds, NEW r \in Row,
         phase[i] = "unborn", r.name \in Titles, AltDiffers(r),
         \A j \in Live \cup Open : ~Clash(row[j], r),
         phase' = [phase EXCEPT ![i] = "open"],
         row' = [row EXCEPT ![i] = r],
         UNCHANGED <<links, destPhase>>,
         Goto(h, t), t.mine = task[h].mine \cup {i}, t.pc \in {"link", "bulk"},
         task[h].mine \subseteq Open, CallFits(t)
  PROVE  IInv'
<1>1. phase \in [ReqIds -> {"unborn", "open", "live", "gone"}] /\ row \in [ReqIds -> Row]
  BY DEF IInv, TypeOK
<1>2. Live' = Live /\ Open' = Open \cup {i} /\ i \notin Live \cup Open
  BY <1>1 DEF Live, Open
<1>3. /\ row'[i] = r /\ \A j \in ReqIds \ {i} : row'[j] = row[j] /\ phase'[j] = phase[j]
      /\ row' \in [ReqIds -> Row] /\ phase' \in [ReqIds -> {"unborn", "open", "live", "gone"}]
  BY <1>1
<1>4. task \in [Handlers -> Task] /\ task' \in [Handlers -> Task]
  BY DEF IInv, TypeOK, Goto
<1>5. task'[h] = t /\ \A g \in Handlers \ {h} : task'[g] = task[g]
  BY <1>4 DEF Goto
<1>6. \A g \in Handlers : i \notin task[g].mine
  BY <1>4 DEF IInv, MineFits, Open
<1>7. TypeOK'
  <2>1. \A j \in ReqIds : row'[j].name \in Titles <=> j \in (Live \cup Open)'
    BY <1>2, <1>3 DEF IInv, TypeOK
  <2> QED
    BY <2>1, <1>3, <1>4 DEF IInv, TypeOK
<1>8. UniqueKeys'
  <2>1. \A j \in (Live \cup Open)' : j = i \/ (j \in Live \cup Open /\ row'[j] = row[j])
    BY <1>2, <1>3 DEF Live, Open
  <2>2. ASSUME NEW j \in (Live \cup Open)', NEW k \in (Live \cup Open)', j # k
        PROVE  ~Clash(row'[j], row'[k])
    <3>1. CASE j = i
      <4>1. ~Clash(row[k], r) /\ row'[k] = row[k] /\ row'[j] = r
        BY <1>3, <2>1, <2>2, <3>1
      <4> QED
        BY <4>1 DEF Clash, SameName, SameAlt, Key
    <3>2. CASE k = i
      BY <1>3, <2>1, <2>2, <3>2
    <3>3. CASE j # i /\ k # i
      BY <2>1, <2>2, <3>3 DEF IInv, UniqueKeys
    <3> QED
      BY <3>1, <3>2, <3>3
  <2>3. \A j \in (Live \cup Open)' : AltDiffers(row'[j])
    BY <1>3, <2>1 DEF IInv, UniqueKeys
  <2>4. (\A j \in Live \cup Open : AltDiffers(row[j]))'
    BY <2>3 DEF AltDiffers, Key
  <2>5. (\A j, k \in Live \cup Open : j # k => ~Clash(row[j], row[k]))'
    BY <2>2 DEF Clash, SameName, SameAlt, Key
  <2> QED
    BY <2>4, <2>5 DEF UniqueKeys
<1>9. LinksRefer'
  BY <1>2 DEF IInv, LinksRefer
<1>10. \A f, g \in Handlers : f # g => task'[f].mine \cap task'[g].mine = {}
  BY <1>5, <1>6 DEF IInv, OpenRowsOwned
<1>11. OpenRowsOwned'
  <2>1. ASSUME NEW j \in Open'
        PROVE  \E g \in Handlers : j \in task'[g].mine /\ task'[g].pc \in {"link", "bulk"}
    <3>1. CASE j = i
      BY <1>5, <3>1
    <3>2. CASE j # i
      <4>1. PICK g \in Handlers : j \in task[g].mine /\ task[g].pc \in {"link", "bulk"}
        BY <1>2, <2>1, <3>2 DEF IInv, OpenRowsOwned
      <4> QED
        BY <1>5, <4>1
    <3> QED
      BY <3>1, <3>2
  <2> QED
    BY <2>1, <1>10 DEF OpenRowsOwned
<1>12. \A g \in Handlers : (MineFits(task[g]) /\ CallFits(task[g]))'
  <2> SUFFICES ASSUME NEW g \in Handlers PROVE MineFits(task[g])' /\ CallFits(task[g])'
    OBVIOUS
  <2>1. CASE g = h
    BY <1>2, <1>5, <2>1 DEF MineFits, CallFits
  <2>2. CASE g # h
    <3>1. task'[g] = task[g] /\ MineFits(task[g]) /\ CallFits(task[g])
      BY <1>5, <2>2 DEF IInv
    <3>2. \A j \in task[g].mine : phase'[j] = phase[j]
      BY <1>3, <1>4, <1>6 DEF Task
    <3> QED
      BY <1>2, <3>1, <3>2 DEF MineFits, CallFits
  <2> QED
    BY <2>1, <2>2
<1> QED
  BY <1>7, <1>8, <1>9, <1>11, <1>12 DEF IInv

(* A visible row gets columns whose keys nobody else has.                  *)
LEMMA RowStep ==
  ASSUME IInv, NEW h \in Handlers, NEW t \in Task, NEW i \in Live, NEW r \in Row,
         r.name \in Titles, AltDiffers(r),
         \A j \in (Live \cup Open) \ {i} : ~Clash(row[j], r),
         row' = [row EXCEPT ![i] = r],
         UNCHANGED <<phase, links, destPhase>>,
         Goto(h, t), t.mine = {}, task[h].mine = {},
         t.pc \notin {"link", "bulk"}, CallFits(t)
  PROVE  IInv'
<1>1. Live' = Live /\ Open' = Open
  BY DEF Live, Open
<1>2. i \in ReqIds /\ row \in [ReqIds -> Row]
  BY DEF Live, IInv, TypeOK
<1>3. row'[i] = r /\ \A j \in ReqIds \ {i} : row'[j] = row[j] /\ row' \in [ReqIds -> Row]
  BY <1>2
<1>4. task \in [Handlers -> Task] /\ task' \in [Handlers -> Task]
  BY DEF IInv, TypeOK, Goto
<1>5. task'[h] = t /\ \A g \in Handlers \ {h} : task'[g] = task[g]
  BY <1>4 DEF Goto
<1>6. TypeOK'
  <2>1. \A j \in ReqIds : row'[j].name \in Titles <=> j \in (Live \cup Open)'
    BY <1>1, <1>3 DEF IInv, TypeOK
  <2>2. row' \in [ReqIds -> Row]
    BY <1>2
  <2> QED
    BY <2>1, <2>2, <1>4 DEF IInv, TypeOK
<1>7. UniqueKeys'
  <2>1. \A j \in Live \cup Open : j \in ReqIds
    BY DEF Live, Open
  <2>2. ASSUME NEW j \in Live \cup Open, NEW k \in Live \cup Open, j # k
        PROVE  ~Clash(row'[j], row'[k])
    <3>1. CASE j = i
      <4>1. ~Clash(row[k], r) /\ row'[k] = row[k] /\ row'[j] = r
        BY <1>3, <2>1, <2>2, <3>1
      <4> QED
        BY <4>1 DEF Clash, SameName, SameAlt, Key
    <3>2. CASE k = i
      BY <1>3, <2>1, <2>2, <3>2
    <3>3. CASE j # i /\ k # i
      BY <1>3, <2>1, <2>2, <3>3 DEF IInv, UniqueKeys
    <3> QED
      BY <3>1, <3>2, <3>3
  <2>3. \A j \in Live \cup Open : AltDiffers(row'[j])
    BY <1>3, <2>1 DEF IInv, UniqueKeys
  <2>4. (\A j \in Live \cup Open : AltDiffers(row[j]))'
    BY <1>1, <2>3 DEF AltDiffers, Key
  <2>5. (\A j, k \in Live \cup Open : j # k => ~Clash(row[j], row[k]))'
    BY <1>1, <2>2 DEF Clash, SameName, SameAlt, Key
  <2> QED
    BY <2>4, <2>5 DEF UniqueKeys
<1>8. LinksRefer'
  BY <1>1 DEF IInv, LinksRefer
<1>9. OpenRowsOwned'
  BY <1>1, <1>5 DEF IInv, OpenRowsOwned
<1>10. \A g \in Handlers : (MineFits(task[g]) /\ CallFits(task[g]))'
  <2> SUFFICES ASSUME NEW g \in Handlers PROVE MineFits(task[g])' /\ CallFits(task[g])'
    OBVIOUS
  <2>1. CASE g = h
    BY <1>1, <1>5, <2>1 DEF MineFits, CallFits
  <2>2. CASE g # h
    BY <1>1, <1>5, <2>2 DEF IInv, MineFits, CallFits
  <2> QED
    BY <2>1, <2>2
<1> QED
  BY <1>6, <1>7, <1>8, <1>9, <1>10 DEF IInv

(* DELETE of a request, with the links that go with it.                    *)
LEMMA DeleteRequestStep ==
  ASSUME IInv, NEW h \in Handlers, DeleteRequest(h)
  PROVE  IInv'
<1> DEFINE i == task[h].call.id
<1>1. task \in [Handlers -> Task] /\ row \in [ReqIds -> Row]
      /\ phase \in [ReqIds -> {"unborn", "open", "live", "gone"}]
  BY DEF IInv, TypeOK
<1>2. task[h].pc = "delete" /\ task[h].mine = {}
  BY DEF DeleteRequest, IInv, MineFits
<1>3. CASE i \notin Live
  <2>1. Answer(h, "notFound") /\ UNCHANGED board
    BY <1>3 DEF DeleteRequest, board
  <2> QED
    BY <1>2, <2>1, QuietAnswer DEF Replies
<1>4. CASE i \in Live
  <2>1. /\ phase' = [phase EXCEPT ![i] = "gone"]
        /\ row' = [row EXCEPT ![i] = NoRow]
        /\ links' = {l \in links : l[1] # i}
        /\ destPhase' = destPhase
        /\ task' = [task EXCEPT ![h] = Idle("ok")]
    BY <1>4 DEF DeleteRequest, Answer, Goto
  <2>2. Idle("ok") \in Task /\ Idle("ok").mine = {} /\ Idle("ok").pc = "idle"
    BY IdleFits DEF Replies
  <2>3. task' \in [Handlers -> Task] /\ task'[h] = Idle("ok")
        /\ \A g \in Handlers \ {h} : task'[g] = task[g]
    BY <1>1, <2>1, <2>2
  <2>4. NoRow \in Row /\ NoRow.name \notin Titles
    BY SpecialValues DEF NoRow, Row, Categories, Statuses
  <2>5. i \in ReqIds /\ i \notin Open
    BY <1>4 DEF Live, Open
  <2> HIDE DEF i
  <2>6. Live' = Live \ {i} /\ Open' = Open
    BY <1>1, <2>1, <2>5 DEF Live, Open
  <2>7. row'[i] = NoRow /\ \A j \in ReqIds \ {i} : row'[j] = row[j] /\ phase'[j] = phase[j]
    BY <1>1, <2>1, <2>5
  <2>8. TypeOK'
    <3>1. \A j \in ReqIds : row'[j].name \in Titles <=> j \in (Live \cup Open)'
      BY <2>4, <2>5, <2>6, <2>7 DEF IInv, TypeOK
    <3>2. phase' \in [ReqIds -> {"unborn", "open", "live", "gone"}] /\ row' \in [ReqIds -> Row]
      BY <1>1, <2>1, <2>4
    <3> QED
      BY <3>1, <3>2, <2>1, <2>3 DEF IInv, TypeOK
  <2>9. UniqueKeys'
    <3>1. \A j \in (Live \cup Open)' : j \in Live \cup Open /\ row'[j] = row[j]
      BY <2>5, <2>6, <2>7 DEF Live, Open
    <3> QED
      BY <3>1 DEF IInv, UniqueKeys, Clash, SameName, SameAlt, AltDiffers, Key
  <2>10. LinksRefer'
    BY <2>1, <2>6 DEF IInv, LinksRefer
  <2>11. OpenRowsOwned'
    BY <1>2, <2>2, <2>3, <2>6 DEF IInv, OpenRowsOwned
  <2>12. \A g \in Handlers : (MineFits(task[g]) /\ CallFits(task[g]))'
    <3> SUFFICES ASSUME NEW g \in Handlers PROVE MineFits(task[g])' /\ CallFits(task[g])'
      OBVIOUS
    <3>1. CASE g = h
      BY <2>3, <3>1, IdleFits DEF MineFits, CallFits, Idle
    <3>2. CASE g # h
      <4>1. task'[g] = task[g] /\ MineFits(task[g]) /\ CallFits(task[g])
        BY <2>3, <3>2 DEF IInv
      <4>2. \A j \in task[g].mine : phase'[j] \in {phase[j], "gone"}
        BY <1>1, <2>1 DEF Task
      <4> QED
        BY <2>6, <4>1, <4>2 DEF MineFits, CallFits
    <3> QED
      BY <3>1, <3>2
  <2> QED
    BY <2>8, <2>9, <2>10, <2>11, <2>12 DEF IInv
<1> QED
  BY <1>3, <1>4

(* A step of a handler outside transactions that changes the destinations. *)
LEMMA DestStep ==
  ASSUME IInv, NEW h \in Handlers, NEW a \in Replies, Answer(h, a),
         task[h].pc \notin {"link", "bulk"},
         UNCHANGED <<phase, row>>,
         destPhase' \in [Dests -> {"unborn", "live", "gone"}],
         links' \subseteq links,
         \A l \in links' : destPhase'[l[2]] = "live"
  PROVE  IInv'
<1>1. Live' = Live /\ Open' = Open
  BY DEF Live, Open
<1>2. task \in [Handlers -> Task] /\ task' \in [Handlers -> Task]
  BY IdleFits DEF IInv, TypeOK, Answer, Goto
<1>3. task'[h] = Idle(a) /\ \A g \in Handlers \ {h} : task'[g] = task[g]
  BY <1>2 DEF Answer, Goto
<1>4. task[h].mine \cap Open = {}
  BY DEF IInv, MineFits, Open
<1>5. TypeOK'
  BY <1>1, <1>2 DEF IInv, TypeOK
<1>6. UniqueKeys'
  BY <1>1 DEF IInv, UniqueKeys, Clash, SameName, SameAlt, AltDiffers, Key
<1>7. LinksRefer'
  BY <1>1 DEF IInv, LinksRefer
<1>8. OpenRowsOwned'
  BY <1>1, <1>3, <1>4, IdleFits DEF IInv, OpenRowsOwned
<1>9. \A g \in Handlers : (MineFits(task[g]) /\ CallFits(task[g]))'
  <2> SUFFICES ASSUME NEW g \in Handlers PROVE MineFits(task[g])' /\ CallFits(task[g])'
    OBVIOUS
  <2>1. CASE g = h
    BY <1>3, <2>1, IdleFits DEF MineFits, CallFits, Idle
  <2>2. CASE g # h
    BY <1>1, <1>3, <2>2 DEF IInv, MineFits, CallFits
  <2> QED
    BY <2>1, <2>2
<1> QED
  BY <1>5, <1>6, <1>7, <1>8, <1>9 DEF IInv

-----------------------------------------------------------------------------
(* A call that passes validation starts with nothing inserted.             *)
LEMMA BeginFits ==
  ASSUME NEW c \in Calls, NEW pc \in Pcs \ {"link", "bulk", "insert", "reread"},
         pc = "check" /\ c.op \in CreateOps => c.name \in Titles /\ c.category \in Categories
  PROVE  /\ Begin(c, pc) \in Task /\ Begin(c, pc).mine = {}
         /\ MineFits(Begin(c, pc)) /\ CallFits(Begin(c, pc))
<1>1. c \in CallType
  BY CallAssumption
<1>2. Begin(c, pc) = [pc |-> pc, call |-> c, seen |-> {}, todo |-> {}, left |-> {},
                      mine |-> {}, reply |-> "none"]
  BY DEF Begin, BeginBatch
<1> QED
  BY <1>1, <1>2 DEF Task, Replies, MineFits, CallFits

(* Receiving a call preserves the invariant, whether it is refused or not. *)
LEMMA SubmitKeeps ==
  ASSUME IInv, NEW h \in Handlers, NEW c \in Calls, Submit(h, c)
  PROVE  IInv'
<1>1. task[h].pc = "idle" /\ UNCHANGED board /\ task[h].mine = {}
  BY DEF Submit, Receive, SubmitCreate, SubmitNewForm, SubmitUpdate, SubmitEdit,
         SubmitDelete, SubmitAddDest, SubmitRemoveDest, SubmitCreateDest,
         SubmitDeleteDest, SubmitBatch, SubmitBatchForm, IInv, MineFits
<1>2. ASSUME NEW a \in Replies, Answer(h, a) PROVE IInv'
  BY <1>1, <1>2, QuietAnswer
<1>3. ASSUME NEW pc \in Pcs \ {"link", "bulk", "insert", "reread"}, Goto(h, Begin(c, pc)),
             pc = "check" /\ c.op \in CreateOps
               => c.name \in Titles /\ c.category \in Categories
      PROVE  IInv'
  BY <1>1, <1>3, BeginFits, QuietStep
<1>4. CASE SubmitCreate(h, c)
  <2>1. CASE ~InvalidCreate(c) /\ Goto(h, Begin(c, "check"))
    BY <1>3, <2>1 DEF InvalidCreate, Categories, Pcs
  <2> QED
    BY <1>2, <1>4, <2>1 DEF SubmitCreate, Replies
<1>5. CASE SubmitNewForm(h, c)
  <2>1. CASE ~InvalidCreate(c) /\ Goto(h, Begin(c, "check"))
    BY <1>3, <2>1 DEF InvalidCreate, Categories, Pcs
  <2> QED
    BY <1>2, <1>5, <2>1 DEF SubmitNewForm, Replies
<1>6. CASE SubmitUpdate(h, c)
  <2>1. c.op \notin CreateOps
    BY <1>6 DEF SubmitUpdate, Receive, CreateOps
  <2>2. CASE Goto(h, Begin(c, "write")) \/ Goto(h, Begin(c, "check"))
    BY <1>3, <2>1, <2>2 DEF Pcs
  <2> QED
    BY <1>2, <1>6, <2>2 DEF SubmitUpdate, Replies
<1>7. CASE SubmitEdit(h, c)
  BY <1>2, <1>3, <1>7 DEF SubmitEdit, Pcs, Replies
<1>8. CASE SubmitDelete(h, c)
  BY <1>2, <1>3, <1>8 DEF SubmitDelete, Pcs, Replies
<1>9. CASE SubmitAddDest(h, c)
  BY <1>2, <1>3, <1>9 DEF SubmitAddDest, Pcs, Replies
<1>10. CASE SubmitRemoveDest(h, c)
  BY <1>2, <1>3, <1>10 DEF SubmitRemoveDest, Pcs, Replies
<1>11. CASE SubmitCreateDest(h, c)
  BY <1>2, <1>3, <1>11 DEF SubmitCreateDest, Pcs, Replies
<1>12. CASE SubmitDeleteDest(h, c)
  BY <1>2, <1>3, <1>12 DEF SubmitDeleteDest, Pcs, Replies
<1>13. ASSUME Goto(h, BeginBatch(c, "prefilter", Trimmed(c.names)))
       PROVE  IInv'
  <2> DEFINE t == BeginBatch(c, "prefilter", Trimmed(c.names))
  <2>1. c \in CallType /\ DOMAIN c.names \subseteq Nat
    BY CallAssumption DEF CallType
  <2>2. t = [pc |-> "prefilter", call |-> c, seen |-> {}, todo |-> {},
             left |-> Trimmed(c.names), mine |-> {}, reply |-> "none"]
    BY DEF Begin, BeginBatch
  <2>3. Trimmed(c.names) \subseteq Nat
    BY <2>1 DEF Trimmed
  <2>4. t \in Task /\ t.mine = {}
    BY <2>1, <2>2, <2>3 DEF Task, Pcs, Replies
  <2>5. MineFits(t) /\ CallFits(t)
    BY <2>2 DEF MineFits, CallFits
  <2> QED
    BY <1>1, <1>13, <2>4, <2>5, QuietStep
<1>14. CASE SubmitBatch(h, c)
  BY <1>2, <1>13, <1>14 DEF SubmitBatch, Replies
<1>15. CASE SubmitBatchForm(h, c)
  BY <1>2, <1>13, <1>15 DEF SubmitBatchForm, Replies
<1> QED
  BY <1>4, <1>5, <1>6, <1>7, <1>8, <1>9, <1>10, <1>11, <1>12, <1>14, <1>15 DEF Submit

(* The reads, the checks and the answers: steps that leave the board alone.*)
LEMMA ReadsKeep ==
  ASSUME IInv, NEW h \in Handlers,
         \/ CheckNames(h) \/ Reread(h) \/ LoadRequest(h) \/ LoadForEdit(h)
         \/ LoadForRemove(h) \/ TurnToDetach(h)
  PROVE  IInv'
<1>1. task[h] \in Task /\ MineFits(task[h]) /\ CallFits(task[h])
  BY DEF IInv, TypeOK
<1>2. UNCHANGED board /\ task[h].pc \notin {"link", "bulk"}
  BY DEF CheckNames, Reread, LoadRequest, LoadForEdit, LoadForRemove, TurnToDetach
<1>3. ASSUME NEW a \in Replies, Answer(h, a) PROVE IInv'
  BY <1>2, <1>3, QuietAnswer
<1>4. ASSUME NEW t \in Task, Goto(h, t), task[h].mine = {}, t.mine = {},
             t.pc \notin {"link", "bulk", "reread"}, CallFits(t)
      PROVE  IInv'
  BY <1>2, <1>4, QuietStep DEF MineFits
<1>5. CASE CheckNames(h)
  <2>1. task[h].mine = {} /\ task[h].pc = "check"
    BY <1>1, <1>5 DEF CheckNames, MineFits
  <2>2. CASE Goto(h, [task[h] EXCEPT !.pc = IF task[h].call.op \in CreateOps THEN "insert" ELSE "write"])
    <3> DEFINE t == [task[h] EXCEPT !.pc = IF task[h].call.op \in CreateOps THEN "insert" ELSE "write"]
    <3>1. t \in Task /\ t.mine = {} /\ t.pc \notin {"link", "bulk", "reread"}
      BY <1>1, <2>1 DEF Task, Pcs
    <3>2. CallFits(t)
      BY <1>1, <2>1 DEF CallFits, Task
    <3> QED
      BY <1>4, <2>1, <2>2, <3>1, <3>2
  <2> QED
    BY <1>3, <1>5, <2>2 DEF CheckNames, Replies
<1>6. CASE Reread(h)
  BY <1>3, <1>6 DEF Reread, Replies
<1>7. CASE LoadRequest(h)
  <2>1. task[h].mine = {} /\ task[h].pc = "load"
    BY <1>1, <1>7 DEF LoadRequest, MineFits
  <2>2. CASE Goto(h, [task[h] EXCEPT !.pc = "loadDests"])
    <3> DEFINE t == [task[h] EXCEPT !.pc = "loadDests"]
    <3>1. t \in Task /\ t.mine = {} /\ t.pc = "loadDests"
      BY <1>1, <2>1 DEF Task, Pcs
    <3>2. CallFits(t)
      BY <1>1, <2>1 DEF CallFits, Task
    <3> QED
      BY <1>4, <2>1, <2>2, <3>1, <3>2
  <2> QED
    BY <1>3, <1>7, <2>2 DEF LoadRequest, Replies
<1>8. CASE LoadForEdit(h)
  <2>1. task[h].mine = {} /\ task[h].pc = "loadDests" /\ task[h].call.op = "edit"
    BY <1>1, <1>8 DEF LoadForEdit, MineFits
  <2>2. CASE Goto(h, [task[h] EXCEPT !.pc = "check", !.seen = LinksOf(task[h].call.id)])
    <3> DEFINE t == [task[h] EXCEPT !.pc = "check", !.seen = LinksOf(task[h].call.id)]
    <3>1. t \in Task /\ t.mine = {} /\ t.pc = "check"
      BY <1>1, <2>1 DEF Task, Pcs, LinksOf
    <3>2. CallFits(t)
      BY <1>1, <2>1 DEF CallFits, Task, CreateOps
    <3> QED
      BY <1>4, <2>1, <2>2, <3>1, <3>2
  <2> QED
    BY <1>3, <1>8, <2>2 DEF LoadForEdit, Replies
<1>9. CASE LoadForRemove(h)
  <2>1. task[h].mine = {} /\ task[h].pc = "loadDests"
    BY <1>1, <1>9 DEF LoadForRemove, MineFits
  <2>2. CASE Goto(h, [task[h] EXCEPT !.pc = "remove", !.seen = LinksOf(task[h].call.id)])
    <3> DEFINE t == [task[h] EXCEPT !.pc = "remove", !.seen = LinksOf(task[h].call.id)]
    <3>1. t \in Task /\ t.mine = {} /\ t.pc = "remove"
      BY <1>1, <2>1 DEF Task, Pcs, LinksOf
    <3>2. CallFits(t)
      BY <1>1, <2>1 DEF CallFits, Task
    <3> QED
      BY <1>4, <2>1, <2>2, <3>1, <3>2
  <2> QED
    BY <1>3, <1>9, <2>2 DEF LoadForRemove, Replies
<1>10. CASE TurnToDetach(h)
  <2>1. task[h].mine = {} /\ task[h].pc = "attach"
    BY <1>1, <1>10 DEF TurnToDetach, MineFits
  <2> DEFINE c == task[h].call
             t == [task[h] EXCEPT !.pc = "detach",
                     !.todo = IF c.dests = {} THEN {} ELSE task[h].seen \ c.dests]
  <2>2. t \in Task /\ t.mine = {} /\ t.pc = "detach"
    <3>1. (IF c.dests = {} THEN {} ELSE task[h].seen \ c.dests) \subseteq IdStrings
      BY <1>1 DEF Task, IdStrings
    <3> QED
      BY <1>1, <2>1, <3>1 DEF Task, Pcs
  <2>3. CallFits(t)
    BY <1>1, <2>1 DEF CallFits, Task
  <2> QED
    BY <1>4, <1>10, <2>1, <2>2, <2>3 DEF TurnToDetach
<1> QED
  BY <1>5, <1>6, <1>7, <1>8, <1>9, <1>10

-----------------------------------------------------------------------------
(* The statements of a create.                                             *)
LEMMA NewRowTyped ==
  ASSUME NEW c \in CallType, c.name \in Titles, c.category \in Categories
  PROVE  NewRow(c) \in Row /\ NewRow(c).name \in Titles
BY DEF NewRow, Row, Statuses

(* The row the index probes let through clashes with no row at all.        *)
LEMMA ProbeSound ==
  ASSUME IInv, NEW h \in Handlers, NEW r, NEW i, MayWrite(h, r, i),
         WriteResult(h, r, i) = "ok"
  PROVE  /\ AltDiffers(r)
         /\ \A j \in (Live \cup Open) \ {i} : ~Clash(row[j], r)
<1>1. AltDiffers(r) /\ ~NameTaken(h, r, i) /\ ~AltTaken(h, r, i)
  BY DEF WriteResult
<1>2. ~NameHeld(h, r) /\ ~AltHeld(h, r)
  BY <1>1 DEF MayWrite
<1> QED
  BY <1>1, <1>2 DEF NameTaken, AltTaken, NameHeld, AltHeld, Clash

LEMMA InsertRequestStep ==
  ASSUME IInv, NEW h \in Handlers, InsertRequest(h)
  PROVE  IInv'
<1> DEFINE c == task[h].call
           r == NewRow(c)
<1>1. task[h] \in Task /\ MineFits(task[h]) /\ CallFits(task[h])
  BY DEF IInv, TypeOK
<1>2. task[h].pc = "insert" /\ task[h].mine = {} /\ MayWrite(h, r, None)
  BY <1>1 DEF InsertRequest, MineFits
<1>3. c \in CallType /\ r \in Row /\ r.name \in Titles
  BY <1>1, <1>2, NewRowTyped DEF CallFits, Task
<1>4. CASE WriteResult(h, r, None) # "ok"
  <2>1. Answer(h, WriteResult(h, r, None)) /\ UNCHANGED board
    BY <1>4 DEF InsertRequest
  <2>2. WriteResult(h, r, None) \in Replies
    BY DEF WriteResult, Replies
  <2> QED
    BY <1>2, <2>1, <2>2, QuietAnswer
<1>5. CASE WriteResult(h, r, None) = "ok"
  <2>1. PICK i \in ReqIds :
          /\ phase[i] = "unborn"
          /\ phase' = [phase EXCEPT ![i] = "open"]
          /\ row' = [row EXCEPT ![i] = r]
          /\ UNCHANGED <<links, destPhase>>
          /\ Goto(h, [task[h] EXCEPT !.pc = "link", !.mine = {i},
                        !.todo = IF IsMod(c) THEN Ids(c.dests) ELSE {}])
    BY <1>5 DEF InsertRequest
  <2> DEFINE u == [task[h] EXCEPT !.pc = "link", !.mine = {i},
                     !.todo = IF IsMod(c) THEN Ids(c.dests) ELSE {}]
  <2>2. (IF IsMod(c) THEN Ids(c.dests) ELSE {}) \subseteq IdStrings
    BY <1>3, ParsedIds DEF CallType
  <2>3. u \in Task /\ u.mine = {i} /\ u.pc = "link" /\ u.call = c /\ u.left = task[h].left
    BY <1>1, <2>2 DEF Task, Pcs
  <2>4. CallFits(u)
    BY <1>1, <2>3 DEF CallFits
  <2>5. AltDiffers(r) /\ \A j \in Live \cup Open : ~Clash(row[j], r)
    <3>1. None \notin Live \cup Open
      BY SpecialValues DEF Live, Open
    <3> QED
      BY <1>2, <1>5, <3>1, ProbeSound
  <2> HIDE DEF u, r
  <2> QED
    BY <1>2, <1>3, <2>1, <2>3, <2>4, <2>5, InsertStep DEF u
<1> QED
  BY <1>4, <1>5

LEMMA LinkDestinationStep ==
  ASSUME IInv, NEW h \in Handlers, LinkDestination(h)
  PROVE  IInv'
<1>1. task[h] \in Task /\ MineFits(task[h]) /\ CallFits(task[h])
  BY DEF IInv, TypeOK
<1>2. task[h].pc = "link" /\ task[h].mine \subseteq Open
  BY <1>1 DEF LinkDestination, MineFits
<1>3. PICK d \in task[h].todo :
        IF d \in Dests /\ destPhase[d] = "live"
        THEN /\ links' = links \cup (task[h].mine \X {d})
             /\ Goto(h, [task[h] EXCEPT !.todo = @ \ {d}])
             /\ UNCHANGED <<phase, row, destPhase>>
        ELSE Rollback(h) /\ Answer(h, "invalid")
  BY DEF LinkDestination
<1>4. CASE d \in Dests /\ destPhase[d] = "live"
  <2> DEFINE t == [task[h] EXCEPT !.todo = task[h].todo \ {d}]
  <2>1. /\ links' = links \cup (task[h].mine \X {d})
        /\ Goto(h, t)
        /\ UNCHANGED <<phase, row, destPhase>>
    BY <1>3, <1>4
  <2>2. /\ t \in Task /\ t.mine = task[h].mine /\ t.pc = task[h].pc
        /\ t.call = task[h].call /\ t.left = task[h].left
    BY <1>1 DEF Task
  <2>3. MineFits(t) /\ CallFits(t)
    BY <1>1, <2>2 DEF MineFits, CallFits
  <2>4. links' \subseteq ReqIds \X Dests
    BY <1>2, <1>4, <2>1 DEF IInv, TypeOK, Open
  <2>5. \A l \in links' : l[1] \in Live \cup Open /\ destPhase[l[2]] = "live"
    BY <1>2, <1>4, <2>1 DEF IInv, LinksRefer
  <2> HIDE DEF t
  <2> QED
    BY <2>1, <2>2, <2>3, <2>4, <2>5, LinkStep DEF Goto
<1>5. CASE ~(d \in Dests /\ destPhase[d] = "live")
  BY <1>3, <1>5, RollbackStep DEF Replies
<1> QED
  BY <1>4, <1>5

LEMMA CommitStep ==
  ASSUME IInv, NEW h \in Handlers, CommitCreate(h) \/ CommitBatch(h)
  PROVE  IInv'
<1>1. task[h] \in Task /\ MineFits(task[h]) /\ CallFits(task[h])
  BY DEF IInv, TypeOK
<1>2. CASE CommitCreate(h)
  <2> DEFINE t == [task[h] EXCEPT !.pc = "reread"]
  <2>1. task[h].pc = "link" /\ Publish(h) /\ Goto(h, t)
    BY <1>2 DEF CommitCreate
  <2>2. /\ t \in Task /\ t.mine = task[h].mine /\ t.pc = "reread"
        /\ t.call = task[h].call /\ t.left = task[h].left
    BY <1>1 DEF Task, Pcs
  <2>3. CallFits(t)
    BY <1>1, <2>2 DEF CallFits
  <2> HIDE DEF t
  <2> QED
    BY <2>1, <2>2, <2>3, PublishStep
<1>3. CASE CommitBatch(h)
  <2>1. PICK told \in {"ok", "error"} : Answer(h, told)
    BY <1>3 DEF CommitBatch
  <2>2. task[h].pc = "bulk" /\ Publish(h) /\ Goto(h, Idle(told))
    BY <1>3, <2>1 DEF CommitBatch, Answer
  <2>3. told \in Replies
    BY DEF Replies
  <2> QED
    BY <2>2, <2>3, IdleFits, PublishStep
<1> QED
  BY <1>2, <1>3

(* The columns an update sets are typed, and keep a name.                  *)
LEMMA EditedTyped ==
  ASSUME NEW c \in CallType, NEW r \in Row, r.name \in Titles
  PROVE  Edited(r, c) \in Row /\ Edited(r, c).name \in Titles
<1>1. (IF c.alt = None THEN r.alt ELSE IF c.alt = Blank THEN None ELSE c.alt)
        \in Titles \cup {None}
  BY DEF CallType, Row
<1> QED
  BY <1>1 DEF Edited, Row

LEMMA UpdateRequestStep ==
  ASSUME IInv, NEW h \in Handlers, UpdateRequest(h)
  PROVE  IInv'
<1> DEFINE c == task[h].call
           r == Edited(row[c.id], c)
           t == [task[h] EXCEPT !.pc = IF c.op = "edit" THEN "attach" ELSE "reread",
                                !.todo = IF c.op = "edit"
                                         THEN (c.dests \ {Malformed}) \ task[h].seen
                                         ELSE {}]
<1>1. task[h] \in Task /\ MineFits(task[h]) /\ CallFits(task[h])
  BY DEF IInv, TypeOK
<1>2. task[h].pc = "write" /\ task[h].mine = {} /\ UNCHANGED <<phase, links, destPhase>>
  BY <1>1 DEF UpdateRequest, MineFits
<1>3. /\ t \in Task /\ t.mine = {} /\ t.pc \in {"attach", "reread"}
      /\ t.call = c /\ t.left = task[h].left
  <2>1. (IF c.op = "edit" THEN (c.dests \ {Malformed}) \ task[h].seen ELSE {})
          \subseteq IdStrings
    BY <1>1 DEF Task, CallType
  <2>2. (IF c.op = "edit" THEN "attach" ELSE "reread") \in Pcs \cap {"attach", "reread"}
    BY DEF Pcs
  <2> QED
    BY <1>1, <1>2, <2>1, <2>2 DEF Task
<1>4. MineFits(t) /\ CallFits(t)
  BY <1>1, <1>3 DEF MineFits, CallFits
<1>5. CASE c.id \notin Live
  <2>1. Goto(h, t) /\ UNCHANGED board
    BY <1>2, <1>5 DEF UpdateRequest, board
  <2> HIDE DEF t
  <2> QED
    BY <1>2, <1>3, <1>4, <2>1, QuietStep
<1>6. CASE c.id \in Live /\ WriteResult(h, r, c.id) # "ok"
  <2>1. Answer(h, WriteResult(h, r, c.id)) /\ UNCHANGED board
    BY <1>2, <1>6 DEF UpdateRequest, board
  <2>2. WriteResult(h, r, c.id) \in Replies
    BY DEF WriteResult, Replies
  <2> QED
    BY <1>2, <2>1, <2>2, QuietAnswer
<1>7. CASE c.id \in Live /\ WriteResult(h, r, c.id) = "ok"
  <2>1. MayWrite(h, r, c.id) /\ row' = [row EXCEPT ![c.id] = r] /\ Goto(h, t)
    BY <1>7 DEF UpdateRequest
  <2>2. AltDiffers(r) /\ \A j \in (Live \cup Open) \ {c.id} : ~Clash(row[j], r)
    BY <1>7, <2>1, ProbeSound
  <2>3. c \in CallType /\ row[c.id] \in Row /\ row[c.id].name \in Titles
    BY <1>1, <1>7 DEF Task, IInv, TypeOK, Live
  <2>4. r \in Row /\ r.name \in Titles
    BY <2>3, EditedTyped
  <2> HIDE DEF t, r
  <2> QED
    BY <1>2, <1>3, <1>4, <1>7, <2>1, <2>2, <2>4, RowStep
<1> QED
  BY <1>5, <1>6, <1>7

-----------------------------------------------------------------------------
(* The statements of a batch.                                              *)
LEMMA PrefilterStep ==
  ASSUME IInv, NEW h \in Handlers, Prefilter(h)
  PROVE  IInv'
<1> DEFINE free == {k \in task[h].left : Key(task[h].call.names[k]) \notin Taken}
           t == [task[h] EXCEPT !.pc = "bulk", !.left = free]
<1>1. task[h] \in Task /\ MineFits(task[h]) /\ CallFits(task[h])
  BY DEF IInv, TypeOK
<1>2. task[h].pc = "prefilter" /\ task[h].mine = {} /\ UNCHANGED board
  BY <1>1 DEF Prefilter, MineFits
<1>3. CASE Answer(h, "ok")
  BY <1>2, <1>3, QuietAnswer DEF Replies
<1>4. CASE Goto(h, t)
  <2>1. /\ t \in Task /\ t.mine = {} /\ t.pc = "bulk"
        /\ t.call = task[h].call /\ t.left \subseteq task[h].left
    BY <1>1, <1>2 DEF Task, Pcs
  <2>2. MineFits(t) /\ CallFits(t)
    BY <1>1, <2>1 DEF MineFits, CallFits
  <2> HIDE DEF t
  <2> QED
    BY <1>2, <1>4, <2>1, <2>2, QuietStep
<1> QED
  BY <1>3, <1>4 DEF Prefilter

LEMMA BulkInsertStep ==
  ASSUME IInv, NEW h \in Handlers, BulkInsert(h)
  PROVE  IInv'
<1> DEFINE names == task[h].call.names
<1>1. task[h] \in Task /\ MineFits(task[h]) /\ CallFits(task[h])
  BY DEF IInv, TypeOK
<1>2. task[h].pc = "bulk" /\ task[h].mine \subseteq Open /\ UNCHANGED <<links, destPhase>>
  BY <1>1 DEF BulkInsert, MineFits
<1>3. PICK k \in NextPosition(h) :
        /\ ~NameHeld(h, BatchRow(names[k]))
        /\ \/ /\ NameTaken(h, BatchRow(names[k]), None)
              /\ Goto(h, [task[h] EXCEPT !.left = @ \ {k}])
              /\ UNCHANGED <<phase, row>>
           \/ /\ ~NameTaken(h, BatchRow(names[k]), None)
              /\ \E i \in ReqIds :
                   /\ phase[i] = "unborn"
                   /\ phase' = [phase EXCEPT ![i] = "open"]
                   /\ row' = [row EXCEPT ![i] = BatchRow(names[k])]
                   /\ Goto(h, [[task[h] EXCEPT !.left = @ \ {k}] EXCEPT !.mine = @ \cup {i}])
  BY DEF BulkInsert
<1> DEFINE r == BatchRow(names[k])
           done == [task[h] EXCEPT !.left = task[h].left \ {k}]
<1>4. names[k] \in Titles
  <2>1. k \in task[h].left
    BY <1>3 DEF NextPosition
  <2>2. k \in DOMAIN names /\ names[k] # Blank
    BY <1>1, <2>1 DEF CallFits, Trimmed
  <2>3. names \in Seq(Titles \cup {Blank})
    BY <1>1 DEF Task, CallType
  <2> QED
    BY <2>2, <2>3
<1>5. r = [name |-> names[k], alt |-> None, category |-> "batch_add",
           status |-> "new", url |-> None]
  BY DEF BatchRow, NoRow
<1>6. r \in Row /\ r.name \in Titles /\ r.alt = None /\ AltDiffers(r)
  BY <1>4, <1>5 DEF Row, Categories, Statuses, AltDiffers
<1>7. /\ done \in Task /\ done.mine = task[h].mine /\ done.pc = "bulk"
      /\ done.call = task[h].call /\ done.left \subseteq task[h].left
  BY <1>1, <1>2 DEF Task
<1>8. MineFits(done) /\ CallFits(done)
  BY <1>1, <1>2, <1>7 DEF MineFits, CallFits
<1>9. CASE Goto(h, done) /\ UNCHANGED <<phase, row>>
  <2> HIDE DEF done
  <2>1. UNCHANGED board
    BY <1>2, <1>9 DEF board
  <2> QED
    BY <1>7, <1>8, <1>9, <2>1, QuietStep
<1>10. ASSUME ~NameTaken(h, r, None), NEW i \in ReqIds, phase[i] = "unborn",
              phase' = [phase EXCEPT ![i] = "open"],
              row' = [row EXCEPT ![i] = r],
              Goto(h, [done EXCEPT !.mine = @ \cup {i}])
       PROVE  IInv'
  <2> DEFINE t == [done EXCEPT !.mine = done.mine \cup {i}]
  <2>1. Goto(h, t)
    BY <1>10
  <2>2. None \notin Live \cup Open
    BY SpecialValues DEF Live, Open
  <2>3. \A j \in Live \cup Open : ~Clash(row[j], r)
    <3>1. ~NameHeld(h, r)
      BY <1>3
    <3>2. \A j \in Live \cup Open : ~SameName(row[j], r)
      BY <1>10, <2>2, <3>1 DEF NameTaken, NameHeld
    <3> QED
      BY <1>6, <3>2 DEF Clash, SameAlt
  <2> HIDE DEF done, r
  <2>4. /\ t \in Task /\ t.mine = task[h].mine \cup {i} /\ t.pc = "bulk"
        /\ t.call = done.call /\ t.left = done.left
    BY <1>7 DEF Task
  <2>5. CallFits(t)
    BY <1>8, <2>4, <1>7 DEF CallFits
  <2> HIDE DEF t
  <2> QED
    BY <1>2, <1>6, <1>10, <2>1, <2>3, <2>4, <2>5, InsertStep
<1> QED
  BY <1>3, <1>9, <1>10

-----------------------------------------------------------------------------
(* The statements on single links.                                         *)
LEMMA LinkWritesKeep ==
  ASSUME IInv, NEW h \in Handlers,
         \/ AttachSelected(h) \/ DetachUnselected(h)
         \/ AddDestination(h) \/ RemoveDestination(h)
  PROVE  IInv'
<1>1. task[h] \in Task /\ MineFits(task[h]) /\ CallFits(task[h])
  BY DEF IInv, TypeOK
<1>2. /\ task[h].pc \in {"attach", "detach", "addDest", "remove"}
      /\ UNCHANGED <<phase, row, destPhase>>
  BY DEF AttachSelected, DetachUnselected, AddDestination, RemoveDestination
<1>3. task[h].mine = {}
  BY <1>1, <1>2 DEF MineFits
<1> DEFINE Fine(L) == /\ L \subseteq ReqIds \X Dests
                      /\ \A l \in L : l[1] \in Live \cup Open /\ destPhase[l[2]] = "live"
<1>4. Fine(links)
  BY DEF IInv, TypeOK, LinksRefer
<1>5. ASSUME NEW a \in Replies, Answer(h, a), Fine(links') PROVE IInv'
  BY <1>2, <1>3, <1>5, IdleFits, LinkStep DEF Answer, Goto
<1>6. ASSUME NEW d, Goto(h, [task[h] EXCEPT !.todo = @ \ {d}]), Fine(links') PROVE IInv'
  <2> DEFINE t == [task[h] EXCEPT !.todo = task[h].todo \ {d}]
  <2>1. Goto(h, t)
    BY <1>6
  <2>2. /\ t \in Task /\ t.mine = {} /\ t.pc = task[h].pc
        /\ t.call = task[h].call /\ t.left = task[h].left
    BY <1>1, <1>3 DEF Task
  <2>3. MineFits(t) /\ CallFits(t)
    BY <1>1, <1>2, <2>2 DEF MineFits, CallFits
  <2> HIDE DEF t
  <2> QED
    BY <1>2, <1>3, <1>6, <2>1, <2>2, <2>3, LinkStep DEF Goto
<1>7. ASSUME NEW i, NEW D, \A d \in D : Linkable(i, d), links' = links \cup ({i} \X D)
      PROVE  Fine(links')
  BY <1>4, <1>7 DEF Linkable, Live
<1>8. CASE AttachSelected(h)
  <2> DEFINE i == task[h].call.id
  <2>1. PICK s \in task[h].todo :
          IF Linkable(i, Parse(s))
          THEN /\ links' = links \cup {<<i, Parse(s)>>}
               /\ Goto(h, [task[h] EXCEPT !.todo = @ \ {s}])
          ELSE UNCHANGED links /\ Answer(h, "error")
    BY <1>8 DEF AttachSelected
  <2>2. CASE Linkable(i, Parse(s))
    <3>1. Fine(links')
      BY <1>4, <2>1, <2>2 DEF Linkable, Live
    <3> QED
      BY <1>6, <2>1, <2>2, <3>1
  <2>3. CASE ~Linkable(i, Parse(s))
    BY <1>4, <1>5, <2>1, <2>3 DEF Replies
  <2> QED
    BY <2>2, <2>3
<1>9. CASE DetachUnselected(h)
  <2>1. Fine(links')
    BY <1>4, <1>9 DEF DetachUnselected
  <2> HIDE DEF Fine
  <2> QED
    BY <1>5, <1>6, <1>9, <2>1 DEF DetachUnselected, Replies
<1>10. CASE AddDestination(h)
  <2>1. CASE links' = links /\ Answer(h, "error")
    BY <1>4, <1>5, <2>1 DEF Replies
  <2>2. CASE /\ \A d \in Ids(task[h].call.dests) : Linkable(task[h].call.id, d)
             /\ links' = links \cup ({task[h].call.id} \X Ids(task[h].call.dests))
             /\ Answer(h, "ok")
    BY <1>5, <1>7, <2>2 DEF Replies
  <2> QED
    BY <1>10, <2>1, <2>2 DEF AddDestination
<1>11. CASE RemoveDestination(h)
  <2>1. Fine(links') /\ Answer(h, "ok")
    BY <1>4, <1>11 DEF RemoveDestination
  <2> QED
    BY <1>5, <2>1 DEF Replies
<1> QED
  BY <1>8, <1>9, <1>10, <1>11

(* Creating and deleting server destinations.                              *)
LEMMA ServerDestsKeep ==
  ASSUME IInv, NEW h \in Handlers, CreateServerDest(h) \/ DeleteServerDest(h)
  PROVE  IInv'
<1>1. destPhase \in [Dests -> {"unborn", "live", "gone"}] /\ links \subseteq ReqIds \X Dests
  BY DEF IInv, TypeOK
<1>2. \A l \in links : destPhase[l[2]] = "live"
  BY DEF IInv, LinksRefer
<1>3. CASE CreateServerDest(h)
  <2>1. task[h].pc = "createDest" /\ UNCHANGED <<phase, row, links>>
    BY <1>3 DEF CreateServerDest
  <2>2. PICK d \in task[h].call.dests :
          \/ /\ destPhase[d] = "unborn"
             /\ destPhase' = [destPhase EXCEPT ![d] = "live"] /\ Answer(h, "ok")
          \/ UNCHANGED destPhase /\ Answer(h, "conflict")
    BY <1>3 DEF CreateServerDest
  <2>3. destPhase' \in [Dests -> {"unborn", "live", "gone"}]
    BY <1>1, <2>2
  <2>4. \A l \in links' : destPhase'[l[2]] = "live"
    BY <1>1, <1>2, <2>1, <2>2
  <2>5. PICK a \in Replies : Answer(h, a)
    BY <2>2 DEF Replies
  <2> QED
    BY <2>1, <2>3, <2>4, <2>5, DestStep
<1>4. CASE DeleteServerDest(h)
  <2>1. task[h].pc = "deleteDest" /\ UNCHANGED <<phase, row>>
    BY <1>4 DEF DeleteServerDest
  <2>2. PICK d \in task[h].call.dests :
          /\ destPhase' = [destPhase EXCEPT ![d] = IF @ = "live" THEN "gone" ELSE @]
          /\ links' = {l \in links : l[2] # d \/ destPhase[d] # "live"}
          /\ Answer(h, "ok")
    BY <1>4 DEF DeleteServerDest
  <2>3. destPhase' \in [Dests -> {"unborn", "live", "gone"}]
    BY <1>1, <2>2
  <2>4. links' \subseteq links /\ \A l \in links' : destPhase'[l[2]] = "live"
    BY <1>1, <1>2, <2>2
  <2> QED
    BY <2>1, <2>2, <2>3, <2>4, DestStep DEF Replies
<1> QED
  BY <1>3, <1>4

-----------------------------------------------------------------------------
(* Every step of every handler preserves the invariant.                    *)
LEMMA NextIInv == IInv /\ [Next]_vars => IInv'
<1> SUFFICES ASSUME IInv, [Next]_vars PROVE IInv'
  OBVIOUS
<1>1. CASE UNCHANGED vars
  BY <1>1 DEF vars, IInv, TypeOK, UniqueKeys, OpenRowsOwned, LinksRefer, Live, Open,
              MineFits, CallFits, Clash, SameName, SameAlt, AltDiffers, Key
<1>2. ASSUME NEW h \in Handlers, NEW c \in Calls, Submit(h, c) PROVE IInv'
  BY <1>2, SubmitKeeps
<1>3. ASSUME NEW h \in Handlers, PlainStep(h) PROVE IInv'
  BY <1>3, ReadsKeep, LinkDestinationStep, CommitStep, LinkWritesKeep,
     DeleteRequestStep, ServerDestsKeep, PrefilterStep DEF PlainStep
<1>4. ASSUME NEW h \in Handlers, WaitingStep(h) PROVE IInv'
  BY <1>4, InsertRequestStep, UpdateRequestStep, BulkInsertStep, ServerDestsKeep
  DEF WaitingStep
<1>5. ASSUME NEW h \in Handlers, DeadlockAbort(h) \/ Fail(h) PROVE IInv'
  BY <1>5, RollbackStep DEF DeadlockAbort, Fail, Replies
<1> QED
  BY <1>1, <1>2, <1>3, <1>4, <1>5 DEF Next

THEOREM Inductive == Spec => []IInv
BY InitIInv, NextIInv, PTL DEF Spec

(* Every reachable state is typed, and rows carry a name exactly while     *)
(* they exist (repository/requests.go, migrations 004 to 008).             *)
THEOREM TypeCorrect == Spec => []TypeOK
<1>1. IInv => TypeOK
  BY DEF IInv
<1> QED
  BY <1>1, Inductive, PTL

(* No two requests, committed or not, share a folded name or a folded      *)
(* alternate name, however inserts, renames, batches and rollbacks of any  *)
(* number of handlers interleave (migrations 007 and 008).                 *)
THEOREM KeysAreUnique == Spec => []UniqueKeys
<1>1. IInv => UniqueKeys
  BY DEF IInv
<1> QED
  BY <1>1, Inductive, PTL

(* An uncommitted row always has a transaction that will end it.           *)
THEOREM NoOrphanedRow == Spec => []OpenRowsOwned
<1>1. IInv => OpenRowsOwned
  BY DEF IInv
<1> QED
  BY <1>1, Inductive, PTL

(* Links join requests and destinations that exist, whatever is deleted    *)
(* under the handlers that write them (migration 006).                     *)
THEOREM LinksAlwaysRefer == Spec => []LinksRefer
<1>1. IInv => LinksRefer
  BY DEF IInv
<1> QED
  BY <1>1, Inductive, PTL
-----------------------------------------------------------------------------
(* What a step of a handler does, apart from where its call goes: it leaves*)
(* the board alone, or it is one of ten kinds of write.                    *)
HandlerStep(h) ==
  \/ \E c \in Calls : Submit(h, c)
  \/ PlainStep(h) \/ WaitingStep(h) \/ DeadlockAbort(h) \/ Fail(h)

Refusals == {"invalid", "conflict", "forbidden"}

Reads(h) == UNCHANGED board /\ (task'[h].reply \in Refusals => task[h].mine = {})
Inserts(h) ==
  \E i \in ReqIds, r \in Row :
    /\ phase[i] = "unborn" /\ r.name \in Titles
    /\ phase' = [phase EXCEPT ![i] = "open"]
    /\ row' = [row EXCEPT ![i] = r]
    /\ UNCHANGED <<links, destPhase>>
Commits(h) ==
  /\ task[h].pc \in {"link", "bulk"} /\ task'[h].pc \notin {"link", "bulk"}
  /\ Publish(h)
Undoes(h) == Rollback(h) /\ (task'[h].reply \in Refusals => task[h].mine \subseteq Open)
Revises(h) ==
  LET c == task[h].call IN
  /\ task[h].pc = "write" /\ task'[h].pc # "write" /\ c.id \in Live
  /\ row' = [row EXCEPT ![c.id] = Edited(row[c.id], c)]
  /\ UNCHANGED <<phase, links, destPhase>>
Withdraws(h) ==
  /\ task[h].pc = "delete"
  /\ \E i \in Live :
       /\ phase' = [phase EXCEPT ![i] = "gone"]
       /\ row' = [row EXCEPT ![i] = NoRow]
       /\ links' = {l \in links : l[1] # i}
       /\ UNCHANGED destPhase
LinksOwn(h) ==
  /\ task[h].pc = "link"
  /\ \E d \in Dests : destPhase[d] = "live" /\ links' = links \cup (task[h].mine \X {d})
  /\ UNCHANGED <<phase, row, destPhase>>
Links(h) ==
  /\ \E d \in Dests : Linkable(task[h].call.id, d) /\ links' = links \cup {<<task[h].call.id, d>>}
  /\ UNCHANGED <<phase, row, destPhase>>
Unlinks(h) ==
  /\ \E d :
       /\ \/ task[h].pc = "remove" /\ Ids(task[h].call.dests) = {d}
          \/ task[h].pc = "detach" /\ d \in task[h].todo
       /\ links' = links \ {<<task[h].call.id, d>>}
  /\ UNCHANGED <<phase, row, destPhase>>
Opens(h) ==
  /\ \E d \in Dests : destPhase[d] = "unborn" /\ destPhase' = [destPhase EXCEPT ![d] = "live"]
  /\ UNCHANGED <<phase, row, links>>
Closes(h) ==
  /\ \E d \in Dests :
       /\ destPhase[d] = "live" /\ destPhase' = [destPhase EXCEPT ![d] = "gone"]
       /\ links' = {l \in links : l[2] # d}
  /\ UNCHANGED <<phase, row>>

Writes(h) ==
  \/ Inserts(h) \/ Commits(h) \/ Revises(h) \/ Withdraws(h) \/ LinksOwn(h)
  \/ Links(h) \/ Unlinks(h) \/ Opens(h) \/ Closes(h)
Effect(h) ==
  \/ Reads(h)
  \/ Undoes(h)
  \/ Writes(h) /\ task'[h].reply \notin Refusals

(* A handler that steps leaves the calls of all others where they are.     *)
LEMMA StepsAlone ==
  ASSUME NEW h \in Handlers, HandlerStep(h)
  PROVE  \E t : task' = [task EXCEPT ![h] = t]
<1>1. CASE \E c \in Calls : Submit(h, c)
  BY <1>1 DEF Submit, SubmitCreate, SubmitNewForm, SubmitUpdate, SubmitEdit,
         SubmitDelete, SubmitAddDest, SubmitRemoveDest, SubmitCreateDest,
         SubmitDeleteDest, SubmitBatch, SubmitBatchForm, Answer, Goto
<1>2. CASE PlainStep(h)
  BY <1>2 DEF PlainStep, CheckNames, LinkDestination, CommitCreate, Reread, LoadRequest,
         LoadForEdit, LoadForRemove, AttachSelected, TurnToDetach, DetachUnselected,
         DeleteRequest, AddDestination, RemoveDestination, CreateServerDest, Prefilter,
         CommitBatch, Answer, Goto
<1>3. CASE WaitingStep(h)
  <2>1. CASE InsertRequest(h)
    <3>1. \/ Answer(h, WriteResult(h, NewRow(task[h].call), None))
          \/ \E i \in ReqIds :
               Goto(h, [task[h] EXCEPT !.pc = "link", !.mine = {i},
                 !.todo = IF IsMod(task[h].call) THEN Ids(task[h].call.dests) ELSE {}])
      BY <2>1, Zenon DEF InsertRequest
    <3> QED
      BY <3>1, Zenon DEF Answer, Goto
  <2>2. CASE UpdateRequest(h)
    BY <2>2 DEF UpdateRequest, Answer, Goto
  <2>3. CASE BulkInsert(h)
    <3>1. \E t : Goto(h, t)
      BY <2>3, Zenon DEF BulkInsert
    <3> QED
      BY <3>1, Zenon DEF Goto
  <2>4. CASE DeleteServerDest(h)
    BY <2>4 DEF DeleteServerDest, Answer, Goto
  <2> QED
    BY <1>3, <2>1, <2>2, <2>3, <2>4 DEF WaitingStep
<1>4. CASE DeadlockAbort(h) \/ Fail(h)
  BY <1>4 DEF DeadlockAbort, Fail, Answer, Goto
<1> QED
  BY <1>1, <1>2, <1>3, <1>4 DEF HandlerStep

LEMMA NextIsHandlerStep == Next <=> \E h \in Handlers : HandlerStep(h)
BY DEF Next, HandlerStep

(* The handler whose call changes is the one that steps.                   *)
LEMMA StepOf ==
  ASSUME TypeOK, [Next]_vars, NEW h \in Handlers, task'[h] # task[h]
  PROVE  HandlerStep(h)
<1>1. PICK g \in Handlers : HandlerStep(g)
  BY NextIsHandlerStep DEF vars
<1>2. PICK t : task' = [task EXCEPT ![g] = t]
  BY <1>1, StepsAlone
<1>3. g = h
  BY <1>2 DEF TypeOK
<1> QED
  BY <1>1, <1>3

(* Where an answer and a jump leave the handler.                           *)
LEMMA Jumps ==
  ASSUME TypeOK, NEW h \in Handlers, NEW t, Goto(h, t)
  PROVE  task'[h] = t /\ \A g \in Handlers \ {h} : task'[g] = task[g]
BY DEF TypeOK, Goto

LEMMA Answers ==
  ASSUME TypeOK, NEW h \in Handlers, NEW a, Answer(h, a)
  PROVE  /\ task'[h] = Idle(a)
         /\ task'[h].reply = a /\ task'[h].pc = "idle" /\ task'[h].mine = {}
BY Jumps DEF Answer, Idle

(* Receiving a call, by where it goes: to an answer or to its first step.  *)
FirstStep(c, pc) ==
  /\ pc = "check" => c.op \in CreateOps \cup {"update"}
  /\ pc = "write" => c.op = "update" /\ Candidates(c) = {}
  /\ pc = "load" => c.op \in {"edit", "removeDest"}
  /\ pc \in {"delete", "addDest", "createDest", "deleteDest"} => c.op = pc
  /\ pc = "prefilter" => c.op \in BatchOps
LEMMA SubmitGoes ==
  ASSUME NEW h \in Handlers, NEW c \in Calls, Submit(h, c)
  PROVE  /\ task[h].pc = "idle" /\ UNCHANGED board
         /\ \/ \E a \in Replies : Answer(h, a)
            \/ \E pc \in {"check", "write", "load", "delete", "addDest", "createDest",
                          "deleteDest", "prefilter"} : \E left :
                 /\ Goto(h, BeginBatch(c, pc, left)) /\ FirstStep(c, pc)
                 /\ pc = "prefilter" => left = Trimmed(c.names)
<1> USE DEF Receive, Replies, Begin, FirstStep
<1>1. CASE SubmitCreate(h, c) \/ SubmitNewForm(h, c)
  BY <1>1, Zenon DEF SubmitCreate, SubmitNewForm, CreateOps
<1>2. CASE SubmitUpdate(h, c)
  <2>1. CASE Candidates(c) = {}
    BY <1>2, <2>1, Zenon DEF SubmitUpdate
  <2>2. CASE Candidates(c) # {}
    BY <1>2, <2>2, Zenon DEF SubmitUpdate
  <2> QED
    BY <2>1, <2>2
<1>3. CASE SubmitEdit(h, c) \/ SubmitDelete(h, c)
  BY <1>3, Zenon DEF SubmitEdit, SubmitDelete
<1>4. CASE SubmitAddDest(h, c) \/ SubmitRemoveDest(h, c)
  BY <1>4, Zenon DEF SubmitAddDest, SubmitRemoveDest
<1>5. CASE SubmitCreateDest(h, c) \/ SubmitDeleteDest(h, c)
  BY <1>5, Zenon DEF SubmitCreateDest, SubmitDeleteDest
<1>6. CASE SubmitBatch(h, c) \/ SubmitBatchForm(h, c)
  BY <1>6, Zenon DEF SubmitBatch, SubmitBatchForm, BatchOps
<1> QED
  BY <1>1, <1>2, <1>3, <1>4, <1>5, <1>6, Zenon DEF Submit

(* Each step has one of the effects.                                       *)
LEMMA EffectOf ==
  ASSUME CallsInv, NEW h \in Handlers, HandlerStep(h)
  PROVE  Effect(h)
<1> DEFINE c == task[h].call
<1>1. /\ IInv /\ TypeOK /\ task[h] \in Task
      /\ MineFits(task[h]) /\ CallFits(task[h]) /\ OpFits(task[h])
  BY DEF CallsInv, IInv, TypeOK
<1>2. ASSUME NEW a \in Replies, Answer(h, a) PROVE task'[h].reply = a
  BY <1>1, <1>2, Answers
<1>3. ASSUME NEW t, Goto(h, t), t.reply = task[h].reply, task[h].pc # "idle"
      PROVE  task'[h].reply \notin Refusals
  <2>1. task'[h] = t
    BY <1>1, <1>3, Jumps
  <2> QED
    BY <1>1, <1>3, <2>1 DEF OpFits, Refusals
<1>4. CASE \E d \in Calls : Submit(h, d)
  <2>1. UNCHANGED board /\ task[h].pc = "idle"
    BY <1>4, SubmitGoes
  <2> QED
    BY <1>1, <2>1 DEF MineFits, Effect, Reads
<1>5. CASE \/ CheckNames(h) \/ LoadRequest(h) \/ LoadForEdit(h) \/ LoadForRemove(h)
           \/ TurnToDetach(h) \/ Prefilter(h)
  <2>1. UNCHANGED board /\ task[h].pc \notin {"link", "bulk", "reread"}
    BY <1>5 DEF CheckNames, LoadRequest, LoadForEdit, LoadForRemove, TurnToDetach, Prefilter
  <2> QED
    BY <1>1, <2>1 DEF MineFits, Effect, Reads
<1>6. CASE Reread(h)
  <2>1. UNCHANGED board /\ (Answer(h, "ok") \/ Answer(h, "notFound"))
    BY <1>6 DEF Reread
  <2> QED
    BY <1>2, <2>1 DEF Effect, Reads, Replies, Refusals
<1>7. CASE LinkDestination(h)
  <2>1. PICK d \in task[h].todo :
          IF d \in Dests /\ destPhase[d] = "live"
          THEN /\ links' = links \cup (task[h].mine \X {d})
               /\ Goto(h, [task[h] EXCEPT !.todo = @ \ {d}])
               /\ UNCHANGED <<phase, row, destPhase>>
          ELSE Rollback(h) /\ Answer(h, "invalid")
    BY <1>7 DEF LinkDestination
  <2>2. task[h].pc = "link"
    BY <1>7 DEF LinkDestination
  <2>3. CASE d \in Dests /\ destPhase[d] = "live"
    <3>1. Goto(h, [task[h] EXCEPT !.todo = task[h].todo \ {d}])
      BY <2>1, <2>3
    <3>2. [task[h] EXCEPT !.todo = task[h].todo \ {d}].reply = task[h].reply
      BY <1>1 DEF Task
    <3>3. task'[h].reply \notin Refusals
      BY <1>3, <2>2, <3>1, <3>2
    <3> QED
      BY <2>1, <2>2, <2>3, <3>3 DEF Effect, Writes, LinksOwn
  <2>4. CASE ~(d \in Dests /\ destPhase[d] = "live")
    BY <1>1, <2>1, <2>2, <2>4 DEF Effect, Undoes, MineFits
  <2> QED
    BY <2>3, <2>4
<1>8. CASE CommitCreate(h)
  <2>1. task[h].pc = "link" /\ Publish(h) /\ Goto(h, [task[h] EXCEPT !.pc = "reread"])
    BY <1>8 DEF CommitCreate
  <2>2. /\ [task[h] EXCEPT !.pc = "reread"].reply = task[h].reply
        /\ [task[h] EXCEPT !.pc = "reread"].pc = "reread"
    BY <1>1 DEF Task
  <2>3. task'[h].pc = "reread"
    BY <1>1, <2>1, <2>2, Jumps
  <2> QED
    BY <1>3, <2>1, <2>2, <2>3 DEF Effect, Writes, Commits
<1>9. CASE CommitBatch(h)
  <2>1. task[h].pc = "bulk" /\ Publish(h) /\ (Answer(h, "ok") \/ Answer(h, "error"))
    BY <1>9 DEF CommitBatch
  <2>2. task'[h].pc = "idle"
    BY <1>1, <2>1, Answers
  <2> QED
    BY <1>2, <2>1, <2>2 DEF Effect, Writes, Commits, Replies, Refusals
<1>10. CASE AttachSelected(h)
  <2>1. PICK s \in task[h].todo :
          IF Linkable(c.id, Parse(s))
          THEN /\ links' = links \cup {<<c.id, Parse(s)>>}
               /\ Goto(h, [task[h] EXCEPT !.todo = @ \ {s}])
          ELSE UNCHANGED links /\ Answer(h, "error")
    BY <1>10 DEF AttachSelected
  <2>2. task[h].pc = "attach" /\ UNCHANGED <<phase, row, destPhase>>
    BY <1>10 DEF AttachSelected
  <2>3. CASE Linkable(c.id, Parse(s))
    <3> DEFINE d == Parse(s)
    <3>1. Goto(h, [task[h] EXCEPT !.todo = task[h].todo \ {s}])
      BY <2>1, <2>3
    <3>2. [task[h] EXCEPT !.todo = task[h].todo \ {s}].reply = task[h].reply
      BY <1>1 DEF Task
    <3>3. task'[h].reply \notin Refusals
      BY <1>3, <2>2, <3>1, <3>2
    <3>4. d \in Dests /\ Linkable(c.id, d) /\ links' = links \cup {<<c.id, d>>}
      BY <2>1, <2>3 DEF Linkable
    <3> HIDE DEF d
    <3> QED
      BY <2>2, <3>3, <3>4 DEF Effect, Writes, Links
  <2>4. CASE ~Linkable(c.id, Parse(s))
    <3>1. UNCHANGED board /\ task[h].mine = {}
      BY <1>1, <2>1, <2>2, <2>4 DEF MineFits, board
    <3> QED
      BY <3>1 DEF Effect, Reads
  <2> QED
    BY <2>3, <2>4
<1>11. CASE DetachUnselected(h)
  <2>1. task[h].pc = "detach" /\ UNCHANGED <<phase, row, destPhase>>
    BY <1>11 DEF DetachUnselected
  <2>2. CASE UNCHANGED links /\ Answer(h, "ok")
    BY <1>1, <2>1, <2>2 DEF Effect, Reads, board, MineFits
  <2>3. CASE \E d \in task[h].todo :
               /\ links' = links \ {<<c.id, d>>}
               /\ Goto(h, [task[h] EXCEPT !.todo = @ \ {d}])
    <3>1. PICK d : /\ links' = links \ {<<c.id, d>>} /\ d \in task[h].todo
                   /\ Goto(h, [task[h] EXCEPT !.todo = task[h].todo \ {d}])
      BY <2>3
    <3>2. [task[h] EXCEPT !.todo = task[h].todo \ {d}].reply = task[h].reply
      BY <1>1 DEF Task
    <3>3. task'[h].reply \notin Refusals
      BY <1>3, <2>1, <3>1, <3>2
    <3> QED
      BY <2>1, <3>1, <3>3 DEF Effect, Writes, Unlinks
  <2> QED
    BY <1>11, <2>2, <2>3 DEF DetachUnselected
<1>12. CASE DeleteRequest(h)
  <2>1. task[h].pc = "delete" /\ task[h].mine = {} /\ UNCHANGED destPhase
    BY <1>1, <1>12 DEF DeleteRequest, MineFits
  <2>2. CASE c.id \in Live
    <3>1. /\ phase' = [phase EXCEPT ![c.id] = "gone"]
          /\ row' = [row EXCEPT ![c.id] = NoRow]
          /\ links' = {l \in links : l[1] # c.id}
          /\ Answer(h, "ok")
      BY <1>12, <2>2 DEF DeleteRequest
    <3> QED
      BY <1>2, <2>1, <2>2, <3>1 DEF Effect, Writes, Withdraws, Replies, Refusals
  <2>3. CASE c.id \notin Live
    BY <1>12, <2>1, <2>3 DEF DeleteRequest, Effect, Reads, board
  <2> QED
    BY <2>2, <2>3
<1>13. CASE AddDestination(h)
  <2>1. task[h].mine = {} /\ UNCHANGED <<phase, row, destPhase>> /\ c.op = "addDest" /\ c \in Calls
    BY <1>1, <1>13 DEF AddDestination, MineFits, OpFits
  <2>2. CASE \A d \in Ids(c.dests) : Linkable(c.id, d)
    <3>1. PICK s \in IdStrings : c.dests = {s}
      BY <2>1, CallAssumption
    <3>2. links' = links \cup ({c.id} \X Ids({s})) /\ Answer(h, "ok")
      BY <1>13, <2>2, <3>1 DEF AddDestination
    <3>3. CASE s = Malformed
      <4>1. UNCHANGED links
        BY <3>2, <3>3, OneId
      <4> QED
        BY <2>1, <4>1 DEF Effect, Reads, board
    <3>4. CASE s # Malformed
      <4> DEFINE d == Parse(s)
      <4>1. Ids({s}) = {d} /\ d \in Dests
        BY <3>4, OneId
      <4> HIDE DEF d
      <4>2. links' = links \cup {<<c.id, d>>} /\ Linkable(c.id, d)
        BY <2>2, <3>1, <3>2, <4>1
      <4> QED
        BY <1>2, <2>1, <3>2, <4>1, <4>2 DEF Effect, Writes, Links, Replies, Refusals
    <3> QED
      BY <3>3, <3>4
  <2>3. CASE ~\A d \in Ids(c.dests) : Linkable(c.id, d)
    BY <1>13, <2>1, <2>3 DEF AddDestination, Effect, Reads, board
  <2> QED
    BY <2>2, <2>3
<1>14. CASE RemoveDestination(h)
  <2>1. /\ UNCHANGED <<phase, row, destPhase>> /\ c.op = "removeDest" /\ c \in Calls
        /\ task[h].pc = "remove" /\ task[h].mine = {}
    BY <1>1, <1>14 DEF RemoveDestination, OpFits, MineFits
  <2>2. PICK s \in IdStrings : c.dests = {s}
    BY <2>1, CallAssumption
  <2>3. links' = links \ ({c.id} \X Ids({s})) /\ Answer(h, "ok")
    BY <1>14, <2>2 DEF RemoveDestination
  <2>4. CASE s = Malformed
    <3>1. UNCHANGED links
      BY <2>3, <2>4, OneId
    <3> QED
      BY <2>1, <3>1 DEF Effect, Reads, board
  <2>5. CASE s # Malformed
    <3> DEFINE d == Parse(s)
    <3>1. Ids(c.dests) = {d}
      BY <2>2, <2>5, OneId
    <3> HIDE DEF d
    <3>2. links' = links \ {<<c.id, d>>}
      BY <2>2, <2>3, <3>1
    <3> QED
      BY <1>2, <2>1, <2>3, <3>1, <3>2 DEF Effect, Writes, Unlinks, Replies, Refusals
  <2> QED
    BY <2>4, <2>5
<1>15. CASE CreateServerDest(h)
  <2>1. /\ task[h].mine = {} /\ UNCHANGED <<phase, row, links>>
        /\ c \in Calls /\ c.op = "createDest"
    BY <1>1, <1>15 DEF CreateServerDest, MineFits, OpFits
  <2>2. PICK d \in c.dests :
          \/ /\ destPhase[d] = "unborn" /\ Answer(h, "ok")
             /\ destPhase' = [destPhase EXCEPT ![d] = "live"]
          \/ UNCHANGED destPhase /\ Answer(h, "conflict")
    BY <1>15 DEF CreateServerDest
  <2>3. d \in Dests
    BY <2>1, CallAssumption
  <2>4. CASE UNCHANGED destPhase
    BY <2>1, <2>4 DEF Effect, Reads, board
  <2> QED
    BY <1>2, <2>1, <2>2, <2>3, <2>4 DEF Effect, Writes, Opens, Replies, Refusals
<1>16. CASE InsertRequest(h)
  <2> DEFINE r == NewRow(c)
  <2>0. task[h].pc = "insert"
    BY <1>16, Zenon DEF InsertRequest
  <2>1. task[h].pc = "insert" /\ task[h].mine = {}
    BY <1>1, <2>0 DEF MineFits
  <2>2. r \in Row /\ r.name \in Titles
    BY <1>1, <2>1, NewRowTyped DEF CallFits, Task
  <2>3. CASE WriteResult(h, r, None) # "ok"
    <3>1. UNCHANGED board
      BY <1>16, <2>3 DEF InsertRequest
    <3> QED
      BY <2>1, <3>1 DEF Effect, Reads
  <2>4. CASE WriteResult(h, r, None) = "ok"
    <3>1. PICK i \in ReqIds :
            /\ phase[i] = "unborn"
            /\ phase' = [phase EXCEPT ![i] = "open"]
            /\ row' = [row EXCEPT ![i] = r]
            /\ UNCHANGED <<links, destPhase>>
            /\ Goto(h, [task[h] EXCEPT !.pc = "link", !.mine = {i},
                          !.todo = IF IsMod(c) THEN Ids(c.dests) ELSE {}])
      BY <1>16, <2>4, Zenon DEF InsertRequest
    <3>2. [task[h] EXCEPT !.pc = "link", !.mine = {i},
             !.todo = IF IsMod(c) THEN Ids(c.dests) ELSE {}].reply = task[h].reply
      BY <1>1 DEF Task
    <3>3. task'[h].reply \notin Refusals
      BY <1>3, <2>1, <3>1, <3>2
    <3> HIDE DEF r
    <3> QED
      BY <2>2, <3>1, <3>3 DEF Effect, Writes, Inserts
  <2> QED
    BY <2>3, <2>4
<1>17. CASE UpdateRequest(h)
  <2> DEFINE r == Edited(row[c.id], c)
             t == [task[h] EXCEPT !.pc = IF c.op = "edit" THEN "attach" ELSE "reread",
                                  !.todo = IF c.op = "edit"
                                           THEN (c.dests \ {Malformed}) \ task[h].seen
                                           ELSE {}]
  <2>1. task[h].pc = "write" /\ task[h].mine = {} /\ UNCHANGED <<phase, links, destPhase>>
    BY <1>1, <1>17 DEF UpdateRequest, MineFits
  <2>2. CASE UNCHANGED row
    BY <2>1, <2>2 DEF Effect, Reads, board
  <2>3. CASE ~UNCHANGED row
    <3>1. row' = [row EXCEPT ![c.id] = r] /\ Goto(h, t) /\ c.id \in Live
      BY <1>17, <2>3 DEF UpdateRequest
    <3>2. t.reply = task[h].reply /\ t.pc \in {"attach", "reread"}
      BY <1>1 DEF Task
    <3>3. task'[h].reply \notin Refusals
      BY <1>3, <2>1, <3>1, <3>2
    <3>4. task'[h].pc # "write"
      BY <1>1, <3>1, <3>2, Jumps
    <3> QED
      BY <2>1, <3>1, <3>3, <3>4 DEF Effect, Writes, Revises
  <2> QED
    BY <2>2, <2>3
<1>18. CASE BulkInsert(h)
  <2> DEFINE names == c.names
  <2>1. task[h].pc = "bulk" /\ UNCHANGED <<links, destPhase>>
    BY <1>18, Zenon DEF BulkInsert
  <2>2. PICK k \in NextPosition(h) :
          /\ ~NameHeld(h, BatchRow(names[k]))
          /\ \/ /\ NameTaken(h, BatchRow(names[k]), None)
                /\ Goto(h, [task[h] EXCEPT !.left = @ \ {k}])
                /\ UNCHANGED <<phase, row>>
             \/ /\ ~NameTaken(h, BatchRow(names[k]), None)
                /\ \E i \in ReqIds :
                     /\ phase[i] = "unborn"
                     /\ phase' = [phase EXCEPT ![i] = "open"]
                     /\ row' = [row EXCEPT ![i] = BatchRow(names[k])]
                     /\ Goto(h, [[task[h] EXCEPT !.left = @ \ {k}] EXCEPT !.mine = @ \cup {i}])
    BY <1>18, Zenon DEF BulkInsert
  <2>3. BatchRow(names[k]) \in Row /\ BatchRow(names[k]).name \in Titles
    <3>1. k \in DOMAIN names /\ names[k] # Blank /\ names \in Seq(Titles \cup {Blank})
      BY <1>1 DEF NextPosition, CallFits, Trimmed, Task, CallType
    <3>2. names[k] \in Titles
      BY <3>1
    <3> QED
      BY <3>2 DEF BatchRow, NoRow, Row, Categories, Statuses
  <2> DEFINE done == [task[h] EXCEPT !.left = task[h].left \ {k}]
  <2>4. done.reply = task[h].reply /\ done \in Task
    BY <1>1 DEF Task
  <2>5. CASE Goto(h, done) /\ UNCHANGED <<phase, row>>
    <3>1. task'[h].reply \notin Refusals
      BY <1>3, <2>1, <2>4, <2>5
    <3> QED
      BY <2>1, <2>5, <3>1 DEF Effect, Reads, board
  <2>6. ASSUME NEW i \in ReqIds, phase[i] = "unborn",
               phase' = [phase EXCEPT ![i] = "open"],
               row' = [row EXCEPT ![i] = BatchRow(names[k])],
               Goto(h, [done EXCEPT !.mine = @ \cup {i}])
        PROVE  Effect(h)
    <3> HIDE DEF done
    <3>1. [done EXCEPT !.mine = done.mine \cup {i}].reply = task[h].reply
      BY <2>4 DEF Task
    <3>2. task'[h].reply \notin Refusals
      BY <1>3, <2>1, <2>6, <3>1
    <3> QED
      BY <2>1, <2>3, <2>6, <3>2 DEF Effect, Writes, Inserts
  <2>7. \/ Goto(h, done) /\ UNCHANGED <<phase, row>>
        \/ \E i \in ReqIds :
             /\ phase[i] = "unborn"
             /\ phase' = [phase EXCEPT ![i] = "open"]
             /\ row' = [row EXCEPT ![i] = BatchRow(names[k])]
             /\ Goto(h, [done EXCEPT !.mine = @ \cup {i}])
    BY <2>2, Zenon
  <2> QED
    BY <2>5, <2>6, <2>7, Zenon
<1>19. CASE DeleteServerDest(h)
  <2>1. /\ UNCHANGED <<phase, row>> /\ c \in Calls /\ c.op = "deleteDest" /\ task[h].mine = {}
    BY <1>1, <1>19 DEF DeleteServerDest, OpFits, MineFits
  <2>2. PICK d \in c.dests :
          /\ destPhase' = [destPhase EXCEPT ![d] = IF @ = "live" THEN "gone" ELSE @]
          /\ links' = {l \in links : l[2] # d \/ destPhase[d] # "live"}
          /\ Answer(h, "ok")
    BY <1>19 DEF DeleteServerDest
  <2>3. d \in Dests
    BY <2>1, CallAssumption
  <2>4. CASE destPhase[d] = "live"
    <3>1. destPhase' = [destPhase EXCEPT ![d] = "gone"] /\ links' = {l \in links : l[2] # d}
      BY <2>2, <2>4
    <3> QED
      BY <1>2, <2>1, <2>2, <2>3, <2>4, <3>1 DEF Effect, Writes, Closes, Replies, Refusals
  <2>5. CASE destPhase[d] # "live"
    <3>1. destPhase' = destPhase /\ links' = links
      BY <1>1, <2>2, <2>3, <2>5 DEF TypeOK
    <3> QED
      BY <2>1, <3>1 DEF Effect, Reads, board
  <2> QED
    BY <2>4, <2>5
<1>20. CASE DeadlockAbort(h) \/ Fail(h)
  <2>1. Rollback(h) /\ Answer(h, "error")
    BY <1>20 DEF DeadlockAbort, Fail
  <2> QED
    BY <1>2, <2>1 DEF Effect, Undoes, Replies, Refusals
<1> QED
  BY <1>4, <1>5, <1>6, <1>7, <1>8, <1>9, <1>10, <1>11, <1>12, <1>13, <1>14, <1>15, <1>16,
     <1>17, <1>18, <1>19, <1>20 DEF HandlerStep, PlainStep, WaitingStep

-----------------------------------------------------------------------------
(* CallsInv: every step keeps what the handlers of other calls have        *)
(* established, and establishes what the next step of its own call needs.  *)

(* The rows of a transaction are written by its own handler only.          *)
LEMMA OthersRows ==
  ASSUME CallsInv, NEW h \in Handlers, HandlerStep(h),
         NEW g \in Handlers, g # h, NEW i \in task[g].mine, task[g].pc \in {"link", "bulk"}
  PROVE  row'[i] = row[i]
<1>1. /\ TypeOK /\ i \in Open /\ i \in ReqIds /\ i \notin Live /\ phase[i] # "unborn"
      /\ i \notin task[h].mine
  BY DEF CallsInv, IInv, MineFits, OpenRowsOwned, Open, Live
<1>2. Effect(h)
  BY EffectOf
<1>3. CASE UNCHANGED row
  BY <1>3
<1>4. CASE Undoes(h)
  BY <1>1, <1>4 DEF Undoes, Rollback
<1>5. CASE Inserts(h) \/ Revises(h) \/ Withdraws(h)
  BY <1>1, <1>5 DEF Inserts, Revises, Withdraws, TypeOK
<1>6. \/ UNCHANGED row \/ Undoes(h) \/ Inserts(h) \/ Revises(h) \/ Withdraws(h)
  BY <1>2 DEF Effect, Reads, Writes, Commits, LinksOwn, Links, Unlinks, Opens, Closes,
              Publish, board
<1> QED
  BY <1>3, <1>4, <1>5, <1>6

LEMMA Goes ==
  ASSUME TypeOK, NEW h \in Handlers, NEW t, Goto(h, t), OpFits(t), t.pc \notin {"link", "bulk"}
  PROVE  (OpFits(task[h]) /\ Inserted(task[h]))'
BY Jumps DEF OpFits, Inserted

LEMMA GoesIdle ==
  ASSUME TypeOK, NEW h \in Handlers, NEW a, Answer(h, a)
  PROVE  (OpFits(task[h]) /\ Inserted(task[h]))'
<1>1. OpFits(Idle(a)) /\ Idle(a).pc = "idle"
  BY DEF OpFits, Idle
<1> QED
  BY <1>1, Goes DEF Answer

LEMMA OwnCall ==
  ASSUME CallsInv, NEW h \in Handlers, HandlerStep(h)
  PROVE  (OpFits(task[h]) /\ Inserted(task[h]))'
<1> DEFINE c == task[h].call
           Kept == (OpFits(task[h]) /\ Inserted(task[h]))'
<1>1. /\ TypeOK /\ task[h] \in Task /\ MineFits(task[h])
      /\ OpFits(task[h]) /\ Inserted(task[h])
  BY DEF CallsInv, IInv, TypeOK
<1> HIDE DEF Kept
<1> SUFFICES Kept
  BY DEF Kept
<1>2. ASSUME NEW a, Answer(h, a) PROVE Kept
  BY <1>1, <1>2, GoesIdle DEF Kept
<1>3. ASSUME NEW t, Goto(h, t), OpFits(t), t.pc \notin {"link", "bulk"} PROVE Kept
  BY <1>1, <1>3, Goes DEF Kept
<1>4. CASE \E d \in Calls : Submit(h, d)
  <2>1. PICK d \in Calls : Submit(h, d)
    BY <1>4
  <2>2. CASE \E a \in Replies : Answer(h, a)
    BY <1>2, <2>2
  <2>3. ASSUME NEW pc \in {"check", "write", "load", "delete", "addDest", "createDest",
                           "deleteDest", "prefilter"},
               NEW left, Goto(h, BeginBatch(d, pc, left)), FirstStep(d, pc)
        PROVE  Kept
    <3>1. OpFits(BeginBatch(d, pc, left)) /\ BeginBatch(d, pc, left).pc = pc
      BY <2>3 DEF OpFits, BeginBatch, FirstStep
    <3> QED
      BY <1>3, <2>3, <3>1
  <2> QED
    BY <2>1, <2>2, <2>3, SubmitGoes
<1>5. CASE CheckNames(h)
  <2> DEFINE t == [task[h] EXCEPT !.pc = IF c.op \in CreateOps THEN "insert" ELSE "write"]
  <2>1. Goto(h, t) \/ Answer(h, "conflict") \/ Answer(h, "invalid")
    BY <1>5 DEF CheckNames
  <2>2. OpFits(t) /\ t.pc \notin {"link", "bulk"}
    BY <1>1, <1>5 DEF CheckNames, OpFits, Task
  <2> QED
    BY <1>2, <1>3, <2>1, <2>2
<1>6. CASE LoadRequest(h) \/ LoadForEdit(h) \/ LoadForRemove(h)
  <2> DEFINE t1 == [task[h] EXCEPT !.pc = "loadDests"]
             t2 == [task[h] EXCEPT !.pc = "check", !.seen = LinksOf(c.id)]
             t3 == [task[h] EXCEPT !.pc = "remove", !.seen = LinksOf(c.id)]
  <2>1. CASE LoadRequest(h)
    <3>1. OpFits(t1) /\ t1.pc \notin {"link", "bulk"}
      BY <1>1, <2>1 DEF LoadRequest, OpFits, Task
    <3> QED
      BY <1>2, <1>3, <2>1, <3>1 DEF LoadRequest
  <2>2. CASE LoadForEdit(h)
    <3>1. OpFits(t2) /\ t2.pc \notin {"link", "bulk"}
      BY <1>1, <2>2 DEF LoadForEdit, OpFits, Task
    <3>2. Goto(h, t2) \/ Answer(h, "invalid")
      BY <2>2 DEF LoadForEdit
    <3> QED
      BY <1>2, <1>3, <3>1, <3>2
  <2>3. CASE LoadForRemove(h)
    <3>1. OpFits(t3) /\ t3.pc \notin {"link", "bulk"}
      BY <1>1, <2>3 DEF LoadForRemove, OpFits, Task
    <3>2. Goto(h, t3) \/ Answer(h, "invalid") \/ Answer(h, "notFound")
      BY <2>3 DEF LoadForRemove
    <3> QED
      BY <1>2, <1>3, <3>1, <3>2
  <2> QED
    BY <1>6, <2>1, <2>2, <2>3
<1>7. CASE TurnToDetach(h) \/ Prefilter(h)
  <2> DEFINE t1 == [task[h] EXCEPT !.pc = "detach",
                      !.todo = IF c.dests = {} THEN {} ELSE task[h].seen \ c.dests]
             free == {k \in task[h].left : Key(c.names[k]) \notin Taken}
             t2 == [task[h] EXCEPT !.pc = "bulk", !.left = free]
  <2>1. CASE TurnToDetach(h)
    <3>1. OpFits(t1) /\ t1.pc \notin {"link", "bulk"}
      BY <1>1, <2>1 DEF TurnToDetach, OpFits, Task
    <3> QED
      BY <1>3, <2>1, <3>1 DEF TurnToDetach
  <2>2. CASE Prefilter(h)
    <3>1. task[h].pc = "prefilter" /\ (Answer(h, "ok") \/ Goto(h, t2))
      BY <2>2 DEF Prefilter
    <3>2. CASE Answer(h, "ok")
      BY <1>2, <3>2
    <3>3. CASE Goto(h, t2)
      <4>1. task[h].mine = {}
        BY <1>1, <3>1 DEF MineFits
      <4>2. OpFits(t2) /\ t2.pc = "bulk" /\ t2.mine = {}
        BY <1>1, <3>1, <4>1 DEF OpFits, Task
      <4>3. task'[h] = t2
        BY <1>1, <3>3, Jumps
      <4> QED
        BY <4>2, <4>3 DEF OpFits, Inserted, Kept
    <3> QED
      BY <3>1, <3>2, <3>3
  <2> QED
    BY <1>7, <2>1, <2>2
<1>8. CASE Reread(h) \/ DeadlockAbort(h) \/ Fail(h)
  BY <1>2, <1>8 DEF Reread, DeadlockAbort, Fail
<1>9. CASE LinkDestination(h)
  <2>1. PICK d : \/ /\ Goto(h, [task[h] EXCEPT !.todo = task[h].todo \ {d}])
                    /\ UNCHANGED <<phase, row, destPhase>>
                 \/ Answer(h, "invalid")
    BY <1>9 DEF LinkDestination
  <2>2. CASE /\ Goto(h, [task[h] EXCEPT !.todo = task[h].todo \ {d}])
             /\ UNCHANGED <<phase, row, destPhase>>
    <3>1. /\ task'[h].pc = "link" /\ task'[h].mine = task[h].mine
          /\ task'[h].call = c /\ task'[h].reply = task[h].reply
      BY <1>1, <1>9, <2>2, Jumps DEF LinkDestination, Task
    <3> QED
      BY <1>1, <1>9, <2>2, <3>1 DEF LinkDestination, OpFits, Inserted, Kept
  <2> QED
    BY <1>2, <2>1, <2>2
<1>10. CASE CommitCreate(h)
  <2> DEFINE t == [task[h] EXCEPT !.pc = "reread"]
  <2>1. OpFits(t) /\ t.pc \notin {"link", "bulk"}
    BY <1>1, <1>10 DEF CommitCreate, OpFits, Task
  <2> QED
    BY <1>3, <1>10, <2>1 DEF CommitCreate
<1>11. CASE CommitBatch(h) \/ AddDestination(h) \/ RemoveDestination(h) \/ DeleteRequest(h)
            \/ CreateServerDest(h)
  BY <1>2, <1>11 DEF CommitBatch, AddDestination, RemoveDestination, DeleteRequest,
       CreateServerDest
<1>12. CASE DeleteServerDest(h)
  BY <1>2, <1>12, Zenon DEF DeleteServerDest
<1>13. CASE AttachSelected(h) \/ DetachUnselected(h)
  <2>1. PICK d : Goto(h, [task[h] EXCEPT !.todo = task[h].todo \ {d}])
                   \/ Answer(h, "error") \/ Answer(h, "ok")
    BY <1>13 DEF AttachSelected, DetachUnselected
  <2> DEFINE t == [task[h] EXCEPT !.todo = task[h].todo \ {d}]
  <2>2. OpFits(t) /\ t.pc \notin {"link", "bulk"}
    BY <1>1, <1>13 DEF AttachSelected, DetachUnselected, OpFits, Task
  <2> QED
    BY <1>2, <1>3, <2>1, <2>2
<1>14. CASE InsertRequest(h)
  <2> DEFINE r == NewRow(c)
  <2>0. task[h].pc = "insert"
    BY <1>14, Zenon DEF InsertRequest
  <2>1. \/ Answer(h, WriteResult(h, r, None))
        \/ \E i \in ReqIds :
             /\ row' = [row EXCEPT ![i] = r]
             /\ Goto(h, [task[h] EXCEPT !.pc = "link", !.mine = {i},
                           !.todo = IF IsMod(c) THEN Ids(c.dests) ELSE {}])
    BY <1>14, Zenon DEF InsertRequest
  <2>2. ASSUME NEW i \in ReqIds, row' = [row EXCEPT ![i] = r],
               Goto(h, [task[h] EXCEPT !.pc = "link", !.mine = {i},
                          !.todo = IF IsMod(c) THEN Ids(c.dests) ELSE {}])
        PROVE  Kept
    <3> HIDE DEF r
    <3> DEFINE todo == IF IsMod(c) THEN Ids(c.dests) ELSE {}
               t == [task[h] EXCEPT !.pc = "link", !.mine = {i}, !.todo = todo]
    <3>0. task'[h] = t
      BY <1>1, <2>2, Jumps
    <3> HIDE DEF todo
    <3>1. /\ task'[h].pc = "link" /\ task'[h].mine = {i}
          /\ task'[h].call = c /\ task'[h].reply = task[h].reply
      BY <1>1, <3>0 DEF Task
    <3>2. row'[i] = NewRow(task'[h].call)
      BY <1>1, <2>2, <3>1 DEF TypeOK, r
    <3> QED
      BY <1>1, <2>0, <3>1, <3>2 DEF OpFits, Inserted, Kept
  <2> QED
    BY <1>2, <2>1, <2>2, Zenon
<1>15. CASE UpdateRequest(h)
  <2> DEFINE t == [task[h] EXCEPT !.pc = IF c.op = "edit" THEN "attach" ELSE "reread",
                                  !.todo = IF c.op = "edit"
                                           THEN (c.dests \ {Malformed}) \ task[h].seen
                                           ELSE {}]
  <2>1. OpFits(t) /\ t.pc \notin {"link", "bulk"}
    BY <1>1, <1>15 DEF UpdateRequest, OpFits, Task
  <2>2. Goto(h, t) \/ \E a : Answer(h, a)
    BY <1>15 DEF UpdateRequest
  <2> QED
    BY <1>2, <1>3, <2>1, <2>2
<1>16. CASE BulkInsert(h)
  <2> DEFINE names == c.names
  <2>1. task[h].pc = "bulk"
    BY <1>16, Zenon DEF BulkInsert
  <2>2. PICK k \in NextPosition(h) :
             \/ /\ Goto(h, [task[h] EXCEPT !.left = @ \ {k}])
                /\ UNCHANGED <<phase, row>>
             \/ \E i \in ReqIds :
                  /\ phase[i] = "unborn"
                  /\ row' = [row EXCEPT ![i] = BatchRow(names[k])]
                  /\ Goto(h, [[task[h] EXCEPT !.left = @ \ {k}] EXCEPT !.mine = @ \cup {i}])
    BY <1>16, Zenon DEF BulkInsert
  <2> DEFINE done == [task[h] EXCEPT !.left = task[h].left \ {k}]
             r == BatchRow(names[k])
  <2>3. done \in [pc : {"bulk"}, call : {c}, seen : SUBSET Dests,
                  todo : SUBSET IdStrings, left : SUBSET Nat,
                  mine : {task[h].mine}, reply : {task[h].reply}]
    BY <1>1, <2>1 DEF Task
  <2>4. r.alt = None
    BY DEF BatchRow, NoRow
  <2> HIDE DEF r
  <2>5. CASE Goto(h, done) /\ UNCHANGED <<phase, row>>
    <3> HIDE DEF done
    <3>1. /\ task'[h].pc = "bulk" /\ task'[h].mine = task[h].mine
          /\ task'[h].call = c /\ task'[h].reply = task[h].reply
      BY <1>1, <2>3, <2>5, Jumps
    <3> QED
      BY <1>1, <2>1, <2>5, <3>1 DEF OpFits, Inserted, Kept
  <2>6. ASSUME NEW i \in ReqIds, phase[i] = "unborn", row' = [row EXCEPT ![i] = r],
               Goto(h, [done EXCEPT !.mine = @ \cup {i}])
        PROVE  Kept
    <3> HIDE DEF done
    <3>1. /\ task'[h].pc = "bulk" /\ task'[h].mine = task[h].mine \cup {i}
          /\ task'[h].call = c /\ task'[h].reply = task[h].reply
      BY <1>1, <2>3, <2>6, Jumps
    <3>2. \A j \in task'[h].mine : row'[j].alt = None
      BY <1>1, <2>1, <2>4, <2>6, <3>1 DEF Inserted, TypeOK, Task
    <3> QED
      BY <1>1, <2>1, <3>1, <3>2 DEF OpFits, Inserted, Kept
  <2>7. \/ Goto(h, done) /\ UNCHANGED <<phase, row>>
        \/ \E i \in ReqIds :
             /\ phase[i] = "unborn"
             /\ row' = [row EXCEPT ![i] = r]
             /\ Goto(h, [done EXCEPT !.mine = @ \cup {i}])
    BY <2>2, Zenon DEF r
  <2> QED
    BY <2>5, <2>6, <2>7, Zenon
<1> QED
  BY <1>4, <1>5, <1>6, <1>7, <1>8, <1>9, <1>10, <1>11, <1>12, <1>13, <1>14, <1>15, <1>16
  DEF HandlerStep, PlainStep, WaitingStep, Kept

LEMMA InitCallsInv == Init => CallsInv
<1> SUFFICES ASSUME Init PROVE CallsInv
  OBVIOUS
<1>1. \A h \in Handlers : task[h] = Idle("none")
  BY DEF Init
<1>2. \A h \in Handlers : OpFits(task[h]) /\ Inserted(task[h])
  BY <1>1 DEF OpFits, Inserted, Idle
<1> QED
  BY <1>2, InitIInv DEF CallsInv

LEMMA NextCallsInv == CallsInv /\ [Next]_vars => CallsInv'
<1> SUFFICES ASSUME CallsInv, [Next]_vars PROVE CallsInv'
  OBVIOUS
<1>1. IInv' /\ TypeOK
  BY NextIInv DEF CallsInv, IInv
<1>2. CASE UNCHANGED vars
  BY <1>1, <1>2 DEF CallsInv, OpFits, Inserted, vars
<1>3. ASSUME NEW h \in Handlers, HandlerStep(h) PROVE CallsInv'
  <2>1. (OpFits(task[h]) /\ Inserted(task[h]))'
    BY <1>3, OwnCall
  <2>2. ASSUME NEW g \in Handlers \ {h} PROVE (OpFits(task[g]) /\ Inserted(task[g]))'
    <3>1. task'[g] = task[g] /\ OpFits(task[g]) /\ Inserted(task[g])
      BY <1>1, <1>3, StepsAlone DEF CallsInv, TypeOK
    <3>2. ASSUME task[g].pc \in {"link", "bulk"}, NEW i \in task[g].mine PROVE row'[i] = row[i]
      BY <1>3, <3>2, OthersRows
    <3> QED
      BY <3>1, <3>2 DEF OpFits, Inserted
  <2> QED
    BY <1>1, <2>1, <2>2 DEF CallsInv
<1> QED
  BY <1>2, <1>3, NextIsHandlerStep

(* CallsInv holds in every state: the calls are served as the handlers'    *)
(* code reads, whatever other handlers do between two statements.          *)
THEOREM CallsInductive == Spec => []CallsInv
<1>1. Init => CallsInv
  BY InitCallsInv
<1>2. CallsInv /\ [Next]_vars => CallsInv'
  BY NextCallsInv
<1> QED
  BY <1>1, <1>2, PTL DEF Spec

-----------------------------------------------------------------------------
(* Refused calls                                                           *)

LEMMA RefusalStep ==
  ASSUME CallsInv, [Next]_vars, NEW h \in Handlers,
         task'[h] # task[h], task'[h].reply \in {"invalid", "conflict", "forbidden"}
  PROVE  /\ Live' = Live /\ \A i \in Live : row'[i] = row[i] /\ LinksOf(i)' = LinksOf(i)
         /\ \A i \in task[h].mine : phase'[i] = "unborn" /\ LinksOf(i)' = {}
<1>1. TypeOK /\ task[h].mine \subseteq ReqIds
  BY DEF CallsInv, IInv, TypeOK, Task
<1>2. Effect(h) /\ task'[h].reply \in Refusals
  BY <1>1, StepOf, EffectOf DEF Refusals
<1>3. CASE Reads(h)
  BY <1>2, <1>3 DEF Reads, board, Live, LinksOf
<1>4. CASE Undoes(h)
  <2> DEFINE undone == task[h].mine \cap Open
  <2>1. /\ undone = task[h].mine
        /\ phase' = [i \in ReqIds |-> IF i \in undone THEN "unborn" ELSE phase[i]]
        /\ row' = [i \in ReqIds |-> IF i \in undone THEN NoRow ELSE row[i]]
        /\ links' = {l \in links : l[1] \notin undone}
    BY <1>2, <1>4 DEF Undoes, Rollback
  <2>2. \A i \in undone : i \in Open /\ i \in ReqIds /\ i \notin Live
    BY DEF Open, Live
  <2>3. Live' = Live
    BY <2>1, <2>2 DEF Live, Open
  <2>4. \A i \in Live : row'[i] = row[i]
    BY <2>1, <2>2 DEF Live
  <2>5. \A i \in Live : LinksOf(i)' = LinksOf(i)
    BY <2>1, <2>2 DEF LinksOf
  <2>6. \A i \in undone : phase'[i] = "unborn" /\ LinksOf(i)' = {}
    BY <2>1, <2>2 DEF LinksOf
  <2> QED
    BY <2>1, <2>3, <2>4, <2>5, <2>6
<1> QED
  BY <1>2, <1>3, <1>4 DEF Effect

(* A refused call leaves nothing behind, also when it is refused by the    *)
(* database in the middle of its transaction (CreateWithDetails).          *)
THEOREM RefusedLeaveNothing == Spec => RefusalLeavesNothing
<1>1. CallsInv /\ [Next]_vars =>
        [\A h \in Handlers :
           task'[h] # task[h] /\ task'[h].reply \in {"invalid", "conflict", "forbidden"} =>
             /\ Live' = Live /\ \A i \in Live : row'[i] = row[i] /\ LinksOf(i)' = LinksOf(i)
             /\ \A i \in task[h].mine : phase'[i] = "unborn" /\ LinksOf(i)' = {}]_vars
  BY RefusalStep
<1> QED
  BY <1>1, CallsInductive, PTL DEF Spec, RefusalLeavesNothing

-----------------------------------------------------------------------------
(* The board implements the catalogue: what its readers see, under the     *)
(* mapping of BoardProperties.                                             *)
EntriesNow == [i \in ReqIds |-> IF i \in Live THEN row[i] ELSE NoRow]
WithdrawnNow == {i \in ReqIds : phase[i] = "gone"}
TagsNow == {l \in links : l[1] \in Live}

(* Exactly the live requests are published.                                *)
LEMMA Shown ==
  ASSUME IInv
  PROVE  /\ Board!Published = Live /\ EntriesNow \in [ReqIds -> Row]
         /\ \A i \in Live : EntriesNow[i] = row[i] /\ EntriesNow[i] # NoRow
         /\ \A i \in ReqIds \ Live : EntriesNow[i] = NoRow
<1>1. NoRow \in Row /\ NoRow.name \notin Titles
  BY SpecialValues DEF NoRow, Row, Categories, Statuses
<1>2. \A i \in Live : i \in ReqIds /\ row[i] \in Row /\ row[i].name \in Titles
  BY DEF IInv, TypeOK, Live
<1>3. \A i \in Live : row[i] # NoRow
  BY <1>1, <1>2
<1>4. Board!Published = Live
  BY <1>2, <1>3 DEF Board!Published, Live
<1> QED
  BY <1>1, <1>2, <1>3, <1>4 DEF EntriesNow

(* Entries that agree with rows no two of which clash are distinct.        *)
LEMMA DistinctEntries ==
  ASSUME NEW e, NEW r, NEW P, \A i \in P : e[i] = r[i],
         \A i, j \in P : i # j => ~Clash(r[i], r[j])
  PROVE  Board!Distinct(e, P)
BY DEF Board!Distinct, Clash, SameName, SameAlt, Key

(* Readers see nothing of what goes on below the live rows.                *)
LEMMA Unseen ==
  ASSUME Live' = Live, \A i \in Live : row'[i] = row[i], WithdrawnNow' = WithdrawnNow,
         \A l : l[1] \in Live => (l \in links' <=> l \in links), UNCHANGED destPhase
  PROVE  UNCHANGED <<EntriesNow, WithdrawnNow, TagsNow, destPhase>>
<1>1. TagsNow' = TagsNow
  BY DEF TagsNow
<1> QED
  BY <1>1 DEF EntriesNow

LEMMA UnseenEffects ==
  ASSUME IInv, NEW h \in Handlers,
         Reads(h) \/ Undoes(h) \/ Inserts(h) \/ LinksOwn(h)
  PROVE  UNCHANGED <<EntriesNow, WithdrawnNow, TagsNow, destPhase>>
<1>1. TypeOK /\ task[h] \in Task /\ MineFits(task[h]) /\ task[h].mine \subseteq ReqIds
  BY DEF IInv, TypeOK, Task
<1>2. CASE Reads(h)
  BY <1>2 DEF Reads, board, EntriesNow, WithdrawnNow, TagsNow, Live
<1>3. CASE Undoes(h)
  <2> DEFINE undone == task[h].mine \cap Open
  <2>1. /\ phase' = [i \in ReqIds |-> IF i \in undone THEN "unborn" ELSE phase[i]]
        /\ row' = [i \in ReqIds |-> IF i \in undone THEN NoRow ELSE row[i]]
        /\ links' = {l \in links : l[1] \notin undone} /\ UNCHANGED destPhase
    BY <1>3 DEF Undoes, Rollback
  <2>2. \A i \in undone : i \in ReqIds /\ phase[i] = "open" /\ i \notin Live
    BY DEF Open, Live
  <2>3. Live' = Live /\ WithdrawnNow' = WithdrawnNow
    BY <2>1, <2>2 DEF Live, WithdrawnNow
  <2>4. \A i \in Live : row'[i] = row[i]
    BY <2>1, <2>2 DEF Live
  <2>5. \A l : l[1] \in Live => (l \in links' <=> l \in links)
    BY <2>1, <2>2
  <2> QED
    BY <2>1, <2>3, <2>4, <2>5, Unseen
<1>4. CASE Inserts(h)
  <2>1. PICK i \in ReqIds, r \in Row :
          /\ phase[i] = "unborn" /\ phase' = [phase EXCEPT ![i] = "open"]
          /\ row' = [row EXCEPT ![i] = r] /\ UNCHANGED <<links, destPhase>>
    BY <1>4 DEF Inserts
  <2>2. Live' = Live /\ WithdrawnNow' = WithdrawnNow /\ i \notin Live
    BY <1>1, <2>1 DEF Live, WithdrawnNow, TypeOK
  <2>3. \A j \in Live : row'[j] = row[j]
    BY <1>1, <2>1, <2>2 DEF TypeOK, Live
  <2> QED
    BY <2>1, <2>2, <2>3, Unseen
<1>5. CASE LinksOwn(h)
  <2>1. PICK d \in Dests : links' = links \cup (task[h].mine \X {d})
    BY <1>5 DEF LinksOwn
  <2>2. UNCHANGED <<phase, row, destPhase>> /\ task[h].mine \subseteq Open
    BY <1>1, <1>5 DEF LinksOwn, MineFits
  <2>3. \A l : l[1] \in Live => (l \in links' <=> l \in links)
    BY <2>1, <2>2 DEF Live, Open
  <2> QED
    BY <2>2, <2>3, Unseen DEF Live, WithdrawnNow
<1> QED
  BY <1>2, <1>3, <1>4, <1>5

(* A commit publishes the rows of its transaction, with their links.       *)
LEMMA CommitPublishes ==
  ASSUME IInv, IInv', NEW h \in Handlers, Commits(h)
  PROVE  Board!PublishEntries
<1> DEFINE S == task[h].mine
<1>1. /\ TypeOK /\ S \subseteq Open /\ UNCHANGED <<row, links, destPhase>>
      /\ phase' = [i \in ReqIds |-> IF i \in S THEN "live" ELSE phase[i]]
  BY DEF Commits, Publish, IInv, MineFits
<1>2. \A i \in S : i \in ReqIds /\ phase[i] = "open" /\ i \notin Live
  BY <1>1 DEF Open, Live
<1> HIDE DEF S
<1>3. Live' = Live \cup S /\ WithdrawnNow' = WithdrawnNow
  BY <1>1, <1>2 DEF Live, WithdrawnNow
<1>4. EntriesNow' \in [ReqIds -> Row] /\ \A i \in Live' : EntriesNow'[i] = row'[i]
  <2>1. NoRow \in Row
    BY DEF NoRow, Row, Categories, Statuses
  <2> QED
    BY <1>1, <1>2, <1>3, <2>1 DEF EntriesNow, TypeOK, Live
<1>5. \A i \in ReqIds \ S : EntriesNow'[i] = EntriesNow[i]
  BY <1>1, <1>3 DEF EntriesNow
<1>6. \A i \in S : EntriesNow'[i] # NoRow
  <2>1. \A i \in S : EntriesNow'[i] = row[i] /\ row[i].name \in Titles
    BY <1>1, <1>2, <1>3, <1>4 DEF TypeOK
  <2> QED
    BY <2>1, SpecialValues DEF NoRow
<1>7. Board!Distinct(EntriesNow', Live \cup S)
  <2>1. \A i, j \in Live' : i # j => ~Clash(row'[i], row'[j])
    BY DEF IInv, UniqueKeys, Clash, SameName, SameAlt, Key
  <2>2. Board!Distinct(EntriesNow', Live')
    BY <1>4, <2>1, DistinctEntries
  <2> QED
    BY <1>3, <2>2
<1>8. TagsNow \subseteq TagsNow'
  BY <1>1, <1>3 DEF TagsNow
<1>9. \A l \in TagsNow' \ TagsNow : l[1] \in S /\ l[2] \in Dests /\ destPhase[l[2]] = "live"
  BY <1>1, <1>3 DEF TagsNow, TypeOK, IInv, LinksRefer
<1>10. S \in SUBSET (ReqIds \ (Board!Published \cup WithdrawnNow))
  BY <1>2, Shown DEF WithdrawnNow
<1> QED
  BY <1>1, <1>3, <1>4, <1>5, <1>6, <1>7, <1>8, <1>9, <1>10, Shown
  DEF Board!PublishEntries, EntriesNow, WithdrawnNow, TagsNow

(* An update of a row revises its entry; a URL is never cleared.           *)
LEMMA UpdateRevises ==
  ASSUME IInv, IInv', NEW h \in Handlers, task[h].call \in CallType, Revises(h),
         NEW i \in ReqIds, i = task[h].call.id
  PROVE  Board!ReviseEntry(i)
<1> DEFINE c == task[h].call
<1>1. /\ TypeOK /\ i \in Live /\ i \in ReqIds /\ UNCHANGED <<phase, links, destPhase>>
      /\ row'[i] = Edited(row[i], c) /\ \A j \in ReqIds \ {i} : row'[j] = row[j]
  BY DEF Revises, IInv, TypeOK, Live
<1>2. Live' = Live /\ WithdrawnNow' = WithdrawnNow /\ TagsNow' = TagsNow
  BY <1>1 DEF Live, WithdrawnNow, TagsNow
<1>3. EntriesNow' \in [ReqIds -> Row] /\ \A j \in Live : EntriesNow'[j] = row'[j]
  BY <1>1, <1>2 DEF EntriesNow, IInv, TypeOK, NoRow, Row, Categories, Statuses, Live
<1>4. \A j \in ReqIds \ {i} : EntriesNow'[j] = EntriesNow[j]
  BY <1>1, <1>2 DEF EntriesNow
<1>5. EntriesNow'[i] # NoRow
  <2>1. row'[i].name \in Titles
    BY <1>1, <1>2 DEF IInv, TypeOK
  <2> QED
    BY <1>1, <1>3, <2>1, SpecialValues DEF NoRow
<1>6. Board!Distinct(EntriesNow', Live)
  <2>1. \A k, j \in Live : k # j => ~Clash(row'[k], row'[j])
    BY <1>2 DEF IInv, UniqueKeys, Clash, SameName, SameAlt, Key
  <2> QED
    BY <1>3, <2>1, DistinctEntries
<1>7. EntriesNow[i].url # None => EntriesNow'[i].url # None
  <2>1. EntriesNow[i].url = row[i].url
    BY <1>1, Shown
  <2>2. EntriesNow'[i].url = IF c.url \in Urls THEN c.url ELSE row[i].url
    BY <1>1, <1>3 DEF Edited
  <2> QED
    BY <2>1, <2>2, SpecialValues
<1> QED
  BY <1>1, <1>2, <1>3, <1>4, <1>5, <1>6, <1>7, Shown
  DEF Board!ReviseEntry, EntriesNow, WithdrawnNow, TagsNow

LEMMA DeleteWithdraws ==
  ASSUME IInv, NEW h \in Handlers, Withdraws(h)
  PROVE  \E i \in ReqIds : Board!WithdrawEntry(i)
<1>1. PICK i \in Live :
        /\ phase' = [phase EXCEPT ![i] = "gone"] /\ row' = [row EXCEPT ![i] = NoRow]
        /\ links' = {l \in links : l[1] # i} /\ UNCHANGED destPhase
  BY DEF Withdraws
<1>2. TypeOK /\ i \in ReqIds
  BY DEF IInv, Live
<1>3. Live' = Live \ {i} /\ WithdrawnNow' = WithdrawnNow \cup {i}
  BY <1>1, <1>2 DEF Live, WithdrawnNow, TypeOK
<1>4. EntriesNow' = [EntriesNow EXCEPT ![i] = NoRow]
  BY <1>1, <1>2, <1>3 DEF EntriesNow, TypeOK, Live
<1>5. TagsNow' = {l \in TagsNow : l[1] # i}
  BY <1>1, <1>3 DEF TagsNow
<1> QED
  BY <1>1, <1>2, <1>3, <1>4, <1>5, Shown
  DEF Board!WithdrawEntry, EntriesNow, WithdrawnNow, TagsNow

LEMMA LinkEffectsTag ==
  ASSUME IInv, NEW h \in Handlers, Links(h) \/ Unlinks(h)
  PROVE  \/ \E i \in ReqIds, d \in Dests : Board!Tag(i, d) \/ Board!Untag(i, d)
         \/ UNCHANGED <<EntriesNow, WithdrawnNow, TagsNow, destPhase>>
<1> DEFINE i == task[h].call.id
<1>1. TypeOK /\ UNCHANGED <<phase, row, destPhase>>
  BY DEF IInv, Links, Unlinks
<1>2. Live' = Live /\ UNCHANGED <<EntriesNow, WithdrawnNow, destPhase>>
  BY <1>1 DEF Live, EntriesNow, WithdrawnNow
<1>3. CASE Links(h)
  <2>1. PICK d \in Dests : Linkable(i, d) /\ links' = links \cup {<<i, d>>}
    BY <1>3 DEF Links
  <2>2. TagsNow' = TagsNow \cup {<<i, d>>}
    BY <1>2, <2>1 DEF TagsNow, Linkable
  <2>3. Board!Tag(i, d) /\ i \in ReqIds
    BY <1>2, <2>1, <2>2, Shown DEF Board!Tag, EntriesNow, WithdrawnNow, TagsNow, Linkable, Live
  <2> QED
    BY <2>3
<1>4. CASE Unlinks(h)
  <2>1. PICK d : links' = links \ {<<i, d>>}
    BY <1>4 DEF Unlinks
  <2>2. TagsNow' = TagsNow \ {<<i, d>>}
    BY <1>2, <2>1 DEF TagsNow
  <2>3. CASE i \in ReqIds /\ d \in Dests
    <3>1. Board!Untag(i, d)
      BY <1>2, <2>2 DEF Board!Untag, EntriesNow, WithdrawnNow, TagsNow
    <3> QED
      BY <2>3, <3>1
  <2>4. CASE ~(i \in ReqIds /\ d \in Dests)
    <3>1. <<i, d>> \notin TagsNow
      BY <1>1, <2>4 DEF TypeOK, TagsNow
    <3> QED
      BY <1>2, <2>2, <3>1
  <2> QED
    BY <2>3, <2>4
<1> QED
  BY <1>3, <1>4

LEMMA ServerEffects ==
  ASSUME IInv, NEW h \in Handlers, Opens(h) \/ Closes(h)
  PROVE  \E d \in Dests : Board!OpenServer(d) \/ Board!CloseServer(d)
<1>1. UNCHANGED <<phase, row>> /\ Live' = Live /\ UNCHANGED <<EntriesNow, WithdrawnNow>>
  BY DEF Opens, Closes, Live, EntriesNow, WithdrawnNow
<1>2. CASE Opens(h)
  <2>1. PICK d \in Dests : /\ destPhase[d] = "unborn" /\ UNCHANGED links
                           /\ destPhase' = [destPhase EXCEPT ![d] = "live"]
    BY <1>2 DEF Opens
  <2>2. Board!OpenServer(d)
    BY <1>1, <2>1 DEF Board!OpenServer, EntriesNow, WithdrawnNow
  <2> QED
    BY <2>2
<1>3. CASE Closes(h)
  <2>1. PICK d \in Dests : /\ destPhase[d] = "live" /\ links' = {l \in links : l[2] # d}
                           /\ destPhase' = [destPhase EXCEPT ![d] = "gone"]
    BY <1>3 DEF Closes
  <2>2. TagsNow' = {l \in TagsNow : l[2] # d}
    BY <1>1, <2>1 DEF TagsNow
  <2>3. Board!CloseServer(d)
    BY <1>1, <2>1, <2>2 DEF Board!CloseServer, EntriesNow, WithdrawnNow, TagsNow
  <2> QED
    BY <2>3
<1> QED
  BY <1>2, <1>3

LEMMA StepImplements ==
  ASSUME CallsInv, [Next]_vars
  PROVE  [Board!CNext]_<<EntriesNow, WithdrawnNow, TagsNow, destPhase>>
<1>1. IInv /\ IInv' /\ TypeOK
  BY NextIInv DEF CallsInv, IInv
<1>2. CASE UNCHANGED vars
  BY <1>2 DEF vars, EntriesNow, WithdrawnNow, TagsNow, Live
<1>3. ASSUME NEW h \in Handlers, HandlerStep(h)
      PROVE  Board!CNext \/ UNCHANGED <<EntriesNow, WithdrawnNow, TagsNow, destPhase>>
  <2>1. Effect(h) /\ task[h].call \in CallType
    BY <1>1, <1>3, EffectOf DEF TypeOK, Task
  <2>2. CASE Reads(h) \/ Undoes(h) \/ Inserts(h) \/ LinksOwn(h)
    BY <1>1, <2>2, UnseenEffects
  <2>3. CASE Commits(h)
    BY <1>1, <2>3, CommitPublishes DEF Board!CNext
  <2>4. CASE Revises(h)
    <3>1. PICK i \in ReqIds : i = task[h].call.id
      BY <2>4 DEF Revises, Live
    <3>2. Board!ReviseEntry(i)
      BY <1>1, <2>1, <2>4, <3>1, UpdateRevises
    <3> QED
      BY <3>2 DEF Board!CNext
  <2>5. CASE Withdraws(h)
    BY <1>1, <2>5, DeleteWithdraws DEF Board!CNext
  <2>6. CASE Links(h) \/ Unlinks(h)
    BY <1>1, <2>6, LinkEffectsTag DEF Board!CNext
  <2>7. CASE Opens(h) \/ Closes(h)
    BY <1>1, <2>7, ServerEffects DEF Board!CNext
  <2> QED
    BY <2>1, <2>2, <2>3, <2>4, <2>5, <2>6, <2>7 DEF Effect, Writes
<1> QED
  BY <1>2, <1>3, NextIsHandlerStep

LEMMA InitImplements == Init => Board!CInit
<1> SUFFICES ASSUME Init PROVE Board!CInit
  OBVIOUS
<1>1. Live = {} /\ WithdrawnNow = {} /\ TagsNow = {}
  BY DEF Init, Live, WithdrawnNow, TagsNow
<1> QED
  BY <1>1 DEF Init, Board!CInit, WithdrawnNow, TagsNow

(* Handlers, transactions and their failures implement the catalogue: what *)
(* its readers see changes by one of the catalogue's atomic acts at a time.*)
THEOREM CatalogueTheorem == Spec => ImplementsCatalogue
<1>1. CallsInv /\ [Next]_vars => [Board!CNext]_<<EntriesNow, WithdrawnNow, TagsNow, destPhase>>
  BY StepImplements
<1>2. CallsInv /\ [Next]_vars => [Board!CNext]_(Board!cvars)
  BY <1>1 DEF Board!cvars, EntriesNow, WithdrawnNow, TagsNow
<1> QED
  BY <1>2, InitImplements, CallsInductive, PTL DEF Spec, ImplementsCatalogue, Board!CSpec

-----------------------------------------------------------------------------
(* Collisions across the two name columns                                  *)

(* What a create and an edit write is among what their check looks at, or  *)
(* was there before.                                                       *)
LEMMA NewRowKeys ==
  ASSUME NEW c \in CallType, c.op \in CreateOps, NewRow(c).name \in Titles
  PROVE  Keys(NewRow(c)) \subseteq KeysOf(Candidates(c))
<1>1. {NewRow(c).name, NewRow(c).alt} \ {None} \subseteq Candidates(c)
  BY DEF NewRow, Candidates
<1> QED
  BY <1>1 DEF Keys, KeysOf

LEMMA EditedKeys ==
  ASSUME NEW c \in CallType, c.op \notin CreateOps, NEW r \in Row
  PROVE  Keys(Edited(r, c)) \subseteq KeysOf(Candidates(c)) \cup Keys(r)
<1>1. Candidates(c) = {c.name, c.alt} \cap Titles
  BY DEF Candidates
<1>2. Edited(r, c).name \in Candidates(c) \cup {r.name}
  BY <1>1 DEF Edited
<1>3. c.alt \in Titles \cup {None, Blank}
  BY DEF CallType
<1>4. Edited(r, c).alt \in Candidates(c) \cup {r.alt, None}
  BY <1>1, <1>3 DEF Edited
<1>5. {Edited(r, c).name, Edited(r, c).alt} \ {None}
        \subseteq Candidates(c) \cup ({r.name, r.alt} \ {None})
  BY <1>2, <1>4
<1> QED
  BY <1>5 DEF Keys, KeysOf

(* Only a commit and an update make names visible.                         *)
LEMMA NoNewNames ==
  ASSUME IInv, NEW h \in Handlers, Effect(h), ~Commits(h), ~Revises(h)
  PROVE  Live' \subseteq Live /\ \A i \in Live' : row'[i] = row[i]
<1>1. TypeOK
  BY DEF IInv
<1>2. CASE UNCHANGED <<phase, row>>
  BY <1>2 DEF Live
<1>3. CASE Undoes(h)
  BY <1>3 DEF Undoes, Rollback, Live, Open
<1>4. CASE Inserts(h)
  BY <1>1, <1>4 DEF Inserts, Live, TypeOK
<1>5. CASE Withdraws(h)
  BY <1>1, <1>5 DEF Withdraws, Live, TypeOK
<1>6. \/ UNCHANGED <<phase, row>> \/ Undoes(h) \/ Inserts(h) \/ Withdraws(h)
  BY DEF Effect, Reads, Writes, LinksOwn, Links, Unlinks, Opens, Closes, board
<1> QED
  BY <1>2, <1>3, <1>4, <1>5, <1>6

LEMMA RevisionCollides ==
  ASSUME CallsInv, NEW h \in Handlers, Revises(h), CrossUnique, ~CrossUnique'
  PROVE  StaleCheck(h)
<1> DEFINE c == task[h].call
<1>1. /\ TypeOK /\ c \in CallType /\ c.id \in Live /\ c.id \in ReqIds /\ task[h].pc = "write"
      /\ c.op \notin CreateOps /\ UNCHANGED phase /\ row[c.id] \in Row
      /\ row'[c.id] = Edited(row[c.id], c)
      /\ \A j \in ReqIds \ {c.id} : row'[j] = row[j]
  BY DEF CallsInv, IInv, TypeOK, Task, Revises, Live, OpFits, CreateOps
<1>2. Live' = Live
  BY <1>1 DEF Live
<1>3. PICK i, j \in Live : i # j /\ Keys(row'[i]) \cap Keys(row'[j]) # {}
  BY <1>2 DEF CrossUnique, Keys, KeysOf
<1>4. ASSUME NEW k \in Live, k # c.id, Keys(row'[c.id]) \cap Keys(row'[k]) # {}
      PROVE  StaleCheck(h)
  <2>1. PICK x : x \in Keys(row'[c.id]) /\ x \in Keys(row'[k])
    BY <1>4
  <2>2. row'[k] = row[k]
    BY <1>1, <1>4 DEF Live
  <2>3. x \in Keys(row[k]) /\ x \in KeysOf(Candidates(c)) \cup Keys(row[c.id])
    BY <1>1, <2>1, <2>2, EditedKeys
  <2>4. x \notin Keys(row[c.id])
    BY <1>1, <1>4, <2>3 DEF CrossUnique
  <2>5. k \in Live \ Excluded(c)
    BY <1>1, <1>4 DEF Excluded
  <2> QED
    BY <1>1, <2>3, <2>4, <2>5 DEF StaleCheck, NameInUse
<1>5. ~(i # c.id /\ j # c.id)
  BY <1>1, <1>3 DEF CrossUnique, Live
<1> QED
  BY <1>3, <1>4, <1>5

LEMMA CommitCollides ==
  ASSUME CallsInv, NEW h \in Handlers, Commits(h), CrossUnique, ~CrossUnique'
  PROVE  StaleCheck(h)
<1> DEFINE c == task[h].call
           S == task[h].mine
<1>1. /\ TypeOK /\ UniqueKeys /\ c \in CallType /\ S \subseteq Open /\ UNCHANGED row
      /\ task[h].pc \in {"link", "bulk"}
      /\ phase' = [i \in ReqIds |-> IF i \in S THEN "live" ELSE phase[i]]
  BY DEF CallsInv, IInv, TypeOK, Task, Commits, Publish, MineFits
<1>2. \A i \in S : i \in ReqIds /\ phase[i] = "open" /\ row[i].name \in Titles
  BY <1>1 DEF Open, TypeOK
<1>3. Live' = Live \cup S
  BY <1>1, <1>2 DEF Live
<1>4. PICK i, j \in Live \cup S : i # j /\ Keys(row[i]) \cap Keys(row[j]) # {}
  BY <1>1, <1>3 DEF CrossUnique, Keys, KeysOf
<1>5. CASE task[h].pc = "link"
  <2>1. PICK m \in ReqIds : S = {m} /\ row[m] = NewRow(c)
    BY <1>5 DEF CallsInv, Inserted
  <2>2. Excluded(c) = {} /\ c.op \in CreateOps
    BY <1>5 DEF CallsInv, OpFits, Excluded
  <2>3. Keys(row[m]) \subseteq KeysOf(Candidates(c))
    BY <1>1, <1>2, <2>1, <2>2, NewRowKeys
  <2>4. ASSUME NEW k \in Live, Keys(row[m]) \cap Keys(row[k]) # {} PROVE StaleCheck(h)
    BY <1>5, <2>2, <2>3, <2>4 DEF StaleCheck, NameInUse
  <2>5. ~(i \in Live /\ j \in Live)
    BY <1>4 DEF CrossUnique
  <2> QED
    BY <1>4, <2>1, <2>4, <2>5
<1>6. CASE task[h].pc = "bulk"
  <2> DEFINE names == {row[m].name : m \in S}
  <2>1. \A m \in S : Keys(row[m]) = {Key(row[m].name)}
    <3>1. \A m \in S : row[m].alt = None /\ row[m].name # None
      BY <1>2, <1>6, SpecialValues DEF CallsInv, Inserted
    <3> QED
      BY <3>1 DEF Keys, KeysOf, Key
  <2>2. \A m \in S : Keys(row[m]) \subseteq KeysOf(names)
    BY <2>1 DEF KeysOf, Key
  <2>3. ASSUME NEW m \in S, NEW k \in Live, Keys(row[m]) \cap Keys(row[k]) # {}
        PROVE  StaleCheck(h)
    BY <1>6, <2>2, <2>3 DEF StaleCheck, NameInUse
  <2>4. ~(i \in S /\ j \in S)
    BY <1>1, <1>4, <2>1 DEF UniqueKeys, Clash, SameName
  <2>5. ~(i \in Live /\ j \in Live)
    BY <1>4 DEF CrossUnique
  <2> QED
    BY <1>4, <2>3, <2>4, <2>5
<1> QED
  BY <1>1, <1>5, <1>6

LEMMA CollisionStep ==
  ASSUME CallsInv, [Next]_vars, CrossUnique, ~CrossUnique'
  PROVE  \E h \in Handlers : task'[h] # task[h] /\ StaleCheck(h)
<1>1. IInv /\ TypeOK
  BY DEF CallsInv, IInv
<1>2. ~UNCHANGED vars
  BY DEF vars, CrossUnique, Live, Keys, KeysOf
<1>3. PICK h \in Handlers : HandlerStep(h)
  BY <1>2, NextIsHandlerStep
<1>4. Effect(h)
  BY <1>3, EffectOf
<1>5. Commits(h) \/ Revises(h)
  <2>1. SUFFICES ASSUME ~Commits(h), ~Revises(h) PROVE FALSE
    OBVIOUS
  <2>2. Live' \subseteq Live /\ \A i \in Live' : row'[i] = row[i]
    BY <1>1, <1>4, <2>1, NoNewNames
  <2> QED
    BY <2>2 DEF CrossUnique, Keys, KeysOf
<1>6. StaleCheck(h)
  BY <1>5, CommitCollides, RevisionCollides
<1>7. task'[h] # task[h]
  BY <1>5 DEF Commits, Revises
<1> QED
  BY <1>6, <1>7

(* The check of every handler covers every name it writes: names collide   *)
(* across the columns only if one of them came after the check.            *)
THEOREM CollisionsTheorem == Spec => CollisionsNeedStaleCheck
<1>1. CallsInv /\ [Next]_vars =>
        [CrossUnique /\ ~CrossUnique' =>
           \E h \in Handlers : task'[h] # task[h] /\ StaleCheck(h)]_vars
  BY CollisionStep
<1> QED
  BY <1>1, CallsInductive, PTL DEF Spec, CollisionsNeedStaleCheck

-----------------------------------------------------------------------------
(* One call at a time.  What the handlers check and then act on stays true *)
(* when no other call is served in between: with a single handler names    *)
(* never collide, and edits and removals leave the links they should.      *)
OneAtATime == \A g, h \in Handlers : g = h

(* The steps after which a handler is about to write what it has checked.  *)
Arrives(h) ==
  \/ \E c \in Calls, pc \in {"check", "write", "prefilter"} : \E left :
       /\ Goto(h, BeginBatch(c, pc, left)) /\ FirstStep(c, pc) /\ UNCHANGED board
       /\ pc = "prefilter" => left = Trimmed(c.names)
  \/ CheckNames(h) \/ InsertRequest(h) \/ LinkDestination(h) \/ Prefilter(h)
  \/ BulkInsert(h) \/ LoadForEdit(h) \/ LoadForRemove(h) \/ UpdateRequest(h)
  \/ AttachSelected(h) \/ TurnToDetach(h) \/ DetachUnselected(h)
LEMMA Arrivals ==
  ASSUME TypeOK, NEW h \in Handlers, HandlerStep(h), ~Arrives(h)
  PROVE  task'[h].pc \notin {"check", "write", "insert", "link", "prefilter", "bulk",
                             "remove", "attach", "detach"}
<1> DEFINE Away == task'[h].pc \notin {"check", "write", "insert", "link", "prefilter",
                                       "bulk", "remove", "attach", "detach"}
<1> HIDE DEF Away
<1> SUFFICES Away
  BY DEF Away
<1>1. task[h] \in Task
  BY DEF TypeOK
<1>2. ASSUME NEW a, Answer(h, a) PROVE Away
  BY <1>2, Answers DEF Away
<1>3. CASE \E c \in Calls : Submit(h, c)
  <2>1. PICK c \in Calls : Submit(h, c)
    BY <1>3
  <2>2. UNCHANGED board
    BY <2>1, SubmitGoes
  <2>3. CASE \E a \in Replies : Answer(h, a)
    BY <1>2, <2>3
  <2>4. ASSUME NEW pc \in {"check", "write", "load", "delete", "addDest", "createDest",
                           "deleteDest", "prefilter"},
               NEW left, Goto(h, BeginBatch(c, pc, left)), FirstStep(c, pc),
               pc = "prefilter" => left = Trimmed(c.names)
        PROVE  Away
    <3>1. pc \notin {"check", "write", "prefilter"}
      BY <2>2, <2>4 DEF Arrives
    <3>2. task'[h].pc = pc
      BY <2>4, Jumps DEF BeginBatch
    <3> QED
      BY <3>1, <3>2 DEF Away
  <2> QED
    BY <2>1, <2>3, <2>4, SubmitGoes
<1>4. CASE LoadRequest(h)
  <2>1. [task[h] EXCEPT !.pc = "loadDests"].pc = "loadDests"
    BY <1>1 DEF Task
  <2>2. CASE Goto(h, [task[h] EXCEPT !.pc = "loadDests"])
    BY <2>1, <2>2, Jumps DEF Away
  <2> QED
    BY <1>2, <1>4, <2>2 DEF LoadRequest
<1>5. CASE CommitCreate(h)
  <2>1. [task[h] EXCEPT !.pc = "reread"].pc = "reread"
    BY <1>1 DEF Task
  <2> QED
    BY <1>5, <2>1, Jumps DEF CommitCreate, Away
<1>6. CASE Reread(h) \/ DeleteRequest(h) \/ AddDestination(h) \/ RemoveDestination(h)
           \/ CreateServerDest(h) \/ CommitBatch(h) \/ DeadlockAbort(h) \/ Fail(h)
  BY <1>2, <1>6 DEF Reread, DeleteRequest, AddDestination, RemoveDestination,
       CreateServerDest, CommitBatch, DeadlockAbort, Fail
<1>7. CASE DeleteServerDest(h)
  BY <1>2, <1>7, Zenon DEF DeleteServerDest
<1> QED
  BY <1>3, <1>4, <1>5, <1>6, <1>7 DEF HandlerStep, PlainStep, WaitingStep, Arrives

(* What the handler has found free before it writes names.                 *)
FreshCheck(h) ==
  LET c == task[h].call IN
  /\ task[h].pc \in {"insert", "write", "link"} => ~NameInUse(Excluded(c), Candidates(c))
  /\ task[h].pc = "bulk" =>
       /\ \A k \in task[h].left : Key(c.names[k]) \notin Taken
       /\ \A i \in task[h].mine : Key(row[i].name) \notin Taken

LEMMA FreshIsNotStale ==
  ASSUME NEW h \in Handlers, FreshCheck(h)
  PROVE  ~StaleCheck(h)
BY DEF FreshCheck, StaleCheck, NameInUse, Taken, KeysOf, Key

(* Names are as free as before when no live row has changed.               *)
LEMMA SameNames ==
  ASSUME Live' = Live, \A i \in Live : row'[i] = row[i], NEW X, NEW T
  PROVE  (NameInUse(X, T)' <=> NameInUse(X, T)) /\ Taken' = Taken
<1>1. NameInUse(X, T)' <=> NameInUse(X, T)
  BY DEF NameInUse, Keys, KeysOf
<1>2. Taken' = Taken
  BY DEF Taken, Keys, KeysOf
<1> QED
  BY <1>1, <1>2

LEMMA FreshStep ==
  ASSUME CallsInv, NEW h \in Handlers, HandlerStep(h), FreshCheck(h)
  PROVE  FreshCheck(h)'
<1> DEFINE c == task[h].call
           Fresh == FreshCheck(h)'
<1> HIDE DEF Fresh
<1> SUFFICES Fresh
  BY DEF Fresh
<1>1. TypeOK /\ task[h] \in Task /\ MineFits(task[h]) /\ OpFits(task[h])
  BY DEF CallsInv, IInv, TypeOK
<1>2. ASSUME task'[h].pc \notin {"insert", "write", "link", "bulk"} PROVE Fresh
  BY <1>2 DEF FreshCheck, Fresh
<1>3. ASSUME NEW a, Answer(h, a) PROVE Fresh
  BY <1>1, <1>2, <1>3, Answers
<1>4. CASE ~Arrives(h)
  BY <1>1, <1>2, <1>4, Arrivals
<1>5. ASSUME NEW d \in Calls, NEW pc \in {"check", "write", "prefilter"}, NEW left,
             Goto(h, BeginBatch(d, pc, left)), FirstStep(d, pc), UNCHANGED board
      PROVE  Fresh
  <2>1. task'[h].pc = pc /\ task'[h].call = d
    BY <1>1, <1>5, Jumps DEF BeginBatch
  <2>2. pc = "write" => ~NameInUse(Excluded(d), Candidates(d))'
    BY <1>5 DEF FirstStep, NameInUse, KeysOf
  <2> QED
    BY <1>2, <2>1, <2>2 DEF FreshCheck, Fresh
<1>6. CASE CheckNames(h)
  <2> DEFINE t == [task[h] EXCEPT !.pc = IF c.op \in CreateOps THEN "insert" ELSE "write"]
  <2>1. CASE Goto(h, t) /\ ~NameInUse(Excluded(c), Candidates(c))
    <3>1. t.pc \in {"insert", "write"} /\ t.call = c
      BY <1>1 DEF Task
    <3>2. task'[h] = t /\ UNCHANGED board
      BY <1>1, <1>6, <2>1, Jumps DEF CheckNames
    <3>3. ~NameInUse(Excluded(c), Candidates(c))'
      BY <2>1, <3>2, SameNames DEF Live, board
    <3> HIDE DEF t
    <3> QED
      BY <3>1, <3>2, <3>3 DEF FreshCheck, Fresh
  <2> QED
    BY <1>3, <1>6, <2>1 DEF CheckNames
<1>7. CASE InsertRequest(h)
  <2> DEFINE r == NewRow(c)
             todo == IF IsMod(c) THEN Ids(c.dests) ELSE {}
  <2>0. task[h].pc = "insert"
    BY <1>7, Zenon DEF InsertRequest
  <2>1. \/ Answer(h, WriteResult(h, r, None))
        \/ \E i \in ReqIds :
             /\ phase[i] = "unborn" /\ phase' = [phase EXCEPT ![i] = "open"]
             /\ row' = [row EXCEPT ![i] = r]
             /\ Goto(h, [task[h] EXCEPT !.pc = "link", !.mine = {i}, !.todo = todo])
    BY <1>7, Zenon DEF InsertRequest
  <2> HIDE DEF r, todo
  <2>2. ASSUME NEW i \in ReqIds, phase[i] = "unborn", phase' = [phase EXCEPT ![i] = "open"],
               row' = [row EXCEPT ![i] = r],
               Goto(h, [task[h] EXCEPT !.pc = "link", !.mine = {i}, !.todo = todo])
        PROVE  Fresh
    <3>0. task'[h] = [task[h] EXCEPT !.pc = "link", !.mine = {i}, !.todo = todo]
      BY <1>1, <2>2, Jumps
    <3>1. task'[h].pc = "link" /\ task'[h].call = c
      BY <1>1, <3>0 DEF Task
    <3>2. Live' = Live /\ \A j \in Live : row'[j] = row[j]
      BY <1>1, <2>2 DEF Live, TypeOK
    <3>3. ~NameInUse(Excluded(c), Candidates(c))'
      <4>1. ~NameInUse(Excluded(c), Candidates(c))
        BY <2>0 DEF FreshCheck
      <4> QED
        BY <3>1, <3>2, <4>1, SameNames
    <3> QED
      BY <3>1, <3>3 DEF FreshCheck, Fresh
  <2> QED
    BY <1>3, <2>1, <2>2, Zenon
<1>8. CASE LinkDestination(h)
  <2>1. PICK d : \/ /\ Goto(h, [task[h] EXCEPT !.todo = task[h].todo \ {d}])
                    /\ UNCHANGED <<phase, row, destPhase>>
                 \/ Answer(h, "invalid")
    BY <1>8 DEF LinkDestination
  <2>2. CASE /\ Goto(h, [task[h] EXCEPT !.todo = task[h].todo \ {d}])
             /\ UNCHANGED <<phase, row, destPhase>>
    <3>1. task'[h].pc = "link" /\ task'[h].call = c /\ task[h].pc = "link"
      BY <1>1, <1>8, <2>2, Jumps DEF LinkDestination, Task
    <3>2. ~NameInUse(Excluded(c), Candidates(c))'
      BY <2>2, <3>1, SameNames DEF FreshCheck, Live
    <3> QED
      BY <3>1, <3>2 DEF FreshCheck, Fresh
  <2> QED
    BY <1>3, <2>1, <2>2
<1>9. CASE Prefilter(h)
  <2> DEFINE free == {k \in task[h].left : Key(c.names[k]) \notin Taken}
             t == [task[h] EXCEPT !.pc = "bulk", !.left = free]
  <2>1. task[h].mine = {} /\ UNCHANGED board /\ (Answer(h, "ok") \/ Goto(h, t))
    BY <1>1, <1>9 DEF Prefilter, MineFits
  <2>2. CASE Goto(h, t)
    <3>1. t.pc = "bulk" /\ t.left = free /\ t.mine = {} /\ t.call = c
      BY <1>1, <2>1 DEF Task
    <3>2. task'[h] = t
      BY <1>1, <2>2, Jumps
    <3>3. Taken' = Taken
      BY <2>1, SameNames DEF Live, board
    <3> HIDE DEF t
    <3>4. /\ task'[h].pc = "bulk" /\ task'[h].mine = {}
          /\ \A k \in task'[h].left : Key(task'[h].call.names[k]) \notin Taken'
      BY <3>1, <3>2, <3>3
    <3> QED
      BY <3>4 DEF FreshCheck, Fresh, Key
  <2> QED
    BY <1>3, <2>1, <2>2
<1>10. CASE BulkInsert(h)
  <2> DEFINE names == c.names
             done(k) == [task[h] EXCEPT !.left = task[h].left \ {k}]
  <2>1. task[h].pc = "bulk"
    BY <1>10, Zenon DEF BulkInsert
  <2>2. PICK k \in NextPosition(h) :
             \/ /\ Goto(h, [task[h] EXCEPT !.left = @ \ {k}])
                /\ UNCHANGED <<phase, row>>
             \/ \E i \in ReqIds :
                  /\ phase[i] = "unborn" /\ phase' = [phase EXCEPT ![i] = "open"]
                  /\ row' = [row EXCEPT ![i] = BatchRow(names[k])]
                  /\ Goto(h, [[task[h] EXCEPT !.left = @ \ {k}] EXCEPT !.mine = @ \cup {i}])
    BY <1>10, Zenon DEF BulkInsert
  <2> DEFINE r == BatchRow(names[k])
             t == done(k)
  <2>3. t.left = task[h].left \ {k} /\ t.call = c /\ t.pc = "bulk" /\ t.mine = task[h].mine
        /\ t \in Task
    BY <1>1, <2>1 DEF Task
  <2>4. r.name = names[k] /\ k \in task[h].left
    BY DEF BatchRow, NoRow, NextPosition
  <2>5. \/ Goto(h, t) /\ UNCHANGED <<phase, row>>
        \/ \E i \in ReqIds :
             /\ phase[i] = "unborn" /\ phase' = [phase EXCEPT ![i] = "open"]
             /\ row' = [row EXCEPT ![i] = r]
             /\ Goto(h, [t EXCEPT !.mine = @ \cup {i}])
    BY <2>2, Zenon
  <2>6. /\ \A j \in task[h].left : Key(names[j]) \notin Taken
        /\ \A i \in task[h].mine : Key(row[i].name) \notin Taken
    BY <2>1 DEF FreshCheck
  <2> HIDE DEF t, r
  <2>7. CASE Goto(h, t) /\ UNCHANGED <<phase, row>>
    <3>1. task'[h] = t
      BY <1>1, <2>7, Jumps
    <3>2. Taken' = Taken
      BY <2>7, SameNames DEF Live
    <3>3. /\ \A j \in task'[h].left : Key(task'[h].call.names[j]) \notin Taken'
          /\ \A i \in task'[h].mine : Key(row'[i].name) \notin Taken'
      BY <2>3, <2>6, <2>7, <3>1, <3>2
    <3> QED
      BY <2>3, <3>1, <3>3 DEF FreshCheck, Fresh, Key
  <2>8. ASSUME NEW i \in ReqIds, phase[i] = "unborn", phase' = [phase EXCEPT ![i] = "open"],
               row' = [row EXCEPT ![i] = r], Goto(h, [t EXCEPT !.mine = @ \cup {i}])
        PROVE  Fresh
    <3>1. /\ task'[h].left = t.left /\ task'[h].call = c /\ task'[h].pc = "bulk"
          /\ task'[h].mine = task[h].mine \cup {i}
      BY <1>1, <2>3, <2>8, Jumps DEF Task
    <3>2. Live' = Live /\ \A j \in Live : row'[j] = row[j]
      BY <1>1, <2>8 DEF Live, TypeOK
    <3>3. Taken' = Taken
      BY <3>2, SameNames
    <3>4. \A j \in task'[h].mine : Key(row'[j].name) \notin Taken'
      BY <1>1, <2>4, <2>6, <2>8, <3>1, <3>3 DEF TypeOK, Task
    <3>5. \A j \in task'[h].left : Key(task'[h].call.names[j]) \notin Taken'
      BY <2>3, <2>6, <3>1, <3>3
    <3> QED
      BY <3>1, <3>4, <3>5 DEF FreshCheck, Fresh, Key
  <2> QED
    BY <2>5, <2>7, <2>8, Zenon
<1>11. CASE \/ LoadForEdit(h) \/ LoadForRemove(h) \/ UpdateRequest(h)
            \/ AttachSelected(h) \/ TurnToDetach(h) \/ DetachUnselected(h)
  <2>1. PICK t : Goto(h, t) /\ t.pc \notin {"insert", "write", "link", "bulk"}
    <3>1. \A a : Idle(a).pc = "idle"
      BY DEF Idle
    <3>2. CASE LoadForEdit(h) \/ LoadForRemove(h)
      <4>1. [task[h] EXCEPT !.pc = "check", !.seen = LinksOf(c.id)].pc = "check"
            /\ [task[h] EXCEPT !.pc = "remove", !.seen = LinksOf(c.id)].pc = "remove"
        BY <1>1 DEF Task
      <4> QED
        BY <3>1, <3>2, <4>1 DEF LoadForEdit, LoadForRemove, Answer
    <3>3. CASE UpdateRequest(h)
      <4> DEFINE next == [task[h] EXCEPT !.pc = IF c.op = "edit" THEN "attach" ELSE "reread",
                                  !.todo = IF c.op = "edit"
                                           THEN (c.dests \ {Malformed}) \ task[h].seen
                                           ELSE {}]
      <4>1. next.pc \in {"attach", "reread"}
        BY <1>1 DEF Task
      <4>2. Goto(h, next) \/ \E a : Answer(h, a)
        BY <3>3 DEF UpdateRequest
      <4> QED
        BY <3>1, <4>1, <4>2 DEF Answer
    <3>4. CASE AttachSelected(h) \/ DetachUnselected(h)
      <4>1. PICK d : Goto(h, [task[h] EXCEPT !.todo = task[h].todo \ {d}])
                       \/ Answer(h, "error") \/ Answer(h, "ok")
        BY <3>4 DEF AttachSelected, DetachUnselected
      <4>2. [task[h] EXCEPT !.todo = task[h].todo \ {d}].pc \in {"attach", "detach"}
        BY <1>1, <3>4 DEF AttachSelected, DetachUnselected, Task
      <4> QED
        BY <3>1, <4>1, <4>2 DEF Answer
    <3>5. CASE TurnToDetach(h)
      <4> DEFINE t == [task[h] EXCEPT !.pc = "detach",
                         !.todo = IF c.dests = {} THEN {} ELSE task[h].seen \ c.dests]
      <4>1. t.pc = "detach"
        BY <1>1 DEF Task
      <4> QED
        BY <3>5, <4>1 DEF TurnToDetach
    <3> QED
      BY <1>11, <3>2, <3>3, <3>4, <3>5
  <2> QED
    BY <1>1, <1>2, <2>1, Jumps
<1> QED
  BY <1>4, <1>5, <1>6, <1>7, <1>8, <1>9, <1>10, <1>11 DEF Arrives

LEMMA SerialNames ==
  ASSUME OneAtATime,
         CallsInv, CrossUnique, \A h \in Handlers : FreshCheck(h), [Next]_vars
  PROVE  CrossUnique' /\ \A h \in Handlers : FreshCheck(h)'
<1>1. CrossUnique'
  <2>1. SUFFICES ASSUME ~CrossUnique' PROVE FALSE
    OBVIOUS
  <2>2. PICK h \in Handlers : StaleCheck(h)
    BY <2>1, CollisionStep
  <2> QED
    BY <2>2, FreshIsNotStale
<1>2. ASSUME NEW h \in Handlers PROVE FreshCheck(h)'
  <2>1. CASE UNCHANGED vars
    BY <2>1, SameNames DEF vars, FreshCheck, NameInUse, Taken, Live, Keys, KeysOf, Key
  <2>2. CASE Next
    <3>1. PICK g \in Handlers : HandlerStep(g)
      BY <2>2, NextIsHandlerStep
    <3> QED
      BY <3>1, FreshStep DEF OneAtATime
  <2> QED
    BY <2>1, <2>2
<1> QED
  BY <1>1, <1>2

(* Served one at a time, the calls never let a name of one request be a    *)
(* name or the alternate name of another: the handlers' checks cover what  *)
(* the unique indexes of migration 008 leave to them.                      *)
THEOREM SerialCrossUnique ==
  ASSUME OneAtATime
  PROVE  Spec => []CrossUnique
<1> DEFINE Inv == CrossUnique /\ \A h \in Handlers : FreshCheck(h)
<1>1. Init => Inv
  BY DEF Init, CrossUnique, Live, FreshCheck, Idle
<1>2. CallsInv /\ Inv /\ [Next]_vars => Inv'
  BY SerialNames
<1> QED
  BY <1>1, <1>2, CallsInductive, PTL DEF Spec

(* What an edit that selects something leaves linked, by what it has read. *)
Chosen(c, seen) == Ids(c.dests) \ (seen \ c.dests)

(* What the handler has read of the links of its request, and done to them.*)
LinksSeen(h) ==
  LET c == task[h].call
      seen == task[h].seen
      now == LinksOf(c.id) IN
  /\ task[h].pc = "remove" => now = seen /\ ~(Cardinality(now) <= 1)
  /\ task[h].pc \in {"check", "write"} /\ c.op = "edit" => now = seen
  /\ task[h].pc = "attach" => now \cup Ids(task[h].todo) = seen \cup Ids(c.dests \ seen)
  /\ task[h].pc = "detach" =>
       /\ now \ task[h].todo = IF c.dests = {} THEN seen ELSE Chosen(c, seen)
       /\ c.dests = {} => task[h].todo = {}

LEMMA LinksSeenStep ==
  ASSUME CallsInv, NEW h \in Handlers, HandlerStep(h), LinksSeen(h)
  PROVE  LinksSeen(h)'
<1> DEFINE c == task[h].call
           seen == task[h].seen
           Seen == LinksSeen(h)'
           Away == task'[h].pc \notin {"check", "write", "remove", "attach", "detach"}
<1> HIDE DEF Seen
<1> SUFFICES Seen
  BY DEF Seen
<1>1. TypeOK /\ task[h] \in Task /\ OpFits(task[h])
  BY DEF CallsInv, IInv, TypeOK
<1>2. ASSUME Away PROVE Seen
  BY <1>2 DEF LinksSeen, Seen
<1>3. ASSUME NEW a, Answer(h, a) PROVE Seen
  BY <1>1, <1>2, <1>3, Answers
<1>4. CASE ~Arrives(h)
  BY <1>1, <1>2, <1>4, Arrivals
<1>5. ASSUME NEW d \in Calls, NEW pc \in {"check", "write", "prefilter"}, NEW left,
             Goto(h, BeginBatch(d, pc, left)), FirstStep(d, pc), UNCHANGED board
      PROVE  Seen
  <2>1. task'[h].pc = pc /\ task'[h].call = d
    BY <1>1, <1>5, Jumps DEF BeginBatch
  <2>2. d.op # "edit"
    BY <1>5 DEF FirstStep, CreateOps, BatchOps
  <2> QED
    BY <2>1, <2>2 DEF LinksSeen, Seen
<1>6. CASE CheckNames(h)
  <2> DEFINE t == [task[h] EXCEPT !.pc = IF c.op \in CreateOps THEN "insert" ELSE "write"]
  <2>1. UNCHANGED board /\ task[h].pc = "check"
    BY <1>6 DEF CheckNames
  <2>2. t.pc \in {"insert", "write"} /\ t.call = c /\ t.seen = task[h].seen
    BY <1>1 DEF Task
  <2>3. CASE Goto(h, t)
    <3>1. task'[h] = t
      BY <1>1, <2>3, Jumps
    <3> HIDE DEF t
    <3> QED
      BY <2>1, <2>2, <3>1 DEF LinksSeen, LinksOf, board, Seen
  <2> QED
    BY <1>3, <1>6, <2>3 DEF CheckNames
<1>7. CASE InsertRequest(h)
  <2>1. \/ Answer(h, WriteResult(h, NewRow(c), None))
        \/ \E i \in ReqIds : Goto(h, [task[h] EXCEPT !.pc = "link", !.mine = {i},
                                        !.todo = IF IsMod(c) THEN Ids(c.dests) ELSE {}])
    BY <1>7, Zenon DEF InsertRequest
  <2>2. ASSUME NEW i \in ReqIds, NEW T,
               Goto(h, [task[h] EXCEPT !.pc = "link", !.mine = {i}, !.todo = T])
        PROVE  Seen
    <3>1. task'[h] = [task[h] EXCEPT !.pc = "link", !.mine = {i}, !.todo = T]
      BY <1>1, <2>2, Jumps
    <3>2. task'[h].pc = "link"
      BY <1>1, <3>1 DEF Task
    <3> QED
      BY <1>2, <3>2
  <2> QED
    BY <1>3, <2>1, <2>2, Zenon
<1>8. CASE LinkDestination(h)
  <2>1. PICK d : \/ Goto(h, [task[h] EXCEPT !.todo = task[h].todo \ {d}])
                 \/ Answer(h, "invalid")
    BY <1>8 DEF LinkDestination
  <2>2. [task[h] EXCEPT !.todo = task[h].todo \ {d}].pc = "link"
    BY <1>1, <1>8 DEF LinkDestination, Task
  <2> QED
    BY <1>1, <1>2, <1>3, <2>1, <2>2, Jumps
<1>9. CASE Prefilter(h)
  <2> DEFINE free == {k \in task[h].left : Key(c.names[k]) \notin Taken}
             t == [task[h] EXCEPT !.pc = "bulk", !.left = free]
  <2>1. t.pc = "bulk"
    BY <1>1 DEF Task
  <2>2. Answer(h, "ok") \/ Goto(h, t)
    BY <1>9 DEF Prefilter
  <2> QED
    BY <1>1, <1>2, <1>3, <2>1, <2>2, Jumps
<1>10. CASE BulkInsert(h)
  <2>1. PICK k \in NextPosition(h) :
             \/ Goto(h, [task[h] EXCEPT !.left = @ \ {k}])
             \/ \E i \in ReqIds :
                  Goto(h, [[task[h] EXCEPT !.left = @ \ {k}] EXCEPT !.mine = @ \cup {i}])
    BY <1>10, Zenon DEF BulkInsert
  <2>2. task[h].pc = "bulk"
    BY <1>10, Zenon DEF BulkInsert
  <2> DEFINE t == [task[h] EXCEPT !.left = task[h].left \ {k}]
  <2>3. t.pc = "bulk" /\ t \in Task
    BY <1>1, <2>2 DEF Task
  <2>4. Goto(h, t) \/ \E i \in ReqIds : Goto(h, [t EXCEPT !.mine = @ \cup {i}])
    BY <2>1, Zenon
  <2> HIDE DEF t
  <2>5. \A i : [t EXCEPT !.mine = @ \cup {i}].pc = "bulk"
    BY <2>3 DEF Task
  <2> QED
    BY <1>1, <1>2, <2>3, <2>4, <2>5, Jumps
<1>11. CASE LoadForEdit(h)
  <2> DEFINE t == [task[h] EXCEPT !.pc = "check", !.seen = LinksOf(c.id)]
  <2>1. UNCHANGED board /\ (Goto(h, t) \/ Answer(h, "invalid"))
    BY <1>11 DEF LoadForEdit
  <2>2. t.pc = "check" /\ t.call = c /\ t.seen = LinksOf(c.id)
    BY <1>1 DEF Task
  <2>3. CASE Goto(h, t)
    <3>1. task'[h] = t
      BY <1>1, <2>3, Jumps
    <3> HIDE DEF t
    <3> QED
      BY <2>1, <2>2, <3>1 DEF LinksSeen, LinksOf, board, Seen
  <2> QED
    BY <1>3, <2>1, <2>3
<1>12. CASE LoadForRemove(h)
  <2> DEFINE t == [task[h] EXCEPT !.pc = "remove", !.seen = LinksOf(c.id)]
  <2>1. /\ UNCHANGED board
        /\ \/ Goto(h, t) /\ ~(Cardinality(LinksOf(c.id)) <= 1)
           \/ Answer(h, "invalid") \/ Answer(h, "notFound")
    BY <1>12 DEF LoadForRemove
  <2>2. t.pc = "remove" /\ t.call = c /\ t.seen = LinksOf(c.id)
    BY <1>1 DEF Task
  <2>3. CASE Goto(h, t) /\ ~(Cardinality(LinksOf(c.id)) <= 1)
    <3>1. task'[h] = t
      BY <1>1, <2>3, Jumps
    <3>2. LinksOf(c.id)' = LinksOf(c.id)
      BY <2>1, <2>2, <3>1 DEF LinksOf, board
    <3> HIDE DEF t
    <3> QED
      BY <2>2, <2>3, <3>1, <3>2 DEF LinksSeen, Seen
  <2> QED
    BY <1>3, <2>1, <2>3
<1>13. CASE UpdateRequest(h)
  <2> DEFINE todo == IF c.op = "edit" THEN (c.dests \ {Malformed}) \ seen ELSE {}
             t == [task[h] EXCEPT !.pc = IF c.op = "edit" THEN "attach" ELSE "reread",
                                  !.todo = todo]
  <2>1. task[h].pc = "write" /\ UNCHANGED links /\ (Goto(h, t) \/ \E a : Answer(h, a))
    BY <1>13 DEF UpdateRequest
  <2>2. /\ t.pc = IF c.op = "edit" THEN "attach" ELSE "reread"
        /\ t.call = c /\ t.seen = task[h].seen /\ t.todo = todo
    BY <1>1 DEF Task
  <2>3. CASE Goto(h, t)
    <3>1. task'[h] = t
      BY <1>1, <2>3, Jumps
    <3> HIDE DEF t
    <3>2. LinksOf(c.id)' = LinksOf(c.id)
      BY <2>1, <2>2, <3>1 DEF LinksOf
    <3>3. CASE c.op = "edit"
      <4>1. LinksOf(c.id) = task[h].seen
        BY <2>1, <3>3 DEF LinksSeen
      <4>2. task'[h].pc = "attach" /\ task'[h].todo = (c.dests \ {Malformed}) \ seen
        BY <2>2, <3>1, <3>3
      <4> HIDE DEF todo
      <4>3. Ids((c.dests \ {Malformed}) \ seen) = Ids(c.dests \ seen)
        BY DEF Ids
      <4>4. (LinksOf(task[h].call.id) \cup Ids(task[h].todo))' = seen \cup Ids(c.dests \ seen)
        BY <2>2, <3>1, <3>2, <4>1, <4>2, <4>3 DEF Ids, Parse
      <4> QED
        BY <2>2, <3>1, <4>2, <4>4 DEF LinksSeen, Seen
    <3>4. CASE c.op # "edit"
      BY <1>2, <2>2, <3>1, <3>4
    <3> QED
      BY <3>3, <3>4
  <2> QED
    BY <1>3, <2>1, <2>3
<1>14. CASE AttachSelected(h)
  <2>1. PICK s \in task[h].todo :
          \/ /\ Linkable(c.id, Parse(s)) /\ links' = links \cup {<<c.id, Parse(s)>>}
             /\ Goto(h, [task[h] EXCEPT !.todo = task[h].todo \ {s}])
          \/ Answer(h, "error")
    BY <1>14 DEF AttachSelected
  <2> DEFINE d == Parse(s)
             t == [task[h] EXCEPT !.todo = task[h].todo \ {s}]
  <2>2. /\ t.pc = "attach" /\ task[h].pc = "attach" /\ t.call = c /\ t.seen = seen
        /\ t.todo = task[h].todo \ {s} /\ s \in IdStrings
    BY <1>1, <1>14 DEF AttachSelected, Task
  <2>3. CASE Linkable(c.id, d) /\ links' = links \cup {<<c.id, d>>} /\ Goto(h, t)
    <3>1. task'[h] = t
      BY <1>1, <2>3, Jumps
    <3> HIDE DEF t
    <3>2. Ids({s}) = {d} /\ d \in Dests
      BY <2>2, <2>3, OneId DEF Linkable
    <3> HIDE DEF d
    <3>3. LinksOf(c.id)' = LinksOf(c.id) \cup {d}
      BY <2>2, <2>3, <3>1, <3>2 DEF LinksOf
    <3>4. LinksOf(c.id) \cup Ids(task[h].todo) = seen \cup Ids(c.dests \ seen)
      BY <2>2 DEF LinksSeen
    <3>5. Ids(task[h].todo) = {d} \cup Ids(task[h].todo \ {s})
      <4>1. task[h].todo = {s} \cup (task[h].todo \ {s})
        OBVIOUS
      <4> QED
        BY <3>2, <4>1, IdsOfUnion
    <3>6. (LinksOf(task[h].call.id) \cup Ids(task[h].todo))' = seen \cup Ids(c.dests \ seen)
      <4>1. Ids(task[h].todo)' = Ids(task[h].todo \ {s})
        BY <2>2, <3>1 DEF Ids, Parse
      <4> QED
        BY <2>2, <3>1, <3>3, <3>4, <3>5, <4>1
    <3> QED
      BY <2>2, <3>1, <3>6 DEF LinksSeen, Seen
  <2> QED
    BY <1>3, <2>1, <2>3
<1>15. CASE TurnToDetach(h)
  <2> DEFINE todo == IF c.dests = {} THEN {} ELSE task[h].seen \ c.dests
             t == [task[h] EXCEPT !.pc = "detach", !.todo = todo]
  <2>1. task[h].pc = "attach" /\ task[h].todo = {} /\ UNCHANGED links /\ Goto(h, t)
    BY <1>15 DEF TurnToDetach, board
  <2>2. t.pc = "detach" /\ t.call = c /\ t.seen = task[h].seen /\ t.todo = todo
    BY <1>1 DEF Task
  <2>3. task'[h] = t
    BY <1>1, <2>1, Jumps
  <2> HIDE DEF t
  <2>4. LinksOf(c.id)' = LinksOf(c.id)
    BY <2>1, <2>2, <2>3 DEF LinksOf
  <2>5. LinksOf(c.id) = seen \cup Ids(c.dests \ seen)
    <3>1. Ids(task[h].todo) = {}
      BY <2>1 DEF Ids
    <3> QED
      BY <2>1, <3>1 DEF LinksSeen
  <2>6. Ids(c.dests) = (c.dests \cap seen) \cup Ids(c.dests \ seen)
    <3>1. Ids(c.dests \cap seen) = c.dests \cap seen
      BY <1>1, IdsOfDests DEF Task
    <3>2. c.dests = (c.dests \cap seen) \cup (c.dests \ seen)
      OBVIOUS
    <3> QED
      BY <3>1, <3>2, IdsOfUnion
  <2>7. LinksOf(c.id) \ todo = IF c.dests = {} THEN seen ELSE Chosen(c, seen)
    <3>1. Ids({}) = {}
      BY DEF Ids
    <3> QED
      BY <2>5, <2>6, <3>1 DEF Chosen
  <2>8. c.dests = {} => todo = {}
    OBVIOUS
  <2> HIDE DEF todo
  <2>9. (LinksOf(task[h].call.id) \ task[h].todo)'
          = IF c.dests = {} THEN seen ELSE Chosen(c, seen)
    BY <2>2, <2>3, <2>4, <2>7
  <2>10. task'[h].call = c /\ task'[h].seen = seen /\ task'[h].pc = "detach"
         /\ task'[h].todo = todo
    BY <2>2, <2>3
  <2>11. Chosen(task[h].call, task[h].seen)' = Chosen(c, seen)
    BY <2>10 DEF Chosen, Ids, Parse
  <2> QED
    BY <2>8, <2>9, <2>10, <2>11 DEF LinksSeen, Seen
<1>16. CASE DetachUnselected(h)
  <2>1. \/ \E d \in task[h].todo :
             /\ links' = links \ {<<c.id, d>>}
             /\ Goto(h, [task[h] EXCEPT !.todo = task[h].todo \ {d}])
        \/ Answer(h, "ok")
    BY <1>16 DEF DetachUnselected
  <2>2. ASSUME NEW d \in task[h].todo, links' = links \ {<<c.id, d>>},
               Goto(h, [task[h] EXCEPT !.todo = task[h].todo \ {d}])
        PROVE  Seen
    <3> DEFINE t == [task[h] EXCEPT !.todo = task[h].todo \ {d}]
    <3>1. /\ t.pc = "detach" /\ task[h].pc = "detach" /\ t.call = c
          /\ t.seen = seen /\ t.todo = task[h].todo \ {d}
      BY <1>1, <1>16 DEF DetachUnselected, Task
    <3>2. task'[h] = t
      BY <1>1, <2>2, Jumps
    <3> HIDE DEF t
    <3>3. LinksOf(c.id)' = LinksOf(c.id) \ {d}
      BY <2>2, <3>1, <3>2 DEF LinksOf
    <3>4. LinksOf(c.id) \ task[h].todo = IF c.dests = {} THEN seen ELSE Chosen(c, seen)
      BY <3>1 DEF LinksSeen
    <3>5. c.dests # {}
      BY <2>2, <3>1 DEF LinksSeen
    <3>6. (LinksOf(task[h].call.id) \ task[h].todo)' = Chosen(c, seen)
      BY <2>2, <3>1, <3>2, <3>3, <3>4, <3>5
    <3>7. Chosen(task[h].call, task[h].seen)' = Chosen(c, seen)
      BY <3>1, <3>2 DEF Chosen, Ids, Parse
    <3> QED
      BY <3>1, <3>2, <3>5, <3>6, <3>7 DEF LinksSeen, Seen
  <2> QED
    BY <1>3, <2>1, <2>2
<1> QED
  BY <1>4, <1>5, <1>6, <1>7, <1>8, <1>9, <1>10, <1>11, <1>12, <1>13, <1>14, <1>15, <1>16
  DEF Arrives

LEMMA SerialLinks ==
  ASSUME OneAtATime, CallsInv, \A h \in Handlers : LinksSeen(h), [Next]_vars
  PROVE  \A h \in Handlers : LinksSeen(h)'
<1> SUFFICES ASSUME NEW h \in Handlers PROVE LinksSeen(h)'
  OBVIOUS
<1>1. CASE UNCHANGED vars
  BY <1>1 DEF vars, LinksSeen, LinksOf
<1>2. CASE Next
  <2>1. PICK g \in Handlers : HandlerStep(g)
    BY <1>2, NextIsHandlerStep
  <2> QED
    BY <2>1, LinksSeenStep DEF OneAtATime
<1> QED
  BY <1>1, <1>2

LEMMA SerialLinksInv ==
  ASSUME OneAtATime
  PROVE  Spec => [](\A h \in Handlers : LinksSeen(h))
<1> DEFINE Inv == \A h \in Handlers : LinksSeen(h)
<1>1. Init => Inv
  BY DEF Init, LinksSeen, Idle
<1>2. CallsInv /\ Inv /\ [Next]_vars => Inv'
  BY SerialLinks
<1> QED
  BY <1>1, <1>2, CallsInductive, PTL DEF Spec

LEMMA KeepOneStep ==
  ASSUME CallsInv, \A h \in Handlers : LinksSeen(h), [Next]_vars, destPhase' = destPhase,
         NEW i \in Live, i \in Live', LinksOf(i) # {}, LinksOf(i)' = {}
  PROVE  \E h \in Handlers :
           LET c == task[h].call IN
           /\ c.op = "edit" /\ c.id = i
           /\ c.dests # {} /\ c.dests \subseteq Variants \cup {Malformed}
           /\ Ids(c.dests) \subseteq task[h].seen
<1>1. TypeOK
  BY DEF CallsInv, IInv
<1>2. ~UNCHANGED vars
  BY DEF vars, LinksOf
<1>3. PICK h \in Handlers : HandlerStep(h)
  BY <1>2, NextIsHandlerStep
<1> DEFINE c == task[h].call
<1>4. Effect(h) /\ OpFits(task[h]) /\ MineFits(task[h]) /\ LinksSeen(h)
  BY <1>3, EffectOf DEF CallsInv, IInv
<1>5. PICK e \in Dests : <<i, e>> \in links /\ <<i, e>> \notin links'
  BY DEF LinksOf
<1>6. ~UNCHANGED links /\ ~(links \subseteq links')
  BY <1>5
<1>7. CASE Undoes(h)
  BY <1>5, <1>7 DEF Undoes, Rollback, Open, Live
<1>8. CASE Withdraws(h)
  BY <1>1, <1>5, <1>8 DEF Withdraws, Live, TypeOK
<1>9. CASE Closes(h)
  BY <1>1, <1>9 DEF Closes, TypeOK
<1>10. CASE Unlinks(h)
  <2>1. PICK d : /\ \/ task[h].pc = "remove" /\ Ids(c.dests) = {d}
                    \/ task[h].pc = "detach" /\ d \in task[h].todo
                 /\ links' = links \ {<<c.id, d>>}
    BY <1>10 DEF Unlinks
  <2>2. c.id = i /\ d = e
    BY <1>5, <2>1
  <2>3. LinksOf(i) = {d}
    BY <1>5, <2>1, <2>2 DEF LinksOf
  <2>4. CASE task[h].pc = "remove"
    <3>1. Cardinality({d}) = 1
      BY FS_Singleton
    <3> QED
      BY <1>4, <2>2, <2>3, <2>4, <3>1 DEF LinksSeen
  <2>5. CASE task[h].pc = "detach" /\ d \in task[h].todo
    <3>1. c.dests # {} /\ {d} \ task[h].todo = Chosen(c, task[h].seen)
      BY <1>4, <2>2, <2>3, <2>5 DEF LinksSeen
    <3>2. Ids(c.dests) \subseteq task[h].seen /\ Ids(c.dests) \cap c.dests = {}
      BY <2>5, <3>1 DEF Chosen
    <3>3. c.dests \subseteq IdStrings
      BY <1>1 DEF TypeOK, Task, CallType
    <3>4. ASSUME NEW s \in c.dests, s \in Dests PROVE FALSE
      BY <3>2, <3>4, CanonicalIds DEF Ids
    <3>5. c.dests \subseteq Variants \cup {Malformed}
      BY <3>3, <3>4 DEF IdStrings
    <3> QED
      BY <1>4, <2>2, <2>5, <3>1, <3>2, <3>5 DEF OpFits
  <2> QED
    BY <2>1, <2>4, <2>5
<1>11. \/ links \subseteq links' \/ Undoes(h) \/ Withdraws(h) \/ Closes(h) \/ Unlinks(h)
  BY <1>4 DEF Effect, Writes, Reads, Inserts, Commits, Publish, Revises, LinksOwn, Links,
              Opens, board
<1> QED
  BY <1>6, <1>7, <1>8, <1>9, <1>10, <1>11

(* Served one at a time, the calls keep the last destination of a request, *)
(* except for an edit form with values but no canonical id among them: a   *)
(* value that is no id adds nothing, another spelling of an id that is     *)
(* linked neither, and what was linked is removed as not selected.         *)
THEOREM SerialKeepOne ==
  ASSUME OneAtATime
  PROVE  Spec => KeepOne
<1> DEFINE Inv == \A h \in Handlers : LinksSeen(h)
<1>1. CallsInv /\ Inv /\ [Next]_vars =>
        [destPhase' = destPhase =>
           \A i \in Live : i \in Live' /\ LinksOf(i) # {} /\ LinksOf(i)' = {} =>
             \E h \in Handlers :
               LET c == task[h].call IN
               /\ c.op = "edit" /\ c.id = i
               /\ c.dests # {} /\ c.dests \subseteq Variants \cup {Malformed}
               /\ Ids(c.dests) \subseteq task[h].seen]_vars
  BY KeepOneStep
<1>2. Spec => []Inv
  BY SerialLinksInv
<1> QED
  BY <1>1, <1>2, CallsInductive, PTL DEF Spec, KeepOne

LEMMA EditStep ==
  ASSUME CallsInv, [Next]_vars, NEW h \in Handlers, LinksSeen(h),
         task[h].call.op = "edit", task[h].pc = "detach", task'[h].reply = "ok"
  PROVE  {d \in Dests : <<task[h].call.id, d>> \in links'}
           = IF task[h].call.dests = {} THEN task[h].seen
             ELSE Ids(task[h].call.dests) \ (task[h].seen \ task[h].call.dests)
<1>1. TypeOK /\ task[h] \in Task /\ OpFits(task[h])
  BY DEF CallsInv, IInv, TypeOK
<1>2. HandlerStep(h)
  BY <1>1, StepOf DEF OpFits
<1>3. DetachUnselected(h)
  <2>1. ASSUME NEW a, Answer(h, a), a # "ok" PROVE FALSE
    BY <1>1, <2>1, Answers
  <2>2. ~Fail(h) /\ ~DeadlockAbort(h)
    BY <2>1 DEF Fail, DeadlockAbort
  <2>3. ~\E c \in Calls : Submit(h, c)
    BY SubmitGoes
  <2>4. ~InsertRequest(h) /\ ~BulkInsert(h) /\ ~DeleteServerDest(h)
    BY Zenon DEF InsertRequest, BulkInsert, DeleteServerDest
  <2>5. ~UpdateRequest(h)
    BY DEF UpdateRequest
  <2>6. PlainStep(h)
    BY <1>2, <2>2, <2>3, <2>4, <2>5 DEF HandlerStep, WaitingStep
  <2> QED
    BY <2>6 DEF PlainStep, CheckNames, LinkDestination, CommitCreate, Reread, LoadRequest,
         LoadForEdit, LoadForRemove, AttachSelected, TurnToDetach, DeleteRequest,
         AddDestination, RemoveDestination, CreateServerDest, Prefilter, CommitBatch
<1>4. task[h].todo = {} /\ UNCHANGED links
  <2>1. ASSUME NEW d, Goto(h, [task[h] EXCEPT !.todo = task[h].todo \ {d}]) PROVE FALSE
    <3>1. [task[h] EXCEPT !.todo = task[h].todo \ {d}].reply = "none"
      BY <1>1 DEF Task, OpFits
    <3> QED
      BY <1>1, <2>1, <3>1, Jumps
  <2> QED
    BY <1>3, <2>1 DEF DetachUnselected
<1>5. LinksOf(task[h].call.id) \ task[h].todo
        = IF task[h].call.dests = {} THEN task[h].seen
          ELSE Ids(task[h].call.dests) \ (task[h].seen \ task[h].call.dests)
  BY DEF LinksSeen, Chosen
<1> QED
  BY <1>4, <1>5 DEF LinksOf

(* Served one at a time, an edit that is answered with the redirect leaves *)
(* exactly the selected destinations linked, or the old ones if none was;  *)
(* but what was linked stays only if it is selected by its canonical id.   *)
THEOREM SerialEdit ==
  ASSUME OneAtATime
  PROVE  Spec => EditLandsSelection
<1> DEFINE Inv == \A h \in Handlers : LinksSeen(h)
<1>1. CallsInv /\ Inv /\ [Next]_vars =>
        [\A h \in Handlers :
           LET c == task[h].call IN
           /\ c.op = "edit" /\ task[h].pc = "detach" /\ task'[h].reply = "ok"
           /\ c.id \in Live
           => {d \in Dests : <<c.id, d>> \in links'}
                = IF c.dests = {} THEN task[h].seen
                  ELSE Ids(c.dests) \ (task[h].seen \ c.dests)]_vars
  BY EditStep
<1>2. Spec => []Inv
  BY SerialLinksInv
<1> QED
  BY <1>1, <1>2, CallsInductive, PTL DEF Spec, EditLandsSelection

-----------------------------------------------------------------------------
(* Batches.  As long as no call deletes or renames a request, a title that *)
(* the prefilter or ON CONFLICT DO NOTHING has dropped stays on the board  *)
(* until the batch commits and answers.                                    *)
TitlesStay ==
  \A c \in Calls :
    /\ c.op \notin {"delete", "edit"}
    /\ c.op = "update" => c.name = None /\ c.alt = None

OnBoard(h, k) ==
  \E j \in Live \cup task[h].mine : Key(task[h].call.names[k]) \in Keys(row[j])
Covered(h) ==
  /\ task[h].pc = "prefilter" => task[h].left = Trimmed(task[h].call.names)
  /\ task[h].pc = "bulk" =>
       \A k \in Trimmed(task[h].call.names) \ task[h].left : OnBoard(h, k)

(* Live requests stay, with their names.                                   *)
LEMMA NamesStay ==
  ASSUME TitlesStay, CallsInv, NEW h \in Handlers, HandlerStep(h)
  PROVE  Live \subseteq Live' /\ \A j \in Live : Keys(row'[j]) = Keys(row[j])
<1> DEFINE c == task[h].call
<1>1. /\ TypeOK /\ Effect(h) /\ OpFits(task[h]) /\ MineFits(task[h])
  BY EffectOf DEF CallsInv, IInv
<1>2. CASE UNCHANGED <<phase, row>>
  BY <1>2 DEF Live, Keys, KeysOf
<1>3. CASE Undoes(h)
  <2>1. Live \subseteq Live' /\ \A j \in Live : row'[j] = row[j]
    BY <1>3 DEF Undoes, Rollback, Live, Open
  <2> QED
    BY <2>1 DEF Keys, KeysOf
<1>4. CASE Inserts(h)
  <2>1. Live \subseteq Live' /\ \A j \in Live : row'[j] = row[j]
    BY <1>1, <1>4 DEF Inserts, Live, TypeOK
  <2> QED
    BY <2>1 DEF Keys, KeysOf
<1>5. CASE Commits(h)
  <2>1. Live \subseteq Live' /\ UNCHANGED row
    BY <1>5 DEF Commits, Publish, Live
  <2> QED
    BY <2>1 DEF Keys, KeysOf
<1>6. CASE Revises(h)
  <2>1. c.name = None /\ c.alt = None
    BY <1>1, <1>6 DEF Revises, OpFits, TitlesStay
  <2>2. Edited(row[c.id], c).name = row[c.id].name /\ Edited(row[c.id], c).alt = row[c.id].alt
    BY <2>1, SpecialValues DEF Edited
  <2>3. /\ Live' = Live /\ c.id \in Live
        /\ row' = [row EXCEPT ![c.id] = Edited(row[c.id], c)]
    BY <1>6 DEF Revises, Live
  <2>4. \A j \in Live : row'[j].name = row[j].name /\ row'[j].alt = row[j].alt
    BY <1>1, <2>2, <2>3 DEF TypeOK, Live
  <2> QED
    BY <2>3, <2>4 DEF Keys, KeysOf
<1>7. ~Withdraws(h)
  BY <1>1 DEF Withdraws, OpFits, TitlesStay
<1>8. \/ UNCHANGED <<phase, row>> \/ Undoes(h) \/ Inserts(h) \/ Commits(h) \/ Revises(h)
  BY <1>1, <1>7 DEF Effect, Reads, Writes, LinksOwn, Links, Unlinks, Opens, Closes, board
<1> QED
  BY <1>2, <1>3, <1>4, <1>5, <1>6, <1>8

OtherArrival(h) ==
  \/ CheckNames(h) \/ InsertRequest(h) \/ LinkDestination(h) \/ LoadForEdit(h)
  \/ LoadForRemove(h) \/ UpdateRequest(h) \/ AttachSelected(h) \/ TurnToDetach(h)
  \/ DetachUnselected(h)
LEMMA OtherArrivals ==
  ASSUME TypeOK, NEW h \in Handlers, OtherArrival(h)
  PROVE  task'[h].pc \notin {"prefilter", "bulk"}
<1> DEFINE c == task[h].call
<1>1. task[h] \in Task /\ \A a : Idle(a).pc = "idle"
  BY DEF TypeOK, Idle
<1>2. PICK t : Goto(h, t) /\ t.pc \notin {"prefilter", "bulk"}
  <2>1. CASE CheckNames(h)
    <3> DEFINE t == [task[h] EXCEPT !.pc = IF c.op \in CreateOps THEN "insert" ELSE "write"]
    <3>1. t.pc \in {"insert", "write"}
      BY <1>1 DEF Task
    <3>2. Goto(h, t) \/ \E a : Answer(h, a)
      BY <2>1 DEF CheckNames
    <3> QED
      BY <1>1, <3>1, <3>2 DEF Answer
  <2>2. CASE InsertRequest(h)
    <3>1. \/ Answer(h, WriteResult(h, NewRow(c), None))
          \/ \E i \in ReqIds : Goto(h, [task[h] EXCEPT !.pc = "link", !.mine = {i},
                                          !.todo = IF IsMod(c) THEN Ids(c.dests) ELSE {}])
      BY <2>2, Zenon DEF InsertRequest
    <3> DEFINE todo == IF IsMod(c) THEN Ids(c.dests) ELSE {}
               t(i) == [task[h] EXCEPT !.pc = "link", !.mine = {i}, !.todo = todo]
    <3>2. Answer(h, WriteResult(h, NewRow(c), None)) \/ \E i : Goto(h, t(i))
      BY <3>1, Zenon
    <3> HIDE DEF todo
    <3>3. \A i : t(i).pc = "link"
      BY <1>1 DEF Task
    <3> HIDE DEF t
    <3> QED
      BY <1>1, <3>2, <3>3 DEF Answer
  <2>3. CASE LinkDestination(h) \/ AttachSelected(h) \/ DetachUnselected(h)
    <3>1. PICK d : Goto(h, [task[h] EXCEPT !.todo = task[h].todo \ {d}])
                     \/ Answer(h, "invalid") \/ Answer(h, "error") \/ Answer(h, "ok")
      BY <2>3 DEF LinkDestination, AttachSelected, DetachUnselected
    <3>2. [task[h] EXCEPT !.todo = task[h].todo \ {d}].pc \in {"link", "attach", "detach"}
      BY <1>1, <2>3 DEF LinkDestination, AttachSelected, DetachUnselected, Task
    <3> QED
      BY <1>1, <3>1, <3>2 DEF Answer
  <2>4. CASE LoadForEdit(h) \/ LoadForRemove(h)
    <3>1. /\ [task[h] EXCEPT !.pc = "check", !.seen = LinksOf(c.id)].pc = "check"
          /\ [task[h] EXCEPT !.pc = "remove", !.seen = LinksOf(c.id)].pc = "remove"
      BY <1>1 DEF Task
    <3> QED
      BY <1>1, <2>4, <3>1 DEF LoadForEdit, LoadForRemove, Answer
  <2>5. CASE UpdateRequest(h)
    <3> DEFINE next == [task[h] EXCEPT !.pc = IF c.op = "edit" THEN "attach" ELSE "reread",
                                !.todo = IF c.op = "edit"
                                         THEN (c.dests \ {Malformed}) \ task[h].seen
                                         ELSE {}]
    <3>1. next.pc \in {"attach", "reread"}
      BY <1>1 DEF Task
    <3>2. Goto(h, next) \/ \E a : Answer(h, a)
      BY <2>5 DEF UpdateRequest
    <3> QED
      BY <1>1, <3>1, <3>2 DEF Answer
  <2>6. CASE TurnToDetach(h)
    <3> DEFINE t == [task[h] EXCEPT !.pc = "detach",
                       !.todo = IF c.dests = {} THEN {} ELSE task[h].seen \ c.dests]
    <3>1. t.pc = "detach"
      BY <1>1 DEF Task
    <3> QED
      BY <2>6, <3>1 DEF TurnToDetach
  <2> QED
    BY <2>1, <2>2, <2>3, <2>4, <2>5, <2>6 DEF OtherArrival
<1> QED
  BY <1>2, Jumps

(* The names on the board at each step of a batch.                         *)
LEMMA CoveredStep ==
  ASSUME TitlesStay, CallsInv, NEW h \in Handlers, HandlerStep(h),
         NEW g \in Handlers, Covered(g)
  PROVE  Covered(g)'
<1>1. /\ TypeOK /\ task[g] \in Task /\ OpFits(task[g]) /\ CallFits(task[g])
      /\ MineFits(task[g]) /\ Inserted(task[g])
  BY DEF CallsInv, IInv, TypeOK
<1>2. Live \subseteq Live' /\ \A j \in Live : Keys(row'[j]) = Keys(row[j])
  BY NamesStay
<1>3. CASE g # h
  <2>1. task'[g] = task[g]
    BY <1>1, <1>3, StepsAlone DEF TypeOK
  <2>2. ASSUME task[g].pc = "bulk", NEW k \in Trimmed(task[g].call.names) \ task[g].left
        PROVE  OnBoard(g, k)'
    <3>1. PICK j \in Live \cup task[g].mine : Key(task[g].call.names[k]) \in Keys(row[j])
      BY <2>2 DEF Covered, OnBoard
    <3>2. CASE j \in Live
      <4>1. j \in Live' /\ Key(task[g].call.names[k]) \in Keys(row'[j])
        BY <1>2, <3>1, <3>2
      <4> QED
        BY <2>1, <4>1 DEF OnBoard, Keys, KeysOf, Key
    <3>3. CASE j \in task[g].mine
      <4>1. row'[j] = row[j]
        BY <1>3, <2>2, <3>3, OthersRows
      <4> QED
        BY <2>1, <3>1, <3>3, <4>1 DEF OnBoard, Keys, KeysOf, Key
    <3> QED
      BY <3>2, <3>3
  <2> QED
    BY <2>1, <2>2 DEF Covered
<1>4. CASE g = h
  <2> DEFINE c == task[h].call
             Cover == Covered(h)'
  <2> HIDE DEF Cover
  <2> SUFFICES Cover
    BY <1>4 DEF Cover
  <2>1. ASSUME task'[h].pc \notin {"prefilter", "bulk"} PROVE Cover
    BY <2>1 DEF Covered, Cover
  <2>2. ASSUME NEW a, Answer(h, a) PROVE Cover
    BY <1>1, <2>1, <2>2, Answers
  <2>3. CASE Prefilter(h)
    <3> DEFINE free == {k \in task[h].left : Key(c.names[k]) \notin Taken}
               t == [task[h] EXCEPT !.pc = "bulk", !.left = free]
    <3>1. task[h].pc = "prefilter" /\ UNCHANGED board /\ (Answer(h, "ok") \/ Goto(h, t))
      BY <2>3 DEF Prefilter
    <3>2. t.pc = "bulk" /\ t.call = c /\ t.left = free
      BY <1>1, <1>4 DEF Task
    <3>3. CASE Goto(h, t)
      <4>1. task'[h] = t
        BY <1>1, <3>3, Jumps
      <4> HIDE DEF t
      <4>2. ASSUME NEW k \in Trimmed(c.names) \ free PROVE OnBoard(h, k)'
        <5>1. Key(c.names[k]) \in Taken
          BY <1>4, <3>1, <4>2 DEF Covered
        <5>2. PICK j \in Live : Key(c.names[k]) \in Keys(row[j])
          BY <5>1 DEF Taken
        <5>3. j \in Live' /\ Key(c.names[k]) \in Keys(row'[j])
          BY <1>2, <5>2
        <5> QED
          BY <3>2, <4>1, <5>3 DEF OnBoard, Keys, KeysOf, Key
      <4>3. task'[h].call = c /\ task'[h].left = free /\ task'[h].pc = "bulk"
        BY <3>2, <4>1
      <4> HIDE DEF free
      <4> QED
        BY <4>2, <4>3 DEF Covered, Cover
    <3> QED
      BY <2>2, <3>1, <3>3
  <2>4. CASE BulkInsert(h)
    <3> DEFINE names == c.names
    <3>1. PICK k \in NextPosition(h) :
            \/ /\ NameTaken(h, BatchRow(names[k]), None)
               /\ Goto(h, [task[h] EXCEPT !.left = @ \ {k}])
               /\ UNCHANGED <<phase, row>>
            \/ \E i \in ReqIds :
                 /\ phase[i] = "unborn" /\ phase' = [phase EXCEPT ![i] = "open"]
                 /\ row' = [row EXCEPT ![i] = BatchRow(names[k])]
                 /\ Goto(h, [[task[h] EXCEPT !.left = @ \ {k}] EXCEPT !.mine = @ \cup {i}])
      BY <2>4, Zenon DEF BulkInsert
    <3>2. task[h].pc = "bulk"
      BY <2>4, Zenon DEF BulkInsert
    <3> DEFINE t == [task[h] EXCEPT !.left = task[h].left \ {k}]
               r == BatchRow(names[k])
    <3>3. /\ t.pc = "bulk" /\ t.call = c /\ t.left = task[h].left \ {k}
          /\ t.mine = task[h].mine /\ t \in Task
      BY <1>1, <1>4, <3>2 DEF Task
    <3>4. k \in Trimmed(names) /\ names[k] \in Titles
      <4>1. k \in Trimmed(names) /\ names \in Seq(Titles \cup {Blank})
        BY <1>1, <1>4 DEF NextPosition, CallFits, Task, CallType
      <4> QED
        BY <4>1 DEF Trimmed
    <3>5. r.name = names[k] /\ Key(names[k]) \in Keys(r)
      <4>1. r.name = names[k] /\ names[k] # None
        BY <3>4, SpecialValues DEF BatchRow, NoRow
      <4> QED
        BY <4>1 DEF Keys, KeysOf, Key
    <3>6. \/ NameTaken(h, r, None) /\ Goto(h, t) /\ UNCHANGED <<phase, row>>
          \/ \E i \in ReqIds :
               /\ phase[i] = "unborn" /\ phase' = [phase EXCEPT ![i] = "open"]
               /\ row' = [row EXCEPT ![i] = r]
               /\ Goto(h, [t EXCEPT !.mine = @ \cup {i}])
      BY <3>1, Zenon
    <3> HIDE DEF t, r
    <3>7. \A j \in task[h].mine : j \in ReqIds /\ phase[j] = "open" /\ row[j].name \in Titles
      BY <1>1, <1>4, <3>2 DEF MineFits, TypeOK, Open
    <3>8. ASSUME NEW m \in Trimmed(names) \ (task[h].left \ {k}), m # k
          PROVE  OnBoard(h, m)
      BY <1>4, <3>2, <3>8 DEF Covered
    <3>9. CASE NameTaken(h, r, None) /\ Goto(h, t) /\ UNCHANGED <<phase, row>>
      <4>1. task'[h] = t
        BY <1>1, <3>9, Jumps
      <4>2. OnBoard(h, k)
        <5>1. PICK j \in Live \cup task[h].mine : Key(row[j].name) = Key(names[k])
          BY <3>5, <3>9 DEF NameTaken, SameName
        <5>2. row[j].name \in Titles
          BY <1>1, <3>7 DEF TypeOK, Live
        <5>3. Key(names[k]) \in Keys(row[j])
          BY <5>1, <5>2, SpecialValues DEF Keys, KeysOf, Key
        <5> QED
          BY <5>3 DEF OnBoard
      <4>3. \A m \in Trimmed(names) \ (task[h].left \ {k}) : OnBoard(h, m)
        BY <3>8, <4>2
      <4>4. /\ task'[h].call = c /\ task'[h].mine = task[h].mine
            /\ task'[h].left = task[h].left \ {k}
        BY <3>3, <4>1
      <4>5. \A m \in Trimmed(names) \ (task[h].left \ {k}) : OnBoard(h, m)'
        BY <3>9, <4>3, <4>4 DEF OnBoard, Live, Keys, KeysOf, Key
      <4> QED
        BY <3>3, <4>1, <4>4, <4>5 DEF Covered, Cover
    <3>10. ASSUME NEW i \in ReqIds, phase[i] = "unborn", phase' = [phase EXCEPT ![i] = "open"],
                  row' = [row EXCEPT ![i] = r], Goto(h, [t EXCEPT !.mine = @ \cup {i}])
           PROVE  Cover
      <4>0. task'[h] = [t EXCEPT !.mine = @ \cup {i}]
        BY <1>1, <3>10, Jumps
      <4>1. /\ task'[h].call = c /\ task'[h].mine = task[h].mine \cup {i}
            /\ task'[h].left = task[h].left \ {k} /\ task'[h].pc = "bulk"
        BY <3>3, <4>0 DEF Task
      <4>2. row'[i] = r /\ \A j \in task[h].mine : row'[j] = row[j]
        BY <1>1, <3>7, <3>10 DEF TypeOK
      <4>3. OnBoard(h, k)'
        <5>1. i \in task'[h].mine /\ Key(task'[h].call.names[k]) \in Keys(row'[i])
          BY <3>5, <4>1, <4>2
        <5> QED
          BY <5>1 DEF OnBoard, Keys, KeysOf, Key
      <4>4. ASSUME NEW m \in Trimmed(names) \ (task[h].left \ {k}), m # k
            PROVE  OnBoard(h, m)'
        <5>1. PICK j \in Live \cup task[h].mine : Key(names[m]) \in Keys(row[j])
          BY <3>8, <4>4 DEF OnBoard
        <5>2. j \in Live' \cup task'[h].mine /\ Keys(row'[j]) = Keys(row[j])
          BY <1>2, <4>1, <4>2, <5>1
        <5> QED
          BY <4>1, <5>1, <5>2 DEF OnBoard, Keys, KeysOf, Key
      <4>5. \A m \in Trimmed(names) \ (task[h].left \ {k}) : OnBoard(h, m)'
        BY <4>3, <4>4
      <4> QED
        BY <4>1, <4>5 DEF Covered, Cover
    <3> QED
      BY <3>6, <3>9, <3>10, Zenon
  <2>5. CASE ~Prefilter(h) /\ ~BulkInsert(h)
    <3>1. ASSUME NEW d \in Calls, NEW pc \in {"check", "write", "prefilter"}, NEW left,
                 Goto(h, BeginBatch(d, pc, left)), FirstStep(d, pc), UNCHANGED board,
                 pc = "prefilter" => left = Trimmed(d.names)
          PROVE  Cover
      <4>1. task'[h].pc = pc /\ task'[h].call = d /\ task'[h].left = left
        BY <1>1, <3>1, Jumps DEF BeginBatch
      <4> QED
        BY <3>1, <4>1 DEF Covered, Cover
    <3>2. CASE ~Arrives(h)
      BY <1>1, <2>1, <3>2, Arrivals
    <3>3. CASE OtherArrival(h)
      BY <1>1, <2>1, <3>3, OtherArrivals
    <3> QED
      BY <2>5, <3>1, <3>2, <3>3 DEF Arrives, OtherArrival
  <2> QED
    BY <2>3, <2>4, <2>5
<1> QED
  BY <1>3, <1>4

LEMMA CoversStep ==
  ASSUME CallsInv, CallsInv', [Next]_vars, NEW h \in Handlers, Covered(h),
         task[h].call.op \in BatchOps, task[h].pc \in {"prefilter", "bulk"},
         task'[h].reply = "ok",
         NEW k \in DOMAIN task[h].call.names, task[h].call.names[k] # Blank
  PROVE  \E j \in Live' : Key(task[h].call.names[k]) \in Keys(row'[j])
<1> DEFINE c == task[h].call
<1>1. TypeOK /\ task[h] \in Task /\ OpFits(task[h])
  BY DEF CallsInv, IInv, TypeOK
<1>2. HandlerStep(h)
  BY <1>1, StepOf DEF OpFits
<1>3. k \in Trimmed(c.names)
  BY DEF Trimmed
<1>4. Prefilter(h) \/ CommitBatch(h)
  <2>1. ASSUME NEW a, Answer(h, a), a # "ok" PROVE FALSE
    BY <1>1, <2>1, Answers
  <2>2. ~Fail(h) /\ ~DeadlockAbort(h)
    BY <2>1 DEF Fail, DeadlockAbort
  <2>3. ~\E d \in Calls : Submit(h, d)
    BY SubmitGoes
  <2>4. ~InsertRequest(h) /\ ~DeleteServerDest(h)
    BY Zenon DEF InsertRequest, DeleteServerDest
  <2>5. ~UpdateRequest(h)
    BY DEF UpdateRequest
  <2>6. ~BulkInsert(h)
    <3>1. SUFFICES ASSUME BulkInsert(h) PROVE FALSE
      OBVIOUS
    <3>2. PICK m \in NextPosition(h) :
             \/ Goto(h, [task[h] EXCEPT !.left = @ \ {m}])
             \/ \E i \in ReqIds :
                  Goto(h, [[task[h] EXCEPT !.left = @ \ {m}] EXCEPT !.mine = @ \cup {i}])
      BY <3>1, Zenon DEF BulkInsert
    <3> DEFINE t == [task[h] EXCEPT !.left = task[h].left \ {m}]
    <3>3. t.reply = "none" /\ t \in Task
      BY <1>1 DEF Task, OpFits
    <3>4. Goto(h, t) \/ \E i \in ReqIds : Goto(h, [t EXCEPT !.mine = @ \cup {i}])
      BY <3>2, Zenon
    <3> HIDE DEF t
    <3>5. \A i : [t EXCEPT !.mine = @ \cup {i}].reply = "none"
      BY <3>3 DEF Task
    <3> QED
      BY <1>1, <3>3, <3>4, <3>5, Jumps
  <2>7. PlainStep(h)
    BY <1>2, <2>2, <2>3, <2>4, <2>5, <2>6 DEF HandlerStep, WaitingStep
  <2> QED
    BY <2>7 DEF PlainStep, CheckNames, LinkDestination, CommitCreate, Reread, LoadRequest,
         LoadForEdit, LoadForRemove, AttachSelected, TurnToDetach, DetachUnselected,
         DeleteRequest, AddDestination, RemoveDestination, CreateServerDest
<1>5. CASE Prefilter(h)
  <2> DEFINE free == {m \in task[h].left : Key(c.names[m]) \notin Taken}
             t == [task[h] EXCEPT !.pc = "bulk", !.left = free]
  <2>1. /\ task[h].pc = "prefilter" /\ UNCHANGED board
        /\ Goto(h, t) \/ free = {}
    BY <1>5 DEF Prefilter
  <2>2. t.reply = "none"
    BY <1>1 DEF Task, OpFits
  <2>3. ~Goto(h, t)
    BY <1>1, <2>2, Jumps
  <2>4. k \in task[h].left
    BY <1>3, <2>1 DEF Covered
  <2>5. Key(c.names[k]) \in Taken
    BY <2>1, <2>3, <2>4
  <2> QED
    BY <2>1, <2>5 DEF Taken, board, Live
<1>6. CASE CommitBatch(h)
  <2>1. task[h].pc = "bulk" /\ task[h].left = {} /\ Publish(h)
    BY <1>6 DEF CommitBatch
  <2>2. PICK j \in Live \cup task[h].mine : Key(c.names[k]) \in Keys(row[j])
    BY <1>3, <2>1 DEF Covered, OnBoard
  <2>3. j \in Live' /\ row' = row
    BY <1>1, <2>1 DEF Publish, Live, Task
  <2> QED
    BY <2>2, <2>3
<1> QED
  BY <1>4, <1>5, <1>6

(* While no call deletes or renames a request, a batch that answers        *)
(* "added" has all of its titles on the board, its own rows or others'.    *)
THEOREM BatchTheorem ==
  ASSUME TitlesStay
  PROVE  Spec => BatchCovers
<1> DEFINE Inv == \A h \in Handlers : Covered(h)
<1>1. Init => Inv
  BY DEF Init, Covered, Idle
<1>2. CallsInv /\ Inv /\ [Next]_vars => Inv'
  <2>1. CASE UNCHANGED vars
    BY <2>1 DEF vars, Covered, OnBoard, Live, Keys, KeysOf, Key
  <2>2. CASE Next
    BY <2>2, CoveredStep, NextIsHandlerStep
  <2> QED
    BY <2>1, <2>2
<1>3. CallsInv /\ CallsInv' /\ Inv /\ [Next]_vars =>
        [\A h \in Handlers :
           /\ task[h].call.op \in BatchOps
           /\ task[h].pc \in {"prefilter", "bulk"}
           /\ task'[h].reply = "ok"
           => \A k \in DOMAIN task[h].call.names :
                LET t == task[h].call.names[k] IN
                t # Blank => \E j \in Live' : Key(t) \in Keys(row'[j])]_vars
  BY CoversStep
<1> QED
  BY <1>1, <1>2, <1>3, CallsInductive, PTL DEF Spec, BatchCovers
============================================================================
