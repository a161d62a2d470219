------------------------ MODULE PrekeyStore_proofs ------------------------
(***************************************************************************)
(* Proofs about PrekeyStore for any keys, devices and requests.            *)
(***************************************************************************)
EXTENDS PrekeyStore, TLAPS

USE DEF ivars, wvars, vars, Writers

LEMMA WrittenType ==
    ASSUME NEW r \in Row, NEW b \in Bundle, NEW s \in Stamp
    PROVE  Written(r, b, s) \in Row
BY DEF Written, Row

\* Every version of a row has the types of its columns.
LEMMA LoadType ==
    ASSUME TypeOK, NEW d \in Devices, NEW r \in Find(d)
    PROVE  Load(r, d) \in Entity /\ Load(r, d).id = r /\ r \in 0..Len(rows)
<1>1. CASE r = 0
  BY <1>1 DEF TypeOK, Load, Entity, NoBundle, Bundle, Stamp
<1>2. CASE r # 0
  <2>1. r \in 1..Len(rows)
    BY <1>2 DEF Find, Of, RowIds
  <2>2. rows[r] \in Row
    BY <2>1 DEF TypeOK
  <2> QED
    BY <1>2, <2>1, <2>2 DEF TypeOK, Load, Entity, Row
<1> QED
  BY <1>1, <1>2

LEMMA UpdatedType ==
    ASSUME TypeOK, NEW w \in Writers, ent[w].id \in RowIds
    PROVE  Updated(w) \in Row
<1>1. rows[ent[w].id] \in Row /\ ent[w] \in Entity
  BY DEF TypeOK, RowIds
<1> QED
  BY <1>1 DEF Updated, Written, Row, Entity

LEMMA ChosenRange ==
    ASSUME NEW n \in Nat, NEW r \in Chosen(n)
    PROVE  r \in 0..n
BY DEF Chosen, Newest

LEMMA ReleaseType ==
    ASSUME TypeOK, NEW i \in Initiators,
           NEW result \in {"notFound", "committed", "exhausted", "failed"},
           Release(i, result),
           rows' \in Seq(Row), Len(rows') = Len(rows),
           got' \in [Initiators -> Keys \cup {None}],
           got'[i] # None <=> result = "committed",
           \A j \in Initiators : j # i => got'[j] = got[j],
           UNCHANGED <<wvars, uploaded, restored>>
    PROVE  TypeOK'
<1>1. /\ ipc' = [ipc EXCEPT ![i] = result]
      /\ seen' = [seen EXCEPT ![i] = 0] /\ pick' = [pick EXCEPT ![i] = 0]
      /\ pool' = [pool EXCEPT ![i] = {}]
  BY DEF Release
<1>2. \A j \in Initiators : pick'[j] <= seen'[j] /\ seen'[j] <= Len(rows)
  <2>1. Len(rows) \in Nat
    BY DEF TypeOK
  <2> QED
    BY <1>1, <2>1 DEF TypeOK
<1>3. /\ seen' \in [Initiators -> Nat] /\ pick' \in [Initiators -> Nat]
      /\ pool' \in [Initiators -> SUBSET Keys]
  BY <1>1 DEF TypeOK
<1>4. ipc' \in [Initiators -> {"idle", "select", "holding", "saved", "committed", "served",
                              "exhausted", "notFound", "failed"}]
  BY <1>1 DEF TypeOK
<1>5. ASSUME NEW j \in Initiators
      PROVE  got'[j] # None <=> ipc'[j] \in {"saved", "committed", "served"}
  <2>1. CASE j = i
    BY <1>1, <2>1 DEF TypeOK
  <2>2. CASE j # i
    BY <1>1, <2>2 DEF TypeOK
  <2> QED
    BY <2>1, <2>2
<1> QED
  BY <1>2, <1>3, <1>4, <1>5 DEF TypeOK

\* The steps of getPrekeyBundle keep the types.
LEMMA GetBundleTypes ==
    ASSUME TypeOK, NEW i \in Initiators,
           BeginGetBundle(i) \/ GetBundleStep(i) \/ Rollback(i) \/ LoseAnswer(i)
    PROVE  TypeOK'
<1> USE PrekeyAssumption
<1>1. CASE BeginGetBundle(i)
  BY <1>1 DEF TypeOK, BeginGetBundle
<1>2. CASE LockRows(i)
  <2>1. PICK r \in Chosen(seen[i]) :
          /\ pick' = [pick EXCEPT ![i] = r]
          /\ pool' = [pool EXCEPT ![i] = IF r = 0 THEN {} ELSE rows[r].bundle.keys]
    BY <1>2 DEF LockRows
  <2>2. r \in 0..seen[i]
    BY ChosenRange DEF TypeOK
  <2>3. r # 0 => rows[r] \in Row
    BY <2>2 DEF TypeOK
  <2>4. r # 0 => rows[r].bundle.keys \subseteq Keys
    BY <2>3 DEF Row, Bundle
  <2> QED
    BY <1>2, <2>1, <2>2, <2>4 DEF TypeOK, LockRows
<1>3. CASE NotFound(i)
  <2>1. Release(i, "notFound") /\ UNCHANGED <<rows, got, wvars, uploaded, restored>>
        /\ got[i] = None
    BY <1>3 DEF NotFound, TypeOK
  <2> QED
    BY <2>1, ReleaseType DEF TypeOK
<1>4. CASE TakeKey(i)
  BY <1>4 DEF TypeOK, TakeKey, Consumable
<1>5. CASE Commit(i)
  <2> DEFINE p == pick[i]
             b == [rows[p].bundle EXCEPT !.keys = pool[i] \ {got[i]}]
             new == Written(rows[p], b, rows[p].stamp)
  <2>1. p # 0 => p \in 1..Len(rows) /\ rows[p] \in Row
    BY DEF TypeOK
  <2>2. p # 0 => new \in Row
    <3>1. p # 0 => b \in Bundle
      BY <2>1 DEF TypeOK, Row, Bundle
    <3> HIDE DEF b
    <3> QED
      BY <2>1, <3>1, WrittenType DEF Row
  <2>3. rows' = [rows EXCEPT ![p] = new]
    BY <1>5 DEF Commit
  <2>4. rows' \in Seq(Row) /\ Len(rows') = Len(rows)
    <3>1. CASE p = 0
      <4>1. 0 \notin DOMAIN rows
        BY DEF TypeOK
      <4> HIDE DEF b, new, p
      <4>2. rows' = rows
        BY <2>3, <3>1, <4>1 DEF TypeOK
      <4> QED BY <4>2 DEF TypeOK
    <3>2. CASE p # 0
      <4> HIDE DEF b, new, p
      <4> QED BY <2>1, <2>2, <2>3, <3>2 DEF TypeOK
    <3> QED BY <3>1, <3>2
  <2> HIDE DEF b, new, p
  <2>5. Release(i, "committed") /\ UNCHANGED <<got, wvars, uploaded, restored>>
        /\ got[i] # None
    BY <1>5 DEF Commit, TypeOK
  <2> QED
    BY <2>4, <2>5, ReleaseType DEF TypeOK
<1>6. CASE AnswerBundle(i)
  BY <1>6 DEF TypeOK, AnswerBundle
<1>7. CASE LoseAnswer(i)
  BY <1>7 DEF TypeOK, LoseAnswer
<1>8. CASE Exhausted(i)
  <2>1. Release(i, "exhausted") /\ UNCHANGED <<rows, got, wvars, uploaded, restored>>
        /\ got[i] = None
    BY <1>8 DEF Exhausted, TypeOK
  <2> QED
    BY <2>1, ReleaseType DEF TypeOK
<1>9. CASE Rollback(i)
  <2>1. Release(i, "failed") /\ UNCHANGED <<rows, wvars, uploaded, restored>>
        /\ got' = [got EXCEPT ![i] = None]
    BY <1>9 DEF Rollback
  <2> QED
    BY <2>1, ReleaseType DEF TypeOK
<1> QED
  BY <1>1, <1>2, <1>3, <1>4, <1>5, <1>6, <1>7, <1>8, <1>9 DEF GetBundleStep

LEMMA FinishType ==
    ASSUME TypeOK, NEW w \in Writers, NEW result \in {"done", "failed"}, Finish(w, result)
    PROVE  /\ wpc' = [wpc EXCEPT ![w] = result] /\ base' \in [Writers -> Row]
           /\ \A v \in Writers : wpc'[v] = "update" => wpc[v] = "update"
<1>1. Blank(base[w].device) \in Row
  BY DEF TypeOK, Row, Blank, NoBundle, Bundle, Stamp
<1> QED
  BY <1>1 DEF Finish, TypeOK

\* The steps of publishPrekey and storeSignalKeys keep the types.
LEMMA WriterTypes ==
    ASSUME TypeOK, NEW w \in Writers,
           \/ FindToPublish(w) \/ FindToBackup(w) \/ RefuseBackup(w)
           \/ SaveStep(w) \/ WriterFails(w)
    PROVE  TypeOK'
<1>1. CASE FindToPublish(w)
  <2>0. PICK d \in Devices : \E r \in Find(d), u \in Uploads(w) :
          /\ ent' = [ent EXCEPT ![w] =
                       [Load(r, d) EXCEPT !.bundle = Merge(@, u)]]
          /\ uploaded' = uploaded \cup u.keys
    BY <1>1 DEF FindToPublish
  <2>1. PICK r \in Find(d), u \in Uploads(w) :
          /\ ent' = [ent EXCEPT ![w] =
                       [Load(r, d) EXCEPT !.bundle = Merge(@, u)]]
          /\ uploaded' = uploaded \cup u.keys
    BY <2>0
  <2>2. u.pub \in BOOLEAN /\ u.keys \subseteq Keys /\ u.backup \in Writers \cup {None}
    BY DEF Uploads
  <2>3. Load(r, d) \in Entity /\ Load(r, d).id \in 0..Len(rows)
    BY LoadType
  <2>4. Merge(Load(r, d).bundle, u) \in Bundle
    BY <2>2, <2>3 DEF Merge, Bundle, Entity
  <2>5. [Load(r, d) EXCEPT !.bundle = Merge(@, u)] \in Entity
    BY <2>3, <2>4 DEF Entity
  <2>6. ent'[w].id <= Len(rows)
    BY <2>1, <2>3, <2>5 DEF TypeOK, Entity
  <2> QED
    BY <1>1, <2>1, <2>2, <2>5, <2>6 DEF TypeOK, FindToPublish
<1>2. CASE FindToBackup(w)
  <2>0. PICK d \in Devices : \E r \in Find(d) :
          ent' = [ent EXCEPT ![w] = [Load(r, d) EXCEPT !.bundle = WithBackup(@, w),
                                                       !.stamp = "recent"]]
    BY <1>2 DEF FindToBackup
  <2>1. PICK r \in Find(d) :
          ent' = [ent EXCEPT ![w] = [Load(r, d) EXCEPT !.bundle = WithBackup(@, w),
                                                       !.stamp = "recent"]]
    BY <2>0
  <2>2. Load(r, d) \in Entity /\ Load(r, d).id \in 0..Len(rows)
    BY LoadType
  <2>3. WithBackup(Load(r, d).bundle, w) \in Bundle
    BY <1>2, <2>2 DEF FindToBackup, WithBackup, Bundle, Entity
  <2>4. [Load(r, d) EXCEPT !.bundle = WithBackup(@, w), !.stamp = "recent"] \in Entity
    BY <2>2, <2>3 DEF Entity, Stamp
  <2>5. ent'[w].id <= Len(rows)
    BY <2>1, <2>2, <2>4 DEF TypeOK, Entity
  <2> QED
    BY <1>2, <2>1, <2>4, <2>5 DEF TypeOK, FindToBackup
<1>3. CASE RefuseBackup(w)
  BY <1>3 DEF TypeOK, RefuseBackup
<1>4. CASE Insert(w)
  <2>1. [device |-> ent[w].device, bundle |-> ent[w].bundle,
         stamp |-> ent[w].stamp, ver |-> 0] \in Row
    BY DEF TypeOK, Entity, Row
  <2>2. rows' \in Seq(Row) /\ Len(rows') = Len(rows) + 1
    BY <1>4, <2>1 DEF TypeOK, Insert
  <2>3. \A i \in Initiators : seen[i] <= Len(rows')
    BY <2>2 DEF TypeOK
  <2>4. \A v \in Writers : ent[v].id <= Len(rows')
    BY <2>2 DEF TypeOK, Entity
  <2> QED
    BY <1>4, <2>2, <2>3, <2>4, FinishType DEF TypeOK, Insert
<1>5. CASE Reselect(w)
  <2>1. rows[ent[w].id] \in Row
    BY <1>5 DEF TypeOK, Reselect, Entity
  <2> QED
    BY <1>5, <2>1 DEF TypeOK, Reselect
<1>6. CASE Update(w)
  <2>1. ent[w].id \in RowIds
    BY <1>6 DEF TypeOK, Update, Entity, RowIds
  <2>2. Updated(w) \in Row
    BY <2>1, UpdatedType
  <2>3. rows' \in Seq(Row) /\ Len(rows') = Len(rows)
    BY <1>6, <2>1, <2>2 DEF TypeOK, Update, RowIds
  <2>4. restored' \subseteq Keys
    BY <1>6, <2>2 DEF TypeOK, Update, Row, Bundle
  <2> QED
    BY <1>6, <2>3, <2>4, FinishType DEF TypeOK, Update
<1>7. CASE WriterFails(w)
  BY <1>7, FinishType DEF TypeOK, WriterFails
<1> QED
  BY <1>1, <1>2, <1>3, <1>4, <1>5, <1>6, <1>7 DEF SaveStep

LEMMA DayTypes ==
    ASSUME TypeOK, DayPasses
    PROVE  TypeOK' /\ Len(rows') = Len(rows)
<1> DEFINE aged(r) == [rows[r] EXCEPT !.stamp = IF @ = "recent" THEN "old" ELSE @]
<1>1. ASSUME NEW r \in RowIds
      PROVE  aged(r) \in Row
  <2>1. rows[r] \in Row
    BY DEF TypeOK, RowIds
  <2>2. (IF rows[r].stamp = "recent" THEN "old" ELSE rows[r].stamp) \in Stamp
    BY <2>1 DEF Row, Stamp
  <2> QED
    BY <2>1, <2>2 DEF Row
<1>2. rows' = [r \in 1..Len(rows) |-> aged(r)]
  BY DEF DayPasses, RowIds
<1>3. rows' \in Seq(Row) /\ Len(rows') = Len(rows)
  <2> HIDE DEF aged
  <2> QED BY <1>1, <1>2 DEF TypeOK, RowIds
<1>4. UNCHANGED <<ivars, wvars, uploaded, restored>>
  BY DEF DayPasses
<1> QED
  BY <1>3, <1>4 DEF TypeOK

LEMMA TypeStep ==
    ASSUME TypeOK, [Next]_vars
    PROVE  TypeOK'
<1>1. CASE UNCHANGED vars
  BY <1>1 DEF TypeOK
<1>2. CASE Next
  BY <1>2, GetBundleTypes, WriterTypes, DayTypes DEF Next
<1> QED
  BY <1>1, <1>2

LEMMA TypeInit ==
    ASSUME Init
    PROVE  TypeOK
<1>1. \A d \in Devices : Load(0, d) \in Entity /\ Load(0, d).id = 0
  BY DEF Load, Entity, NoBundle, Bundle, Stamp
<1>2. \A d \in Devices : Blank(d) \in Row
  BY DEF Blank, Row, NoBundle, Bundle, Stamp
<1>3. ent \in [Writers -> Entity] /\ base \in [Writers -> Row]
  BY <1>1, <1>2 DEF Init
<1>4. \A w \in Writers : ent[w].id = 0
  BY <1>1 DEF Init
<1>5. \A d \in Devices : UsedUp(d) \in Row
  BY DEF UsedUp, Row, NoBundle, Bundle, Stamp
<1>6. rows \in Seq(Row)
  <2>1. <<>> \in Seq(Row)
    OBVIOUS
  <2>2. \A d \in Devices : <<UsedUp(d)>> \in Seq(Row)
    BY <1>5
  <2> QED
    BY <2>1, <2>2 DEF Init
<1> QED
  BY <1>3, <1>4, <1>6, PrekeyAssumption DEF Init, TypeOK

\* Type correctness of the table, the requests and the history, for any
\* number of requests and keys.
THEOREM TypeCorrect == Spec => []TypeOK
BY TypeInit, TypeStep, PTL DEF Spec
-----------------------------------------------------------------------------
(* What the steps that touch rows or entities do, in the terms of the      *)
(* inductive invariant.                                                    *)

KeysAt(r) == rows[r].bundle.keys

LEMMA CommitEffect ==
    ASSUME TypeOK, ReadInv, NEW i \in Initiators, Commit(i)
    PROVE  LET p == pick[i]
           IN /\ p \in 1..seen[i] /\ p \in RowIds /\ RowIds' = RowIds
              /\ got[i] \in rows[p].bundle.keys /\ got[i] # None
              /\ rows'[p].bundle.keys = rows[p].bundle.keys \ {got[i]}
              /\ rows'[p].ver = rows[p].ver + 1
              /\ \A r \in RowIds : r # p => rows'[r] = rows[r]
              /\ got' = got
              /\ ipc[i] = "saved" /\ ipc' = [ipc EXCEPT ![i] = "committed"]
              /\ Handed' = Handed \cup {got[i]}
<1> DEFINE p == pick[i]
           new == Written(rows[p], [rows[p].bundle EXCEPT !.keys = pool[i] \ {got[i]}],
                          rows[p].stamp)
<1>1. /\ p \in 1..seen[i] /\ p \in RowIds /\ pool[i] = rows[p].bundle.keys
      /\ got[i] \in pool[i]
  BY DEF Commit, ReadInv, Holds, TypeOK, RowIds
<1>2. /\ ipc[i] = "saved" /\ ipc' = [ipc EXCEPT ![i] = "committed"] /\ got' = got
      /\ rows' = [rows EXCEPT ![p] = new]
  BY DEF Commit, Release
<1>3. rows[p] \in Row
  BY <1>1 DEF TypeOK, RowIds
<1>4. new.bundle.keys = rows[p].bundle.keys \ {got[i]} /\ new.ver = rows[p].ver + 1
  BY <1>1, <1>3 DEF Written, Row, Bundle
<1> HIDE DEF new
<1>5. rows'[p].bundle.keys = rows[p].bundle.keys \ {got[i]} /\ rows'[p].ver = rows[p].ver + 1
  <2>1. rows'[p] = new
    BY <1>1, <1>2 DEF TypeOK, RowIds
  <2> QED
    BY <1>4, <2>1
<1>6. RowIds' = RowIds /\ \A r \in RowIds : r # p => rows'[r] = rows[r]
  BY <1>1, <1>2 DEF TypeOK, RowIds
<1>7. got[i] # None
  BY <1>2 DEF TypeOK
<1>8. Handed' = Handed \cup {got[i]}
  <2>1. ipc'[i] = "committed" /\ \A j \in Initiators : j # i => ipc'[j] = ipc[j]
    BY <1>2 DEF TypeOK
  <2>2. \A j \in Initiators : HandsOut(j)' <=> HandsOut(j) \/ j = i
    BY <1>2, <2>1 DEF HandsOut
  <2> QED
    BY <1>2, <2>2 DEF Handed
<1> QED
  BY <1>1, <1>2, <1>5, <1>6, <1>7, <1>8

LEMMA UpdateEffect ==
    ASSUME TypeOK, NEW w \in Writers, Update(w)
    PROVE  LET id == ent[w].id
           IN /\ id \in RowIds /\ RowIds' = RowIds
              /\ KeysAt(id)' = Updated(w).bundle.keys
              /\ KeysAt(id)' \in {KeysAt(id), ent[w].bundle.keys}
              /\ rows'[id].ver = rows[id].ver + 1
              /\ \A r \in RowIds : r # id => rows'[r] = rows[r]
              /\ Handed' = Handed
<1> DEFINE id == ent[w].id
<1>1. id \in RowIds
  BY DEF TypeOK, Update, Entity, RowIds
<1>2. rows'[id] = Updated(w) /\ RowIds' = RowIds
      /\ \A r \in RowIds : r # id => rows'[r] = rows[r]
  BY <1>1 DEF Update, TypeOK, RowIds
<1>3. KeysAt(id)' = Updated(w).bundle.keys
  BY <1>2 DEF KeysAt, Update
<1>4. Updated(w).bundle.keys \in {KeysAt(id), ent[w].bundle.keys}
      /\ Updated(w).ver = rows[id].ver + 1
  BY DEF Updated, Written, KeysAt
<1>5. Handed' = Handed
  BY DEF Update, Handed, HandsOut
<1> QED
  BY <1>1, <1>2, <1>3, <1>4, <1>5

LEMMA InsertEffect ==
    ASSUME TypeOK, NEW w \in Writers, Insert(w)
    PROVE  /\ ent[w].id = 0
           /\ RowIds' = RowIds \cup {Len(rows) + 1}
           /\ Len(rows) + 1 \notin RowIds
           /\ rows'[Len(rows) + 1].bundle.keys = ent[w].bundle.keys
           /\ \A r \in RowIds : rows'[r] = rows[r]
           /\ Handed' = Handed
<1>1. Len(rows) \in Nat
  BY DEF TypeOK
<1>2. /\ Len(rows') = Len(rows) + 1
      /\ rows'[Len(rows) + 1].bundle = ent[w].bundle
      /\ \A r \in 1..Len(rows) : rows'[r] = rows[r]
  BY DEF TypeOK, Insert
<1>3. RowIds' = RowIds \cup {Len(rows) + 1} /\ Len(rows) + 1 \notin RowIds
  <2>1. RowIds' = 1..(Len(rows) + 1)
    BY <1>2 DEF RowIds
  <2>2. \A n \in Nat : 1..(n + 1) = 1..n \cup {n + 1} /\ n + 1 \notin 1..n
    OBVIOUS
  <2> QED
    BY <1>1, <2>1, <2>2 DEF RowIds
<1>4. rows'[Len(rows) + 1].bundle.keys = ent[w].bundle.keys
  BY <1>2
<1> QED
  BY <1>2, <1>3, <1>4 DEF Insert, RowIds, Handed, HandsOut

\* findOne and the merge that follows it: the entity carries prekeys of the
\* row it was loaded from, and fresh ones.
LEMMA FindEffect ==
    ASSUME TypeOK, NEW w \in Writers, FindToPublish(w) \/ FindToBackup(w)
    PROVE  \E fresh \in SUBSET (Keys \ uploaded), id \in RowIds \cup {0} :
             /\ ent'[w].id = id
             /\ ent'[w].bundle.keys \subseteq (IF id = 0 THEN {} ELSE KeysAt(id)) \cup fresh
             /\ id # 0 => ent'[w].ver = rows[id].ver
             /\ \A v \in Writers : v # w => ent'[v] = ent[v]
             /\ uploaded' = uploaded \cup fresh
             /\ wpc' = [wpc EXCEPT ![w] = "save"]
             /\ UNCHANGED <<rows, ivars, restored>>
<1>1. CASE FindToPublish(w)
  <2>0. PICK d \in Devices : \E r \in Find(d), u \in Uploads(w) :
          /\ ent' = [ent EXCEPT ![w] = [Load(r, d) EXCEPT !.bundle = Merge(@, u)]]
          /\ uploaded' = uploaded \cup u.keys
    BY <1>1 DEF FindToPublish
  <2>1. PICK r \in Find(d), u \in Uploads(w) :
          /\ ent' = [ent EXCEPT ![w] = [Load(r, d) EXCEPT !.bundle = Merge(@, u)]]
          /\ uploaded' = uploaded \cup u.keys
    BY <2>0
  <2>2. Load(r, d) \in Entity /\ Load(r, d).id = r /\ r \in RowIds \cup {0}
    BY LoadType DEF RowIds, TypeOK
  <2>3. u.keys \in SUBSET (Keys \ uploaded) /\ u.pub \in BOOLEAN
    BY DEF Uploads
  <2>4. ent'[w] = [Load(r, d) EXCEPT !.bundle = Merge(@, u)]
        /\ \A v \in Writers : v # w => ent'[v] = ent[v]
    BY <2>1 DEF TypeOK
  <2>5. ent'[w].id = r /\ ent'[w].bundle = Merge(Load(r, d).bundle, u)
        /\ ent'[w].ver = Load(r, d).ver
    BY <2>2, <2>4 DEF Entity
  <2>6. ent'[w].bundle.keys \in {Load(r, d).bundle.keys, u.keys}
    BY <2>2, <2>5 DEF Merge, Entity, Bundle
  <2>7. Load(r, d).bundle.keys = (IF r = 0 THEN {} ELSE KeysAt(r))
        /\ (r # 0 => Load(r, d).ver = rows[r].ver)
    BY DEF Load, NoBundle, KeysAt
  <2>8. /\ wpc' = [wpc EXCEPT ![w] = "save"]
        /\ UNCHANGED <<rows, ivars, restored>>
    BY <1>1 DEF FindToPublish
  <2> DEFINE fresh == u.keys
  <2>9. ent'[w].bundle.keys \subseteq (IF r = 0 THEN {} ELSE KeysAt(r)) \cup fresh
    BY <2>6, <2>7
  <2>10. r # 0 => ent'[w].ver = rows[r].ver
    BY <2>5, <2>7
  <2>11. fresh \in SUBSET (Keys \ uploaded) /\ uploaded' = uploaded \cup fresh
    BY <2>1, <2>3
  <2> HIDE DEF fresh
  <2> QED
    BY <2>2, <2>4, <2>5, <2>8, <2>9, <2>10, <2>11
<1>2. CASE FindToBackup(w)
  <2>0. PICK d \in Devices : \E r \in Find(d) :
          ent' = [ent EXCEPT ![w] = [Load(r, d) EXCEPT !.bundle = WithBackup(@, w),
                                                       !.stamp = "recent"]]
    BY <1>2 DEF FindToBackup
  <2>1. PICK r \in Find(d) :
          ent' = [ent EXCEPT ![w] = [Load(r, d) EXCEPT !.bundle = WithBackup(@, w),
                                                       !.stamp = "recent"]]
    BY <2>0
  <2>2. Load(r, d) \in Entity /\ Load(r, d).id = r /\ r \in RowIds \cup {0}
    BY LoadType DEF RowIds, TypeOK
  <2>3. ent'[w] = [Load(r, d) EXCEPT !.bundle = WithBackup(@, w), !.stamp = "recent"]
        /\ \A v \in Writers : v # w => ent'[v] = ent[v]
    BY <2>1 DEF TypeOK
  <2>4. ent'[w].id = r /\ ent'[w].bundle = WithBackup(Load(r, d).bundle, w)
        /\ ent'[w].ver = Load(r, d).ver
    BY <2>2, <2>3 DEF Entity
  <2>5. ent'[w].bundle.keys = Load(r, d).bundle.keys
    BY <2>2, <2>4 DEF WithBackup, Entity, Bundle
  <2>6. Load(r, d).bundle.keys = (IF r = 0 THEN {} ELSE KeysAt(r))
        /\ (r # 0 => Load(r, d).ver = rows[r].ver)
    BY DEF Load, NoBundle, KeysAt
  <2>7. /\ uploaded' = uploaded \cup {}
        /\ wpc' = [wpc EXCEPT ![w] = "save"]
        /\ UNCHANGED <<rows, ivars, restored>>
    BY <1>2 DEF FindToBackup
  <2>8. ent'[w].bundle.keys \subseteq (IF r = 0 THEN {} ELSE KeysAt(r)) \cup {}
    BY <2>5, <2>6
  <2>9. r # 0 => ent'[w].ver = rows[r].ver
    BY <2>4, <2>6
  <2>10. {} \in SUBSET (Keys \ uploaded)
    OBVIOUS
  <2> QED
    BY <2>2, <2>3, <2>4, <2>7, <2>8, <2>9, <2>10
<1> QED
  BY <1>1, <1>2

LEMMA DayEffect ==
    ASSUME TypeOK, DayPasses
    PROVE  /\ RowIds' = RowIds
           /\ \A r \in RowIds : KeysAt(r)' = KeysAt(r) /\ rows'[r].ver = rows[r].ver
           /\ UNCHANGED <<ivars, wvars, uploaded, restored>>
<1>1. \A r \in RowIds : rows[r] \in Row
  BY DEF TypeOK, RowIds
<1>2. \A r \in RowIds :
        rows'[r] = [rows[r] EXCEPT !.stamp = IF @ = "recent" THEN "old" ELSE @]
  BY DEF DayPasses
<1>3. ASSUME NEW r \in RowIds
      PROVE  KeysAt(r)' = KeysAt(r) /\ rows'[r].ver = rows[r].ver
  BY <1>1, <1>2 DEF Row, KeysAt
<1> QED
  BY <1>3, DayTypes DEF RowIds, DayPasses
-----------------------------------------------------------------------------
(* The row locks: no two calls hold a row, and what a call read stays.     *)

LEMMA LockStep ==
    ASSUME TypeOK, LockInv, Next
    PROVE  LockInv'
<1>1. ASSUME NEW i \in Initiators, BeginGetBundle(i)
      PROVE  LockInv'
  BY <1>1 DEF BeginGetBundle, LockInv, Holds, TypeOK
<1>2. ASSUME NEW i \in Initiators, LockRows(i)
      PROVE  LockInv'
  <2>1. ASSUME NEW j \in Initiators, j # i, Holds(j)
        PROVE  seen[i] = 0 \/ seen[j] = 0
    <3>1. SUFFICES ASSUME seen[i] # 0, seen[j] # 0 PROVE FALSE
      OBVIOUS
    <3>2. 1 \in 1..seen[i] /\ 1 \in 1..seen[j]
      BY <3>1 DEF TypeOK
    <3>3. Locks(j, 1)
      BY <2>1, <3>2 DEF Locks
    <3> QED
      BY <1>2, <3>2, <3>3 DEF LockRows, CanLock, Unlocked
  <2> QED
    BY <1>2, <2>1 DEF LockRows, LockInv, Holds, TypeOK
<1>3. ASSUME NEW i \in Initiators, NotFound(i) \/ Commit(i) \/ Exhausted(i) \/ Rollback(i)
      PROVE  LockInv'
  <2>1. \E result \in {"notFound", "committed", "exhausted", "failed"} : Release(i, result)
    BY <1>3 DEF NotFound, Commit, Exhausted, Rollback
  <2>2. \A j \in Initiators : Holds(j)' => Holds(j) /\ seen'[j] = seen[j]
    BY <2>1 DEF Release, Holds, TypeOK
  <2> QED
    BY <2>2 DEF LockInv
<1>7. ASSUME NEW i \in Initiators, TakeKey(i) \/ AnswerBundle(i) \/ LoseAnswer(i)
      PROVE  LockInv'
  <2>1. seen' = seen /\ \A j \in Initiators : Holds(j)' => Holds(j)
    BY <1>7 DEF TakeKey, AnswerBundle, LoseAnswer, Holds, TypeOK
  <2> QED
    BY <2>1 DEF LockInv
<1>4. ASSUME UNCHANGED ivars
      PROVE  LockInv'
  BY <1>4 DEF LockInv, Holds
<1>5. ASSUME NEW w \in Writers,
             FindToPublish(w) \/ FindToBackup(w) \/ RefuseBackup(w)
             \/ SaveStep(w) \/ WriterFails(w)
      PROVE  UNCHANGED ivars
  BY <1>5 DEF FindToPublish, FindToBackup, RefuseBackup, SaveStep, Insert, Reselect,
              Update, WriterFails
<1>6. ASSUME DayPasses
      PROVE  UNCHANGED ivars
  BY <1>6 DEF DayPasses
<1> QED
  BY <1>1, <1>2, <1>3, <1>4, <1>5, <1>6, <1>7 DEF Next, GetBundleStep

\* A row that a call holds is written by nobody else.
LEMMA ReadStep ==
    ASSUME TypeOK, LockInv, ReadInv, Next
    PROVE  ReadInv'
<1>1. ASSUME NEW i \in Initiators, BeginGetBundle(i)
      PROVE  ReadInv'
  BY <1>1 DEF BeginGetBundle, ReadInv, Holds, TypeOK
<1>2. ASSUME NEW i \in Initiators, LockRows(i)
      PROVE  ReadInv'
  <2>1. PICK r \in Chosen(seen[i]) :
          /\ pick' = [pick EXCEPT ![i] = r]
          /\ pool' = [pool EXCEPT ![i] = IF r = 0 THEN {} ELSE rows[r].bundle.keys]
    BY <1>2 DEF LockRows
  <2>2. r \in 0..seen[i]
    BY ChosenRange DEF TypeOK
  <2>3. r # 0 => r \in 1..seen[i]
    BY <2>2 DEF TypeOK
  <2>4. pick'[i] = r /\ (r # 0 => pool'[i] = rows[r].bundle.keys)
    BY <2>1 DEF TypeOK
  <2>5. \A j \in Initiators : j # i => pick'[j] = pick[j] /\ pool'[j] = pool[j]
                                       /\ ipc'[j] = ipc[j]
    BY <1>2, <2>1 DEF LockRows, TypeOK
  <2>6. rows' = rows /\ seen' = seen /\ got' = got /\ ipc' = [ipc EXCEPT ![i] = "holding"]
    BY <1>2 DEF LockRows
  <2> QED
    BY <2>3, <2>4, <2>5, <2>6 DEF ReadInv, Holds, TypeOK
<1>3. ASSUME NEW i \in Initiators, NotFound(i) \/ Exhausted(i) \/ Rollback(i)
      PROVE  ReadInv'
  <2>1. /\ \E result \in {"notFound", "exhausted", "failed"} : Release(i, result)
        /\ rows' = rows /\ \A j \in Initiators : j # i => got'[j] = got[j]
    BY <1>3 DEF NotFound, Exhausted, Rollback, TypeOK
  <2>2. \A j \in Initiators : Holds(j)' =>
           /\ j # i /\ Holds(j) /\ ipc'[j] = ipc[j]
           /\ seen'[j] = seen[j] /\ pick'[j] = pick[j] /\ pool'[j] = pool[j]
    BY <2>1 DEF Release, Holds, TypeOK
  <2> QED
    BY <2>1, <2>2 DEF ReadInv, Holds
<1>4. ASSUME NEW i \in Initiators, Commit(i)
      PROVE  ReadInv'
  <2>1. /\ pick[i] \in 1..seen[i] /\ got' = got /\ ipc[i] = "saved"
        /\ \A r \in RowIds : r # pick[i] => rows'[r] = rows[r]
    BY <1>4, CommitEffect
  <2>2. ASSUME NEW j \in Initiators, Holds(j)'
        PROVE  /\ Holds(j) /\ ipc'[j] = ipc[j] /\ (seen[j] = 0 \/ seen[i] = 0)
               /\ seen'[j] = seen[j] /\ pick'[j] = pick[j] /\ pool'[j] = pool[j]
    <3>1. j # i
      BY <1>4, <2>2 DEF Commit, Release, Holds, TypeOK
    <3>2. /\ ipc'[j] = ipc[j] /\ seen'[j] = seen[j] /\ pick'[j] = pick[j]
          /\ pool'[j] = pool[j]
      BY <1>4, <3>1 DEF Commit, Release, TypeOK
    <3>3. Holds(j) /\ Holds(i)
      BY <2>1, <2>2, <3>2 DEF Holds
    <3> QED
      BY <3>1, <3>2, <3>3 DEF LockInv
  <2>3. ASSUME NEW j \in Initiators, Holds(j)', pick[j] # 0
        PROVE  pick[j] \in 1..seen[j] /\ pool[j] = rows'[pick[j]].bundle.keys
    <3>1. pick[j] \in 1..seen[j] /\ pool[j] = rows[pick[j]].bundle.keys
      BY <2>2, <2>3 DEF ReadInv
    <3>2. pick[j] \in RowIds /\ pick[j] # pick[i]
      BY <2>1, <2>2, <2>3, <3>1 DEF TypeOK, RowIds
    <3> QED
      BY <2>1, <3>1, <3>2
  <2>4. ASSUME NEW j \in Initiators, ipc'[j] = "saved"
        PROVE  pick'[j] # 0 /\ got'[j] \in pool'[j]
    <3>1. Holds(j)'
      BY <2>4 DEF Holds
    <3> QED
      BY <2>1, <2>2, <2>4, <3>1 DEF ReadInv
  <2> QED
    BY <2>2, <2>3, <2>4 DEF ReadInv
<1>9. ASSUME NEW i \in Initiators, TakeKey(i)
      PROVE  ReadInv'
  <2>1. PICK k \in pool[i] : got' = [got EXCEPT ![i] = k]
    BY <1>9 DEF TakeKey, Consumable
  <2>2. UNCHANGED <<rows, seen, pick, pool>> /\ pick[i] # 0 /\ ipc[i] = "holding"
        /\ ipc' = [ipc EXCEPT ![i] = "saved"]
    BY <1>9 DEF TakeKey
  <2>3. got'[i] \in pool[i] /\ \A j \in Initiators : j # i => got'[j] = got[j]
    BY <2>1 DEF TypeOK
  <2>4. \A j \in Initiators : Holds(j)' = Holds(j)
    BY <2>2 DEF Holds, TypeOK
  <2> QED
    BY <2>2, <2>3, <2>4 DEF ReadInv, TypeOK
<1>10. ASSUME NEW i \in Initiators, AnswerBundle(i) \/ LoseAnswer(i)
       PROVE  ReadInv'
  <2>1. UNCHANGED <<rows, seen, pick, pool>>
    BY <1>10 DEF AnswerBundle, LoseAnswer
  <2>2. \A j \in Initiators : Holds(j)' =>
           Holds(j) /\ ipc'[j] = ipc[j] /\ got'[j] = got[j]
    BY <1>10 DEF AnswerBundle, LoseAnswer, Holds, TypeOK
  <2> QED
    BY <2>1, <2>2 DEF ReadInv, Holds
<1>5. ASSUME NEW w \in Writers, Insert(w)
      PROVE  ReadInv'
  <2>1. \A r \in RowIds : rows'[r] = rows[r]
    BY <1>5, InsertEffect
  <2> QED
    BY <1>5, <2>1 DEF Insert, ReadInv, Holds, TypeOK, RowIds
<1>6. ASSUME NEW w \in Writers, Update(w)
      PROVE  ReadInv'
  <2>1. \A r \in RowIds : r # ent[w].id => rows'[r] = rows[r]
    BY <1>6, UpdateEffect
  <2>2. \A i \in Initiators : Holds(i) => ent[w].id \notin 1..seen[i]
    BY <1>6 DEF Update, Unlocked, Locks
  <2> QED
    BY <1>6, <2>1, <2>2 DEF Update, ReadInv, Holds, TypeOK, RowIds
<1>7. ASSUME DayPasses
      PROVE  ReadInv'
  <2>1. \A r \in RowIds : rows'[r].bundle.keys = rows[r].bundle.keys
    BY <1>7, DayEffect DEF KeysAt
  <2>2. UNCHANGED ivars
    BY <1>7 DEF DayPasses
  <2>3. \A i \in Initiators : \A r \in 1..seen[i] : r \in RowIds
    BY DEF TypeOK, RowIds
  <2> QED
    BY <2>1, <2>2, <2>3 DEF ReadInv, Holds
<1>8. ASSUME NEW w \in Writers,
             FindToPublish(w) \/ FindToBackup(w) \/ RefuseBackup(w) \/ Reselect(w)
             \/ WriterFails(w)
      PROVE  ReadInv'
  BY <1>8 DEF FindToPublish, FindToBackup, RefuseBackup, Reselect, WriterFails, ReadInv, Holds
<1> QED
  BY <1>1, <1>2, <1>3, <1>4, <1>5, <1>6, <1>7, <1>8, <1>9, <1>10 DEF Next, GetBundleStep, SaveStep
-----------------------------------------------------------------------------
(* Where each prekey can be.                                               *)

PlaceInv ==
    KnownInv /\ ApartInv /\ VersionInv /\ PoolInv /\ HandedOnceUnlessRestored

\* Steps that write no row, load no entity and hand nothing out.
Quiet ==
    /\ UNCHANGED <<rows, ent, uploaded, restored>>
    /\ \A i \in Initiators : HandsOut(i)' => HandsOut(i) /\ got'[i] = got[i]
    /\ \A w \in Writers : InFlight(w)' => InFlight(w)

LEMMA QuietSteps ==
    ASSUME TypeOK, Next
    PROVE  \/ Quiet
           \/ \E i \in Initiators : Commit(i)
           \/ \E w \in Writers : FindToPublish(w) \/ FindToBackup(w) \/ Insert(w) \/ Update(w)
           \/ DayPasses
<1>1. ASSUME NEW i \in Initiators,
             BeginGetBundle(i) \/ LockRows(i) \/ NotFound(i) \/ TakeKey(i) \/ AnswerBundle(i)
             \/ LoseAnswer(i) \/ Exhausted(i) \/ Rollback(i)
      PROVE  Quiet
  <2>1. UNCHANGED <<rows, wpc, ent, uploaded, restored>>
    BY <1>1 DEF BeginGetBundle, LockRows, NotFound, TakeKey, AnswerBundle, LoseAnswer,
                Exhausted, Rollback
  <2>2. \A j \in Initiators : j # i => ipc'[j] = ipc[j] /\ got'[j] = got[j]
    BY <1>1 DEF BeginGetBundle, LockRows, NotFound, TakeKey, AnswerBundle, LoseAnswer,
                Exhausted, Rollback, Release, TypeOK
  <2>3. HandsOut(i)' => HandsOut(i) /\ got'[i] = got[i]
    BY <1>1 DEF BeginGetBundle, LockRows, NotFound, TakeKey, AnswerBundle, LoseAnswer,
                Exhausted, Rollback, Release, HandsOut, TypeOK
  <2> QED
    BY <2>1, <2>2, <2>3 DEF Quiet, InFlight, HandsOut
<1>2. ASSUME NEW w \in Writers, RefuseBackup(w) \/ Reselect(w) \/ WriterFails(w)
      PROVE  Quiet
  <2>1. UNCHANGED <<rows, ipc, got, ent, uploaded, restored>>
    BY <1>2 DEF RefuseBackup, Reselect, WriterFails
  <2>2. \A v \in Writers : InFlight(v)' => InFlight(v)
    BY <1>2 DEF RefuseBackup, Reselect, WriterFails, Finish, InFlight, TypeOK
  <2> QED
    BY <2>1, <2>2 DEF Quiet, HandsOut
<1> QED
  BY <1>1, <1>2 DEF Next, GetBundleStep, SaveStep

LEMMA QuietPlaces ==
    ASSUME PlaceInv, Quiet
    PROVE  PlaceInv'
<1>0. Handed' \subseteq Handed
  BY DEF Quiet, Handed
<1>1. KnownInv'
  BY <1>0 DEF PlaceInv, Quiet, KnownInv, RowIds
<1>2. ApartInv'
  BY DEF PlaceInv, Quiet, ApartInv, RowIds, SameRow
<1>3. VersionInv'
  BY DEF PlaceInv, Quiet, VersionInv, SameRow
<1>4. PoolInv'
  BY <1>0 DEF PlaceInv, Quiet, PoolInv, RowIds, SameRow, StaleEntity
<1>5. HandedOnceUnlessRestored'
  BY DEF PlaceInv, Quiet, HandedOnceUnlessRestored
<1> QED
  BY <1>1, <1>2, <1>3, <1>4, <1>5 DEF PlaceInv

\* Handing out k: it leaves the one row that held it, which becomes newer
\* than every entity loaded from it.
LEMMA CommitPlaces ==
    ASSUME TypeOK, ReadInv, PlaceInv, NEW i \in Initiators, Commit(i)
    PROVE  PlaceInv'
<1> DEFINE p == pick[i]
<1> DEFINE k == got[i]
<1>1. /\ p \in RowIds /\ RowIds' = RowIds
      /\ rows'[p].ver = rows[p].ver + 1
      /\ \A r \in RowIds : r # p => rows'[r] = rows[r]
      /\ k # None
      /\ got' = got
      /\ ipc[i] = "saved" /\ ipc' = [ipc EXCEPT ![i] = "committed"]
      /\ Handed' = Handed \cup {k}
  BY CommitEffect
<1>2. UNCHANGED <<ent, wpc, uploaded, restored>>
  BY DEF Commit
<1>3. rows'[p].bundle.keys = rows[p].bundle.keys \ {k} /\ k \in rows[p].bundle.keys
  BY CommitEffect
<1>4. \A r \in RowIds : rows'[r].bundle.keys \subseteq rows[r].bundle.keys
  BY <1>1, <1>3
<1>5. \A r \in RowIds : rows[r].ver \in Nat
  <2>1. \A r \in RowIds : rows[r] \in Row
    BY DEF TypeOK, RowIds
  <2> QED
    BY <2>1 DEF Row
<1>6. \A w \in Writers : InFlight(w)' = InFlight(w) /\ \A r : SameRow(w, r)' = SameRow(w, r)
  BY <1>2 DEF InFlight, SameRow
<1> HIDE DEF p, k
<1>7. KnownInv'
  BY <1>1, <1>2, <1>3, <1>4, <1>6 DEF PlaceInv, KnownInv
<1>8. ApartInv'
  <2>1. \A r, s \in RowIds : r # s => rows'[r].bundle.keys \cap rows'[s].bundle.keys = {}
    BY <1>4 DEF PlaceInv, ApartInv
  <2>2. \A w \in Writers, r \in RowIds :
          InFlight(w) /\ ~SameRow(w, r) => ent[w].bundle.keys \cap rows'[r].bundle.keys = {}
    BY <1>4 DEF PlaceInv, ApartInv
  <2> QED
    BY <1>1, <1>2, <1>6, <2>1, <2>2 DEF PlaceInv, ApartInv
<1>9. \A w \in Writers : ent[w].id # 0 => ent[w].id \in RowIds
  BY DEF TypeOK, Entity, RowIds
<1>10. VersionInv'
  <2>1. \A w \in Writers : ent[w].ver \in Nat
    BY DEF TypeOK, Entity
  <2>2. \A r \in RowIds : rows[r].ver <= rows'[r].ver
    BY <1>1, <1>5
  <2>3. \A r \in RowIds : rows'[r].ver \in Nat
    BY <1>1, <1>5
  <2> QED
    BY <1>2, <1>5, <1>6, <1>9, <2>1, <2>2, <2>3 DEF PlaceInv, VersionInv, SameRow
<1>11. PoolInv'
  <2>1. \A r \in RowIds : r # p => k \notin rows[r].bundle.keys
    BY <1>1, <1>3 DEF PlaceInv, ApartInv
  <2>2. \A r \in RowIds : rows'[r].bundle.keys \cap (Handed \cup {k}) \subseteq restored
    BY <1>1, <1>3, <1>4, <2>1 DEF PlaceInv, PoolInv
  <2>3. ASSUME NEW w \in Writers, InFlight(w), SameRow(w, 0) \/ ~StaleEntity(w)'
        PROVE  ent[w].bundle.keys \cap (Handed \cup {k}) \subseteq restored
    <3>1. ~SameRow(w, p)
      <4>1. SUFFICES ASSUME ent[w].id = p PROVE FALSE
        BY DEF SameRow
      <4>2. p # 0
        BY <1>1 DEF TypeOK, RowIds
      <4>3. ent[w].ver <= rows[p].ver /\ ent[w].ver \in Nat
        BY <2>3, <4>1, <4>2 DEF PlaceInv, VersionInv, SameRow, TypeOK, Entity
      <4> QED
        BY <1>1, <1>2, <1>5, <2>3, <4>1, <4>2, <4>3 DEF SameRow, StaleEntity
    <3>2. k \notin ent[w].bundle.keys
      BY <1>1, <1>3, <2>3, <3>1 DEF PlaceInv, ApartInv
    <3>3. SameRow(w, 0) \/ ~StaleEntity(w)
      BY <1>1, <1>2, <1>9, <2>3, <3>1 DEF SameRow, StaleEntity
    <3> QED
      BY <2>3, <3>2, <3>3 DEF PlaceInv, PoolInv
  <2> QED
    BY <1>1, <1>2, <1>6, <2>2, <2>3 DEF PoolInv
<1>12. HandedOnceUnlessRestored'
  <2>1. ASSUME NEW j \in Initiators, j # i, HandsOut(j), got[j] = k
        PROVE  k \in restored
    <3>1. k \in Handed
      BY <2>1 DEF Handed
    <3> QED
      BY <1>1, <1>3, <3>1 DEF PlaceInv, PoolInv
  <2>2. \A j \in Initiators : j # i => (HandsOut(j)' <=> HandsOut(j))
    BY <1>1 DEF HandsOut, TypeOK
  <2> QED
    BY <1>1, <1>2, <2>1, <2>2 DEF PlaceInv, HandedOnceUnlessRestored, k
<1> QED
  BY <1>7, <1>8, <1>10, <1>11, <1>12 DEF PlaceInv

\* Loading a row: the entity holds prekeys of that row and fresh ones, which
\* are nowhere else.
LEMMA FindPlaces ==
    ASSUME TypeOK, PlaceInv, NEW w \in Writers, FindToPublish(w) \/ FindToBackup(w)
    PROVE  PlaceInv'
<1>1. PICK fresh \in SUBSET (Keys \ uploaded), id \in RowIds \cup {0} :
        /\ ent'[w].id = id
        /\ ent'[w].bundle.keys \subseteq (IF id = 0 THEN {} ELSE KeysAt(id)) \cup fresh
        /\ id # 0 => ent'[w].ver = rows[id].ver
        /\ \A v \in Writers : v # w => ent'[v] = ent[v]
        /\ uploaded' = uploaded \cup fresh
        /\ wpc' = [wpc EXCEPT ![w] = "save"]
        /\ UNCHANGED <<rows, ivars, restored>>
  BY FindEffect
<1> DEFINE new == ent'[w].bundle.keys
           old == IF id = 0 THEN {} ELSE rows[id].bundle.keys
<1>2. new \subseteq old \cup fresh /\ fresh \cap uploaded = {} /\ 0 \notin RowIds
  BY <1>1 DEF KeysAt, RowIds, TypeOK
<1>3. old \subseteq uploaded
  BY DEF PlaceInv, KnownInv
<1>4. RowIds' = RowIds /\ Handed' = Handed /\ rows' = rows /\ got' = got /\ ipc' = ipc
      /\ restored' = restored /\ uploaded \subseteq uploaded'
  BY <1>1 DEF RowIds, Handed, HandsOut
<1>5. \A v \in Writers : v # w => /\ InFlight(v)' = InFlight(v) /\ ent'[v] = ent[v]
                                  /\ \A r : SameRow(v, r)' = SameRow(v, r)
  BY <1>1 DEF InFlight, SameRow, TypeOK
<1>6. \A r \in RowIds : r # id => new \cap rows[r].bundle.keys = {}
  BY <1>2, <1>3 DEF PlaceInv, ApartInv, KnownInv
<1>7. new \subseteq uploaded'
  BY <1>1, <1>2, <1>3
<1>8. \A v \in Writers : v # w /\ InFlight(v) => ent[v].bundle.keys \cap fresh = {}
  BY <1>2 DEF PlaceInv, KnownInv
<1>9. ASSUME NEW v \in Writers, v # w, InFlight(v), id = 0 \/ ent[v].id # id
      PROVE  ent[v].bundle.keys \cap new = {}
  <2>1. ent[v].bundle.keys \cap old = {}
    BY <1>9, <1>2 DEF PlaceInv, ApartInv, SameRow
  <2> QED
    BY <1>2, <1>8, <1>9, <2>1
<1> HIDE DEF old
<1>10. KnownInv'
  BY <1>4, <1>5, <1>7 DEF PlaceInv, KnownInv
<1>11. ApartInv'
  <2>1. \A v \in Writers, r \in RowIds :
          (InFlight(v) /\ ~SameRow(v, r))' => ent'[v].bundle.keys \cap rows[r].bundle.keys = {}
    BY <1>1, <1>5, <1>6 DEF PlaceInv, ApartInv, SameRow
  <2>2. \A v, u \in Writers :
          v # w /\ u # w /\ (InFlight(v) /\ InFlight(u) /\ v # u)'
          /\ (SameRow(v, 0) \/ ~SameRow(v, ent[u].id))' =>
             ent'[v].bundle.keys \cap ent'[u].bundle.keys = {}
    BY <1>5 DEF PlaceInv, ApartInv, SameRow
  <2>3. \A v \in Writers :
          v # w /\ InFlight(v)' /\ (SameRow(w, 0) \/ ~SameRow(w, ent[v].id))' =>
             ent'[v].bundle.keys \cap new = {}
    BY <1>1, <1>5, <1>9 DEF SameRow
  <2>4. \A v \in Writers :
          v # w /\ InFlight(v)' /\ (SameRow(v, 0) \/ ~SameRow(v, ent[w].id))' =>
             ent'[v].bundle.keys \cap new = {}
    BY <1>1, <1>5, <1>9 DEF SameRow
  <2> QED
    BY <1>4, <2>1, <2>2, <2>3, <2>4 DEF PlaceInv, ApartInv
<1>12. VersionInv'
  <2>1. id # 0 => ent'[w].ver <= rows[id].ver
    <3>1. \A r \in RowIds : rows[r] \in Row
      BY DEF TypeOK, RowIds
    <3>2. id # 0 => rows[id].ver \in Nat
      BY <3>1 DEF Row
    <3> QED
      BY <1>1, <3>2
  <2> QED
    BY <1>1, <1>4, <1>5, <2>1 DEF PlaceInv, VersionInv, SameRow
<1>13. PoolInv'
  <2>1. new \cap Handed \subseteq restored
    BY <1>2 DEF PlaceInv, PoolInv, KnownInv, old
  <2>2. \A v \in Writers : v # w => StaleEntity(v)' = StaleEntity(v)
    BY <1>4, <1>5 DEF StaleEntity
  <2> QED
    BY <1>4, <1>5, <2>1, <2>2 DEF PlaceInv, PoolInv
<1>14. HandedOnceUnlessRestored'
  BY <1>4 DEF PlaceInv, HandedOnceUnlessRestored, HandsOut
<1> QED
  BY <1>10, <1>11, <1>12, <1>13, <1>14 DEF PlaceInv

\* INSERT: the entity's prekeys become those of a new row.
LEMMA InsertPlaces ==
    ASSUME TypeOK, PlaceInv, NEW w \in Writers, Insert(w)
    PROVE  PlaceInv'
<1> DEFINE n == Len(rows) + 1
<1>1. /\ ent[w].id = 0
      /\ RowIds' = RowIds \cup {n} /\ n \notin RowIds
      /\ rows'[n].bundle.keys = ent[w].bundle.keys
      /\ \A r \in RowIds : rows'[r] = rows[r]
      /\ Handed' = Handed
  BY InsertEffect
<1>2. InFlight(w) /\ SameRow(w, 0) /\ ~InFlight(w)'
  BY <1>1 DEF Insert, Finish, InFlight, SameRow, TypeOK
<1>3. \A v \in Writers : v # w => InFlight(v)' = InFlight(v)
  BY DEF Insert, Finish, InFlight, TypeOK
<1>4. UNCHANGED <<ipc, got, ent, uploaded, restored>>
  BY DEF Insert
<1>5. \A v \in Writers : \A r : SameRow(v, r)' = SameRow(v, r)
  BY <1>4 DEF SameRow
<1>6. \A v \in Writers : ent[v].id \in RowIds \cup {0} /\ ent[v].id # n
  BY <1>1 DEF TypeOK, Entity, RowIds
<1>7. n # 0 /\ 0 \notin RowIds
  BY DEF TypeOK, RowIds
<1> HIDE DEF n
<1>8. \A r \in RowIds : ent[w].bundle.keys \cap rows[r].bundle.keys = {}
  BY <1>2, <1>7 DEF PlaceInv, ApartInv, SameRow
<1>9. \A v \in Writers : v # w /\ InFlight(v) =>
         ent[w].bundle.keys \cap ent[v].bundle.keys = {}
  BY <1>2 DEF PlaceInv, ApartInv
<1>10. KnownInv'
  BY <1>1, <1>2, <1>3, <1>4 DEF PlaceInv, KnownInv
<1>11. ApartInv'
  <2>1. \A r, s \in RowIds' : r # s => rows'[r].bundle.keys \cap rows'[s].bundle.keys = {}
    BY <1>1, <1>8 DEF PlaceInv, ApartInv
  <2>2. \A v \in Writers, r \in RowIds' :
          InFlight(v)' /\ ~SameRow(v, r) => ent[v].bundle.keys \cap rows'[r].bundle.keys = {}
    BY <1>1, <1>2, <1>3, <1>9 DEF PlaceInv, ApartInv
  <2>3. \A v, u \in Writers :
          InFlight(v)' /\ InFlight(u)' /\ v # u /\ (SameRow(v, 0) \/ ~SameRow(v, ent[u].id)) =>
             ent[v].bundle.keys \cap ent[u].bundle.keys = {}
    BY <1>2, <1>3 DEF PlaceInv, ApartInv
  <2> QED
    BY <1>4, <1>5, <2>1, <2>2, <2>3 DEF ApartInv
<1>12. VersionInv'
  BY <1>1, <1>2, <1>3, <1>4, <1>5, <1>6 DEF PlaceInv, VersionInv, SameRow
<1>13. PoolInv'
  <2>1. \A v \in Writers : SameRow(v, 0) \/ StaleEntity(v)' = StaleEntity(v)
    BY <1>1, <1>4, <1>6 DEF StaleEntity, SameRow
  <2>2. ent[w].bundle.keys \cap Handed \subseteq restored
    BY <1>2 DEF PlaceInv, PoolInv
  <2> QED
    BY <1>1, <1>2, <1>3, <1>4, <1>5, <2>1, <2>2 DEF PlaceInv, PoolInv
<1>14. HandedOnceUnlessRestored'
  BY <1>4 DEF PlaceInv, HandedOnceUnlessRestored, HandsOut
<1> QED
  BY <1>10, <1>11, <1>12, <1>13, <1>14 DEF PlaceInv

\* UPDATE: the row keeps its prekeys or takes the entity's; if the entity was
\* stale, the handed-out ones among them become "restored".
LEMMA UpdatePlaces ==
    ASSUME TypeOK, PlaceInv, NEW w \in Writers, Update(w)
    PROVE  PlaceInv'
<1> DEFINE id == ent[w].id
<1>0. UNCHANGED <<ipc, got, ent, uploaded>>
  BY DEF Update
<1>1. /\ id \in RowIds /\ RowIds' = RowIds
      /\ rows'[id].bundle.keys = Updated(w).bundle.keys
      /\ rows'[id].bundle.keys \in {rows[id].bundle.keys, ent[w].bundle.keys}
      /\ rows'[id].ver = rows[id].ver + 1
      /\ \A r \in RowIds : r # id => rows'[r] = rows[r]
      /\ Handed' = Handed
  BY <1>0, UpdateEffect DEF KeysAt
<1>2. InFlight(w) /\ ~InFlight(w)' /\ id # 0
  BY <1>1 DEF Update, Finish, InFlight, TypeOK, RowIds
<1>3. \A v \in Writers : v # w => InFlight(v)' = InFlight(v)
  BY DEF Update, Finish, InFlight, TypeOK
<1>4. restored' = IF StaleEntity(w) THEN restored \cup (Handed \cap rows'[id].bundle.keys)
                  ELSE restored
  BY <1>1 DEF Update
<1>5. \A v \in Writers : \A r : SameRow(v, r)' = SameRow(v, r)
  BY <1>0 DEF SameRow
<1>6. \A r \in RowIds : rows[r].ver \in Nat
  <2>1. \A r \in RowIds : rows[r] \in Row
    BY DEF TypeOK, RowIds
  <2> QED
    BY <2>1 DEF Row
<1>7. \A v \in Writers : ent[v].ver \in Nat /\ (ent[v].id # 0 => ent[v].id \in RowIds)
  BY DEF TypeOK, Entity, RowIds
<1>8. \A r \in RowIds : r # id => ent[w].bundle.keys \cap rows[r].bundle.keys = {}
  BY <1>2 DEF PlaceInv, ApartInv, SameRow
<1>9. \A v \in Writers : v # w /\ InFlight(v) /\ ~SameRow(v, id) =>
         ent[v].bundle.keys \cap ent[w].bundle.keys = {}
  BY <1>2 DEF PlaceInv, ApartInv
<1> HIDE DEF id
<1>10. KnownInv'
  BY <1>0, <1>1, <1>2, <1>3 DEF PlaceInv, KnownInv
<1>11. ApartInv'
  <2>1. \A r, s \in RowIds : r # s => rows'[r].bundle.keys \cap rows'[s].bundle.keys = {}
    BY <1>1, <1>8 DEF PlaceInv, ApartInv
  <2>2. \A v \in Writers, r \in RowIds :
          InFlight(v)' /\ ~SameRow(v, r) => ent[v].bundle.keys \cap rows'[r].bundle.keys = {}
    BY <1>1, <1>2, <1>3, <1>9 DEF PlaceInv, ApartInv
  <2>3. \A v, u \in Writers :
          InFlight(v)' /\ InFlight(u)' /\ v # u /\ (SameRow(v, 0) \/ ~SameRow(v, ent[u].id)) =>
             ent[v].bundle.keys \cap ent[u].bundle.keys = {}
    BY <1>2, <1>3 DEF PlaceInv, ApartInv
  <2> QED
    BY <1>0, <1>1, <1>5, <2>1, <2>2, <2>3 DEF ApartInv
<1>12. VersionInv'
  <2>1. \A r \in RowIds : rows'[r].ver \in Nat /\ rows[r].ver <= rows'[r].ver
    BY <1>1, <1>6
  <2>2. \A v \in Writers : InFlight(v)' /\ ent[v].id # 0 => ent[v].ver <= rows[ent[v].id].ver
    BY <1>2, <1>3 DEF PlaceInv, VersionInv, SameRow
  <2>3. \A v \in Writers : InFlight(v)' /\ ent[v].id # 0 => ent[v].ver <= rows'[ent[v].id].ver
    BY <1>6, <1>7, <2>1, <2>2
  <2> QED
    BY <1>0, <2>3 DEF VersionInv, SameRow
<1>13. PoolInv'
  <2>1. rows'[id].bundle.keys \cap Handed \subseteq restored'
    <3>1. CASE StaleEntity(w)
      BY <1>4, <3>1
    <3>2. CASE ~StaleEntity(w)
      BY <1>1, <1>2, <1>4, <3>2 DEF PlaceInv, PoolInv
    <3> QED
      BY <3>1, <3>2
  <2>2. restored \subseteq restored'
    BY <1>4
  <2>3. \A r \in RowIds : rows'[r].bundle.keys \cap Handed \subseteq restored'
    BY <1>1, <2>1, <2>2 DEF PlaceInv, PoolInv
  <2>4. ASSUME NEW v \in Writers, InFlight(v)', SameRow(v, 0) \/ ~StaleEntity(v)'
        PROVE  ent[v].bundle.keys \cap Handed \subseteq restored
    <3>1. InFlight(v)
      BY <1>2, <1>3, <2>4
    <3>2. ~SameRow(v, id)
      <4>1. SUFFICES ASSUME ent[v].id = id PROVE FALSE
        BY DEF SameRow
      <4>2. ent[v].ver <= rows[id].ver
        BY <1>2, <3>1, <4>1 DEF PlaceInv, VersionInv, SameRow
      <4>3. ent[v].ver = rows'[id].ver
        BY <1>0, <1>2, <2>4, <4>1 DEF SameRow, StaleEntity
      <4> QED
        BY <1>1, <1>6, <1>7, <4>2, <4>3
    <3>3. SameRow(v, 0) \/ ~StaleEntity(v)
      BY <1>0, <1>1, <1>7, <2>4, <3>2 DEF SameRow, StaleEntity
    <3> QED
      BY <3>1, <3>3 DEF PlaceInv, PoolInv
  <2> QED
    BY <1>0, <1>1, <1>5, <2>2, <2>3, <2>4 DEF PoolInv
<1>14. HandedOnceUnlessRestored'
  BY <1>0, <1>4 DEF PlaceInv, HandedOnceUnlessRestored, HandsOut
<1> QED
  BY <1>10, <1>11, <1>12, <1>13, <1>14 DEF PlaceInv

LEMMA DayPlaces ==
    ASSUME TypeOK, PlaceInv, DayPasses
    PROVE  PlaceInv'
<1>1. /\ RowIds' = RowIds
      /\ \A r \in RowIds : /\ rows'[r].bundle.keys = rows[r].bundle.keys
                           /\ rows'[r].ver = rows[r].ver
      /\ UNCHANGED <<ivars, wvars, uploaded, restored>>
  BY DayEffect DEF KeysAt
<1>2. UNCHANGED <<ipc, got, ent, wpc, uploaded, restored>>
  BY <1>1
<1>3. \A w \in Writers : InFlight(w)' = InFlight(w) /\ \A r : SameRow(w, r)' = SameRow(w, r)
  BY <1>2 DEF InFlight, SameRow
<1>4. \A w \in Writers : ent[w].id # 0 => ent[w].id \in RowIds
  BY DEF TypeOK, Entity, RowIds
<1>5. \A w \in Writers : SameRow(w, 0) \/ StaleEntity(w)' = StaleEntity(w)
  BY <1>1, <1>2, <1>4 DEF SameRow, StaleEntity
<1>6. KnownInv'
  BY <1>1, <1>2, <1>3 DEF PlaceInv, KnownInv, Handed, HandsOut
<1>7. ApartInv'
  BY <1>1, <1>2, <1>3 DEF PlaceInv, ApartInv
<1>8. VersionInv'
  BY <1>1, <1>2, <1>3, <1>4 DEF PlaceInv, VersionInv, SameRow
<1>9. PoolInv'
  BY <1>1, <1>2, <1>3, <1>5 DEF PlaceInv, PoolInv, Handed, HandsOut
<1>10. HandedOnceUnlessRestored'
  BY <1>2 DEF PlaceInv, HandedOnceUnlessRestored, HandsOut
<1> QED
  BY <1>6, <1>7, <1>8, <1>9, <1>10 DEF PlaceInv
-----------------------------------------------------------------------------
LEMMA IInvInit ==
    ASSUME Init
    PROVE  IInv
<1>1. TypeOK
  BY TypeInit
<1>2. Handed = {} /\ \A w \in Writers : ~InFlight(w)
  BY DEF Init, Handed, HandsOut, InFlight
<1>4. \A r \in RowIds : rows[r].bundle.keys = {}
  BY DEF Init, RowIds, UsedUp, NoBundle
<1>3. LockInv /\ ReadInv /\ HandedOnceUnlessRestored
  BY DEF Init, LockInv, ReadInv, Holds, HandsOut, HandedOnceUnlessRestored
<1> QED
  BY <1>1, <1>2, <1>3, <1>4 DEF IInv, KnownInv, ApartInv, VersionInv, PoolInv

LEMMA IInvStep ==
    ASSUME IInv, [Next]_vars
    PROVE  IInv'
<1>1. TypeOK /\ LockInv /\ ReadInv /\ PlaceInv
  BY DEF IInv, PlaceInv
<1>2. CASE Next
  <2>1. TypeOK' /\ LockInv' /\ ReadInv'
    BY <1>1, <1>2, TypeStep, LockStep, ReadStep
  <2>2. PlaceInv'
    BY <1>1, <1>2, QuietSteps, QuietPlaces, CommitPlaces, FindPlaces, InsertPlaces,
       UpdatePlaces, DayPlaces
  <2> QED
    BY <2>1, <2>2 DEF IInv, PlaceInv
<1>3. CASE UNCHANGED vars
  <2>1. TypeOK'
    BY <1>1, <1>3, TypeStep
  <2>2. LockInv' /\ ReadInv'
    BY <1>1, <1>3 DEF LockInv, ReadInv, Holds
  <2>3. Quiet
    BY <1>3 DEF Quiet, HandsOut, InFlight
  <2>4. PlaceInv'
    BY <1>1, <2>3, QuietPlaces
  <2> QED
    BY <2>1, <2>2, <2>4 DEF IInv, PlaceInv
<1> QED
  BY <1>2, <1>3

\* getPrekeyBundle never gives one prekey to two initiators unless a save of
\* the owner's from a stale copy put it back, for any number of initiators,
\* devices, prekeys, publishes and backups and every interleaving of them.
THEOREM HandedOnceCorrect == Spec => []HandedOnceUnlessRestored
<1>1. Spec => []IInv
  BY IInvInit, IInvStep, PTL DEF Spec
<1>2. IInv => HandedOnceUnlessRestored
  BY DEF IInv
<1> QED
  BY <1>1, <1>2, PTL
-----------------------------------------------------------------------------
(* What saves and refusals do, on top of IInv.                             *)

\* An entity that is not stale differs from its row only in what its own
\* request merged into it: a publish can bring a backup and a pool, whose
\* prekeys are new.
CurrentInv ==
    \A w \in Writers :
       InFlight(w) /\ ~SameRow(w, 0) /\ ~StaleEntity(w) =>
          LET old == rows[ent[w].id]
              own == ent[w]
          IN /\ w \in Publishers =>
                   /\ own.bundle.backup \in {old.bundle.backup, w}
                   /\ own.stamp = old.stamp
                   /\ \/ own.bundle.keys = old.bundle.keys
                      \/ own.bundle.keys \cap old.bundle.keys = {}
             /\ w \in Backups =>
                   /\ own.bundle.keys = old.bundle.keys
                   /\ own.bundle.pub = old.bundle.pub

\* A call that took nothing to hand out holds only rows that have nothing.
EmptyInv ==
    \A i \in Initiators :
       ipc[i] = "holding" =>
          \A r \in 1..seen[i] :
             rows[r].bundle.pub => pick[i] # 0 /\ (pool[i] = {} => rows[r].bundle.keys = {})

LEMMA WriterRow ==
    ASSUME TypeOK, NEW w \in Writers, ent[w].id # 0
    PROVE  ent[w].id \in RowIds /\ rows[ent[w].id] \in Row /\ ent[w].ver \in Nat
BY DEF TypeOK, Entity, RowIds

\* A row that is written leaves the entities loaded from it stale.
LEMMA WrittenCurrent ==
    ASSUME TypeOK, VersionInv, CurrentInv, NEW p \in RowIds,
           rows'[p].ver = rows[p].ver + 1,
           \A r \in RowIds : r # p => rows'[r] = rows[r],
           ent' = ent, \A w \in Writers : InFlight(w)' => InFlight(w)
    PROVE  CurrentInv'
<1> SUFFICES ASSUME NEW w \in Writers, InFlight(w), ent[w].id # 0, ~StaleEntity(w)'
             PROVE  ent[w].id # p /\ ~StaleEntity(w)
  BY WriterRow DEF CurrentInv, SameRow
<1>1. ent[w].ver = rows'[ent[w].id].ver
  BY DEF StaleEntity
<1>2. ent[w].ver <= rows[ent[w].id].ver
  BY DEF VersionInv, SameRow
<1>3. ent[w].id \in RowIds /\ rows[ent[w].id].ver \in Nat /\ ent[w].ver \in Nat
  BY WriterRow DEF Row
<1>4. ent[w].id # p
  BY <1>1, <1>2, <1>3
<1> QED
  BY <1>1, <1>3, <1>4 DEF StaleEntity

LEMMA FindCurrent ==
    ASSUME TypeOK, KnownInv, CurrentInv, NEW w \in Writers, FindToPublish(w) \/ FindToBackup(w)
    PROVE  CurrentInv'
<1>1. /\ rows' = rows
      /\ \A v \in Writers : v # w => ent'[v] = ent[v] /\ wpc'[v] = wpc[v]
  BY DEF FindToPublish, FindToBackup, TypeOK
<1>2. ASSUME NEW v \in Writers, v # w, InFlight(v)', ~SameRow(v, 0)', ~StaleEntity(v)'
      PROVE  InFlight(v) /\ ~SameRow(v, 0) /\ ~StaleEntity(v)
  BY <1>1, <1>2 DEF InFlight, SameRow, StaleEntity
<1>3. CASE FindToPublish(w)
  <2>1. PICK d \in Devices : \E r \in Find(d), u \in Uploads(w) :
          ent' = [ent EXCEPT ![w] = [Load(r, d) EXCEPT !.bundle = Merge(@, u)]]
    BY <1>3 DEF FindToPublish
  <2>2. PICK r \in Find(d), u \in Uploads(w) :
          ent' = [ent EXCEPT ![w] = [Load(r, d) EXCEPT !.bundle = Merge(@, u)]]
    BY <2>1
  <2>3. Load(r, d) \in Entity /\ Load(r, d).id = r
    BY LoadType
  <2>4. ent'[w] = [Load(r, d) EXCEPT !.bundle = Merge(@, u)]
    BY <2>2 DEF TypeOK
  <2>5. ent'[w].id = r /\ ent'[w].stamp = Load(r, d).stamp
        /\ ent'[w].bundle = Merge(Load(r, d).bundle, u)
    BY <2>3, <2>4 DEF Entity
  <2>6. ent'[w].bundle.backup \in {Load(r, d).bundle.backup, w}
        /\ ent'[w].bundle.keys \in {Load(r, d).bundle.keys, u.keys}
    <3>1. u.backup \in {w, None} /\ u.keys \subseteq Keys \ uploaded
      BY DEF Uploads
    <3>2. LET b == Load(r, d).bundle
          IN /\ Merge(b, u).backup \in {b.backup, u.backup}
             /\ u.backup = None => Merge(b, u).backup = b.backup
             /\ Merge(b, u).keys \in {b.keys, u.keys}
      BY DEF Merge
    <3> QED
      BY <2>5, <3>1, <3>2
  <2>9. r # 0 => rows[r].bundle.keys \cap u.keys = {}
    <3>1. u.keys \cap uploaded = {}
      BY DEF Uploads
    <3>2. r # 0 => r \in RowIds
      BY LoadType DEF RowIds, TypeOK
    <3> QED
      BY <3>1, <3>2 DEF KnownInv
  <2>7. r # 0 => Load(r, d).bundle = rows[r].bundle /\ Load(r, d).stamp = rows[r].stamp
    BY DEF Load
  <2>8. w \notin Backups
    BY <1>3, PrekeyAssumption DEF FindToPublish
  <2> QED
    BY <1>1, <1>2, <2>5, <2>6, <2>7, <2>8, <2>9 DEF CurrentInv, SameRow
<1>4. CASE FindToBackup(w)
  <2>1. PICK d \in Devices : \E r \in Find(d) :
          ent' = [ent EXCEPT ![w] = [Load(r, d) EXCEPT !.bundle = WithBackup(@, w),
                                                       !.stamp = "recent"]]
    BY <1>4 DEF FindToBackup
  <2>2. PICK r \in Find(d) :
          ent' = [ent EXCEPT ![w] = [Load(r, d) EXCEPT !.bundle = WithBackup(@, w),
                                                       !.stamp = "recent"]]
    BY <2>1
  <2>3. Load(r, d) \in Entity /\ Load(r, d).id = r
    BY LoadType
  <2>4. ent'[w] = [Load(r, d) EXCEPT !.bundle = WithBackup(@, w), !.stamp = "recent"]
    BY <2>2 DEF TypeOK
  <2>5. ent'[w].id = r /\ ent'[w].bundle = WithBackup(Load(r, d).bundle, w)
    BY <2>3, <2>4 DEF Entity
  <2>6. ent'[w].bundle.keys = Load(r, d).bundle.keys /\ ent'[w].bundle.pub = Load(r, d).bundle.pub
    BY <2>3, <2>5 DEF WithBackup, Entity, Bundle
  <2>7. r # 0 => Load(r, d).bundle = rows[r].bundle
    BY DEF Load
  <2>8. w \notin Publishers
    BY <1>4, PrekeyAssumption DEF FindToBackup
  <2> QED
    BY <1>1, <1>2, <2>5, <2>6, <2>7, <2>8 DEF CurrentInv, SameRow
<1> QED
  BY <1>3, <1>4

LEMMA CurrentStep ==
    ASSUME IInv, CurrentInv, [Next]_vars
    PROVE  CurrentInv'
<1>1. TypeOK /\ ReadInv /\ VersionInv /\ KnownInv
  BY DEF IInv
<1>2. CASE Quiet
  BY <1>2 DEF Quiet, CurrentInv, SameRow, StaleEntity
<1>3. ASSUME NEW i \in Initiators, Commit(i) PROVE CurrentInv'
  <2>1. /\ pick[i] \in RowIds /\ rows'[pick[i]].ver = rows[pick[i]].ver + 1
        /\ \A r \in RowIds : r # pick[i] => rows'[r] = rows[r]
    BY <1>1, <1>3, CommitEffect
  <2>2. ent' = ent /\ \A w \in Writers : InFlight(w)' => InFlight(w)
    BY <1>3 DEF Commit, InFlight
  <2> QED
    BY <1>1, <2>1, <2>2, WrittenCurrent
<1>4. ASSUME NEW w \in Writers, Update(w) PROVE CurrentInv'
  <2>1. /\ ent[w].id \in RowIds /\ rows'[ent[w].id].ver = rows[ent[w].id].ver + 1
        /\ \A r \in RowIds : r # ent[w].id => rows'[r] = rows[r]
    BY <1>1, <1>4, UpdateEffect
  <2>2. ent' = ent /\ \A v \in Writers : InFlight(v)' => InFlight(v)
    BY <1>1, <1>4 DEF Update, Finish, InFlight, TypeOK
  <2> QED
    BY <1>1, <2>1, <2>2, WrittenCurrent
<1>5. ASSUME NEW w \in Writers, Insert(w) PROVE CurrentInv'
  <2>1. \A r \in RowIds : rows'[r] = rows[r]
    BY <1>1, <1>5, InsertEffect
  <2>2. ent' = ent /\ \A v \in Writers : InFlight(v)' => InFlight(v)
    BY <1>1, <1>5 DEF Insert, Finish, InFlight, TypeOK
  <2>3. \A v \in Writers : ent[v].id # 0 => rows'[ent[v].id] = rows[ent[v].id]
    BY <1>1, <2>1, WriterRow
  <2> QED
    BY <2>2, <2>3 DEF CurrentInv, SameRow, StaleEntity
<1>6. CASE DayPasses
  BY <1>6 DEF DayPasses, CurrentInv, InFlight
<1>7. CASE UNCHANGED vars
  BY <1>2, <1>7 DEF Quiet, HandsOut, InFlight
<1> QED
  BY <1>1, <1>2, <1>3, <1>4, <1>5, <1>6, <1>7, QuietSteps, FindCurrent

\* A call that holds rows sees them unchanged, whoever steps.
LEMMA HeldRows ==
    ASSUME TypeOK, LockInv, ReadInv, Next, NEW i \in Initiators,
           ipc[i] = "holding", ipc'[i] = "holding", NEW r \in 1..seen[i]
    PROVE  /\ rows'[r].bundle = rows[r].bundle
           /\ pick'[i] = pick[i] /\ pool'[i] = pool[i] /\ seen'[i] = seen[i]
<1>1. r \in RowIds /\ rows[r] \in Row
  BY DEF TypeOK, RowIds
<1>2. ASSUME NEW j \in Initiators, BeginGetBundle(j) \/ LockRows(j)
      PROVE  /\ rows' = rows
             /\ pick'[i] = pick[i] /\ pool'[i] = pool[i] /\ seen'[i] = seen[i]
  <2>1. j # i
    BY <1>2 DEF BeginGetBundle, LockRows
  <2> QED
    BY <1>2, <2>1 DEF BeginGetBundle, LockRows, TypeOK
<1>3. ASSUME NEW j \in Initiators, Commit(j)
      PROVE  /\ rows'[r] = rows[r]
             /\ pick'[i] = pick[i] /\ pool'[i] = pool[i] /\ seen'[i] = seen[i]
  <2>1. j # i /\ ipc[j] = "saved"
    BY <1>3 DEF Commit, Release, TypeOK
  <2>2. pick[j] \in 1..seen[j] /\ \A s \in RowIds : s # pick[j] => rows'[s] = rows[s]
    BY <1>3, CommitEffect
  <2>3. seen[i] = 0 \/ seen[j] = 0
    BY <2>1 DEF LockInv, Holds
  <2>4. r # pick[j]
    BY <2>2, <2>3 DEF TypeOK
  <2> QED
    BY <1>1, <1>3, <2>1, <2>2, <2>4 DEF Commit, Release, TypeOK
<1>4. ASSUME NEW j \in Initiators, NotFound(j) \/ Exhausted(j) \/ Rollback(j)
      PROVE  /\ rows' = rows
             /\ pick'[i] = pick[i] /\ pool'[i] = pool[i] /\ seen'[i] = seen[i]
  <2>1. j # i
    BY <1>4 DEF NotFound, Exhausted, Rollback, Release, TypeOK
  <2> QED
    BY <1>4, <2>1 DEF NotFound, Exhausted, Rollback, Release, TypeOK
<1>9. ASSUME NEW j \in Initiators, TakeKey(j) \/ AnswerBundle(j) \/ LoseAnswer(j)
      PROVE  UNCHANGED <<rows, pick, pool, seen>>
  BY <1>9 DEF TakeKey, AnswerBundle, LoseAnswer
<1>5. ASSUME NEW w \in Writers, Update(w)
      PROVE  rows'[r] = rows[r] /\ UNCHANGED ivars
  <2>1. ent[w].id # r
    BY <1>5 DEF Update, Unlocked, Locks, Holds
  <2>2. \A s \in RowIds : s # ent[w].id => rows'[s] = rows[s]
    BY <1>5, UpdateEffect
  <2> QED
    BY <1>1, <1>5, <2>1, <2>2 DEF Update
<1>6. ASSUME NEW w \in Writers, Insert(w)
      PROVE  rows'[r] = rows[r] /\ UNCHANGED ivars
  BY <1>1, <1>6, InsertEffect DEF Insert
<1>7. ASSUME DayPasses
      PROVE  rows'[r].bundle = rows[r].bundle /\ UNCHANGED ivars
  <2>1. rows'[r] = [rows[r] EXCEPT !.stamp = IF @ = "recent" THEN "old" ELSE @]
    BY <1>1, <1>7 DEF DayPasses
  <2> QED
    BY <1>1, <1>7, <2>1 DEF DayPasses, Row
<1>8. ASSUME NEW w \in Writers,
             FindToPublish(w) \/ FindToBackup(w) \/ RefuseBackup(w) \/ Reselect(w)
             \/ WriterFails(w)
      PROVE  UNCHANGED rows /\ UNCHANGED ivars
  BY <1>8 DEF FindToPublish, FindToBackup, RefuseBackup, Reselect, WriterFails
<1> QED
  BY <1>2, <1>3, <1>4, <1>5, <1>6, <1>7, <1>8, <1>9 DEF Next, GetBundleStep, SaveStep

\* Rows are held from LockRows on, and as many as the SELECT had seen.
LEMMA BeginsToHold ==
    ASSUME TypeOK, Next, NEW i \in Initiators, ipc[i] # "holding", ipc'[i] = "holding"
    PROVE  LockRows(i)
<1>1. ASSUME NEW j \in Initiators, BeginGetBundle(j) \/ NotFound(j) \/ TakeKey(j)
                \/ Commit(j) \/ AnswerBundle(j) \/ LoseAnswer(j) \/ Exhausted(j) \/ Rollback(j)
      PROVE  \E s \in {"select", "notFound", "saved", "committed", "served", "exhausted",
                       "failed"} : ipc' = [ipc EXCEPT ![j] = s]
  BY <1>1 DEF BeginGetBundle, NotFound, TakeKey, Commit, AnswerBundle, LoseAnswer,
              Exhausted, Rollback, Release
<1>2. ASSUME NEW j \in Initiators, LockRows(j)
      PROVE  ipc' = [ipc EXCEPT ![j] = "holding"]
  BY <1>2 DEF LockRows
<1>3. ASSUME NEW w \in Writers, FindToPublish(w) \/ FindToBackup(w) \/ RefuseBackup(w)
                                \/ SaveStep(w) \/ WriterFails(w)
      PROVE  ipc' = ipc
  BY <1>3 DEF FindToPublish, FindToBackup, RefuseBackup, SaveStep, Insert, Reselect,
              Update, WriterFails
<1>4. ASSUME DayPasses PROVE ipc' = ipc
  BY <1>4 DEF DayPasses
<1> QED
  BY <1>1, <1>2, <1>3, <1>4 DEF Next, GetBundleStep, TypeOK

LEMMA SeenKept ==
    ASSUME TypeOK, Next, NEW i \in Initiators, ipc[i] = "holding", ipc'[i] = "holding"
    PROVE  seen'[i] = seen[i]
<1>1. ASSUME NEW j \in Initiators, BeginGetBundle(j) PROVE seen'[i] = seen[i]
  BY <1>1 DEF BeginGetBundle, TypeOK
<1>2. ASSUME NEW j \in Initiators, NotFound(j) \/ Commit(j) \/ Exhausted(j) \/ Rollback(j)
      PROVE  seen'[i] = seen[i]
  <2>1. j # i
    BY <1>2 DEF NotFound, Commit, Exhausted, Rollback, Release, TypeOK
  <2> QED
    BY <1>2, <2>1 DEF NotFound, Commit, Exhausted, Rollback, Release, TypeOK
<1>5. ASSUME NEW j \in Initiators, LockRows(j) \/ TakeKey(j) \/ AnswerBundle(j) \/ LoseAnswer(j)
      PROVE  seen' = seen
  BY <1>5 DEF LockRows, TakeKey, AnswerBundle, LoseAnswer
<1>3. ASSUME NEW w \in Writers, FindToPublish(w) \/ FindToBackup(w) \/ RefuseBackup(w)
                                \/ SaveStep(w) \/ WriterFails(w)
      PROVE  seen' = seen
  BY <1>3 DEF FindToPublish, FindToBackup, RefuseBackup, SaveStep, Insert, Reselect,
              Update, WriterFails
<1>4. ASSUME DayPasses PROVE seen' = seen
  BY <1>4 DEF DayPasses
<1> QED
  BY <1>1, <1>2, <1>3, <1>4, <1>5 DEF Next, GetBundleStep

LEMMA EmptyStep ==
    ASSUME TypeOK, LockInv, ReadInv, EmptyInv, [Next]_vars
    PROVE  EmptyInv'
<1>1. CASE UNCHANGED vars
  BY <1>1 DEF EmptyInv
<1>2. CASE Next
  <2> SUFFICES ASSUME NEW i \in Initiators, ipc'[i] = "holding", NEW r \in 1..seen'[i],
                      rows'[r].bundle.pub
               PROVE  pick'[i] # 0 /\ (pool'[i] = {} => rows'[r].bundle.keys = {})
    BY DEF EmptyInv
  <2>1. CASE ipc[i] = "holding"
    <3>1. seen'[i] = seen[i]
      BY <1>2, <2>1, SeenKept
    <3>2. /\ rows'[r].bundle = rows[r].bundle
          /\ pick'[i] = pick[i] /\ pool'[i] = pool[i]
      BY <1>2, <2>1, <3>1, HeldRows
    <3> QED
      BY <2>1, <3>1, <3>2 DEF EmptyInv
  <2>2. CASE ipc[i] # "holding"
    <3>1. LockRows(i)
      BY <1>2, <2>2, BeginsToHold
    <3>2. PICK c \in Chosen(seen[i]) :
            /\ pick' = [pick EXCEPT ![i] = c]
            /\ pool' = [pool EXCEPT ![i] = IF c = 0 THEN {} ELSE rows[c].bundle.keys]
      BY <3>1 DEF LockRows
    <3>3. rows' = rows /\ seen' = seen
      BY <3>1 DEF LockRows
    <3>4. pick'[i] = c /\ pool'[i] = IF c = 0 THEN {} ELSE rows[c].bundle.keys
      BY <3>2 DEF TypeOK
    <3>5. c \in 1..seen[i] /\ (rows[r].bundle.keys # {} => rows[c].bundle.keys # {})
      BY <3>2, <3>3 DEF Chosen, Newest, IsPrekeyBundle
    <3>6. c # 0
      BY <3>5 DEF TypeOK
    <3> QED
      BY <3>3, <3>4, <3>5, <3>6
  <2> QED
    BY <2>1, <2>2
<1> QED
  BY <1>1, <1>2

LEMMA SavesInvariance == Spec => [](IInv /\ CurrentInv /\ EmptyInv)
<1>1. Init => IInv /\ CurrentInv /\ EmptyInv
  <2>1. Init => CurrentInv /\ EmptyInv
    BY DEF Init, CurrentInv, EmptyInv, InFlight
  <2> QED
    BY <2>1, IInvInit
<1>2. IInv /\ CurrentInv /\ EmptyInv /\ [Next]_vars => IInv' /\ CurrentInv' /\ EmptyInv'
  <2>1. IInv => TypeOK /\ LockInv /\ ReadInv
    BY DEF IInv
  <2> QED
    BY <2>1, IInvStep, CurrentStep, EmptyStep
<1> QED
  BY <1>1, <1>2, PTL DEF Spec

LEMMA PoolStep ==
    ASSUME IInv, CurrentInv, Next, NEW r \in RowIds,
           rows'[r].bundle.keys # rows[r].bundle.keys
    PROVE  \/ \E i \in Initiators :
                /\ ipc[i] = "saved" /\ ipc'[i] = "committed"
                /\ pick[i] = r
                /\ got[i] \in rows[r].bundle.keys
                /\ rows'[r].bundle.keys = rows[r].bundle.keys \ {got[i]}
           \/ \E w \in Publishers :
                /\ Saves(w, r)
                /\ ~StaleEntity(w)
                /\ rows'[r].bundle.keys \cap rows[r].bundle.keys = {}
           \/ \E w \in Writers : Saves(w, r) /\ StaleEntity(w)
<1>1. TypeOK /\ ReadInv
  BY DEF IInv
<1>2. ~Quiet
  BY DEF Quiet
<1>3. ASSUME NEW i \in Initiators, Commit(i)
      PROVE  /\ ipc[i] = "saved" /\ ipc'[i] = "committed"
             /\ pick[i] = r
             /\ got[i] \in rows[r].bundle.keys
             /\ rows'[r].bundle.keys = rows[r].bundle.keys \ {got[i]}
  <2>1. /\ got[i] \in rows[pick[i]].bundle.keys
        /\ rows'[pick[i]].bundle.keys = rows[pick[i]].bundle.keys \ {got[i]}
        /\ \A s \in RowIds : s # pick[i] => rows'[s] = rows[s]
        /\ ipc[i] = "saved" /\ ipc' = [ipc EXCEPT ![i] = "committed"]
    BY <1>1, <1>3, CommitEffect
  <2>2. r = pick[i]
    BY <2>1
  <2> QED
    BY <1>1, <2>1, <2>2 DEF TypeOK
<1>4. ASSUME NEW w \in Writers, FindToPublish(w) \/ FindToBackup(w)
      PROVE  rows' = rows
  BY <1>4 DEF FindToPublish, FindToBackup
<1>5. ASSUME NEW w \in Writers, Insert(w)
      PROVE  rows'[r] = rows[r]
  BY <1>1, <1>5, InsertEffect
<1>6. ASSUME NEW w \in Writers, Update(w)
      PROVE  /\ Saves(w, r)
             /\ \/ StaleEntity(w)
                \/ /\ w \in Publishers
                   /\ rows'[r].bundle.keys \cap rows[r].bundle.keys = {}
  <2>1. /\ KeysAt(ent[w].id)' \in {KeysAt(ent[w].id), ent[w].bundle.keys}
        /\ \A s \in RowIds : s # ent[w].id => rows'[s] = rows[s]
    BY <1>1, <1>6, UpdateEffect
  <2>2. ent' = ent /\ wpc[w] = "update" /\ wpc'[w] = "done"
    BY <1>1, <1>6 DEF Update, Finish, TypeOK
  <2>3. r = ent[w].id
    BY <2>1
  <2>4. r # 0
    BY <1>1 DEF TypeOK, RowIds
  <2>5. rows'[r].bundle.keys = ent[w].bundle.keys
    BY <2>1, <2>2, <2>3 DEF KeysAt
  <2>6. ~StaleEntity(w) => w \in Publishers /\ ent[w].bundle.keys \cap rows[r].bundle.keys = {}
    BY <2>2, <2>3, <2>4, <2>5 DEF CurrentInv, InFlight, SameRow
  <2> QED
    BY <2>2, <2>3, <2>5, <2>6 DEF Saves
<1>7. ASSUME DayPasses
      PROVE  rows'[r].bundle.keys = rows[r].bundle.keys
  BY <1>1, <1>7, DayEffect DEF KeysAt
<1>8. (\E i \in Initiators : Commit(i)) \/ (\E w \in Writers : Update(w))
  BY <1>1, <1>2, <1>4, <1>5, <1>7, QuietSteps
<1> QED
  BY <1>3, <1>6, <1>8

\* A stored pool changes only by the COMMIT of a hand-out, which takes out of
\* it exactly the prekey of that call, by a publish from a current copy, which
\* replaces all of it, or by a save from a stale copy (getPrekeyBundle,
\* publishPrekey, storeSignalKeys).  Failed and rolled back calls and backups
\* made from a current copy change none; stale saves are not excluded.
THEOREM PoolChangesAreExplained == Spec => PoolChangesExplained
<1>1. IInv /\ CurrentInv /\ [Next]_vars =>
        [\A r \in RowIds : rows'[r].bundle.keys # rows[r].bundle.keys =>
            \/ \E i \in Initiators :
                 /\ ipc[i] = "saved" /\ ipc'[i] = "committed"
                 /\ pick[i] = r
                 /\ got[i] \in rows[r].bundle.keys
                 /\ rows'[r].bundle.keys = rows[r].bundle.keys \ {got[i]}
            \/ \E w \in Publishers :
                 /\ Saves(w, r)
                 /\ ~StaleEntity(w)
                 /\ rows'[r].bundle.keys \cap rows[r].bundle.keys = {}
            \/ \E w \in Writers : Saves(w, r) /\ StaleEntity(w)
        ]_vars
  BY PoolStep
<1> QED
  BY <1>1, SavesInvariance, PTL DEF Spec, PoolChangesExplained

LEMMA RefusalStep ==
    ASSUME IInv, EmptyInv, Next, NEW i \in Initiators,
           ipc[i] = "holding", ipc'[i] \in {"exhausted", "notFound"},
           NEW r \in 1..seen[i], rows[r].bundle.pub
    PROVE  ipc'[i] = "exhausted" /\ rows[r].bundle.keys = {}
<1>1. TypeOK
  BY DEF IInv
<1>2. pick[i] # 0 /\ (pool[i] = {} => rows[r].bundle.keys = {})
  BY DEF EmptyInv
<1>3. ASSUME NEW j \in Initiators, BeginGetBundle(j) \/ LockRows(j) \/ TakeKey(j) \/ Commit(j)
                                   \/ AnswerBundle(j) \/ LoseAnswer(j) \/ Rollback(j)
      PROVE  \E s \in {"select", "holding", "saved", "committed", "served", "failed"} :
                ipc' = [ipc EXCEPT ![j] = s]
  BY <1>3 DEF BeginGetBundle, LockRows, TakeKey, Commit, AnswerBundle, LoseAnswer, Rollback,
              Release
<1>4. ASSUME NEW j \in Initiators, NotFound(j) \/ Exhausted(j)
      PROVE  j = i
  BY <1>1, <1>4 DEF NotFound, Exhausted, Release, TypeOK
<1>5. ASSUME NEW w \in Writers, FindToPublish(w) \/ FindToBackup(w) \/ RefuseBackup(w)
                                \/ SaveStep(w) \/ WriterFails(w)
      PROVE  ipc' = ipc
  BY <1>5 DEF FindToPublish, FindToBackup, RefuseBackup, SaveStep, Insert, Reselect,
              Update, WriterFails
<1>6. ASSUME DayPasses PROVE ipc' = ipc
  BY <1>6 DEF DayPasses
<1>7. NotFound(i) \/ Exhausted(i)
  BY <1>1, <1>3, <1>4, <1>5, <1>6 DEF Next, GetBundleStep, TypeOK
<1>8. Exhausted(i)
  BY <1>2, <1>7 DEF NotFound
<1> QED
  BY <1>1, <1>2, <1>8 DEF Exhausted, Release, TypeOK

\* "No one-time prekey left" and 404 are true of all rows that the caller has
\* locked, at the moment it is told, with any number of rows and of concurrent
\* requests (getPrekeyBundle).
THEOREM EmptyOnlyWhenEmpty == Spec => EmptyHandedOnlyWhenEmpty
<1>1. IInv /\ EmptyInv /\ [Next]_vars =>
        [\A i \in Initiators :
            ipc[i] = "holding" /\ ipc'[i] \in {"exhausted", "notFound"} =>
               \A r \in 1..seen[i] :
                  rows[r].bundle.pub => ipc'[i] = "exhausted" /\ rows[r].bundle.keys = {}
        ]_vars
  BY RefusalStep
<1> QED
  BY <1>1, SavesInvariance, PTL DEF Spec, EmptyHandedOnlyWhenEmpty

\* Only its own UPDATE ends a save that has reselected its row.
LEMMA EndsByUpdate ==
    ASSUME TypeOK, Next, NEW w \in Writers, wpc[w] = "update", wpc'[w] = "done"
    PROVE  Update(w)
<1>1. ASSUME NEW i \in Initiators,
             BeginGetBundle(i) \/ GetBundleStep(i) \/ Rollback(i) \/ LoseAnswer(i)
      PROVE  wpc' = wpc
  BY <1>1 DEF BeginGetBundle, GetBundleStep, LockRows, NotFound, TakeKey, Commit,
              AnswerBundle, LoseAnswer, Exhausted, Rollback
<1>2. ASSUME NEW v \in Writers, FindToPublish(v) \/ FindToBackup(v) \/ RefuseBackup(v)
                                \/ Reselect(v) \/ WriterFails(v)
      PROVE  \E s \in {"save", "refused", "update", "failed"} : wpc' = [wpc EXCEPT ![v] = s]
  BY <1>2 DEF FindToPublish, FindToBackup, RefuseBackup, Reselect, WriterFails, Finish
<1>3. ASSUME NEW v \in Writers, Insert(v) \/ Update(v)
      PROVE  v = w /\ ~Insert(v)
  BY <1>3 DEF Insert, Update, Finish, TypeOK
<1>4. ASSUME DayPasses PROVE wpc' = wpc
  BY <1>4 DEF DayPasses
<1> QED
  BY <1>1, <1>2, <1>3, <1>4 DEF Next, SaveStep, TypeOK

LEMMA SaveLosesNothing ==
    ASSUME IInv, CurrentInv, Next, NEW w \in Writers,
           Saves(w, ent[w].id), ~StaleEntity(w)
    PROVE  LET r == ent[w].id
           IN IF w \in Publishers
              THEN /\ rows'[r].bundle.backup \in {rows[r].bundle.backup, w}
                   /\ rows'[r].stamp = rows[r].stamp
              ELSE /\ rows'[r].bundle.keys = rows[r].bundle.keys
                   /\ rows'[r].bundle.pub = rows[r].bundle.pub
<1>1. TypeOK /\ Update(w)
  BY EndsByUpdate DEF IInv, Saves
<1>2. ent[w].id # 0 /\ ent[w].id \in RowIds
  BY <1>1, WriterRow DEF TypeOK, Saves
<1>3. rows'[ent[w].id] = Updated(w)
  BY <1>1, <1>2 DEF Update, TypeOK, RowIds
<1>4. /\ rows'[ent[w].id].bundle \in {ent[w].bundle, rows[ent[w].id].bundle}
      /\ rows'[ent[w].id].stamp \in {ent[w].stamp, rows[ent[w].id].stamp}
  BY <1>3 DEF Updated, Written
<1> QED
  BY <1>2, <1>4 DEF CurrentInv, InFlight, SameRow, Saves

\* As long as its copy is current, a publish keeps the 24 hour stamp and (if it
\* carries none of its own) the backup that others wrote, and a backup keeps the pool, whatever ran in between
\* (publishPrekey, storeSignalKeys).
THEOREM CurrentSavesLoseNothing == Spec => CurrentSaveLosesNothing
<1>1. IInv /\ CurrentInv /\ [Next]_vars =>
        [\A w \in Writers :
            Saves(w, ent[w].id) /\ ~StaleEntity(w) =>
               LET r == ent[w].id
               IN IF w \in Publishers
                  THEN /\ rows'[r].bundle.backup \in {rows[r].bundle.backup, w}
                       /\ rows'[r].stamp = rows[r].stamp
                  ELSE /\ rows'[r].bundle.keys = rows[r].bundle.keys
                       /\ rows'[r].bundle.pub = rows[r].bundle.pub
        ]_vars
  BY SaveLosesNothing
<1> QED
  BY <1>1, SavesInvariance, PTL DEF Spec, CurrentSaveLosesNothing
=============================================================================
