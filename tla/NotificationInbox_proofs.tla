----------------------- MODULE NotificationInbox_proofs -----------------------
(* Reading, deleting and turning pages, proved for any users, rows and page     *)
(* size, and any number of requests at a time.                                  *)
EXTENDS NotificationInbox, FunctionTheorems, FiniteSetTheorems, TLAPS

\* What a request holds was a row once.
EntityInv == \A r \in Requests : entity[r] # None => entity[r].id \in issued

\* What an owner was told is read is read if it is there.
AckInv == \A i \in acked : row[i] # None => row[i].read

RowInv == TypeOK /\ EntityInv /\ AckInv

-------------------------------------------------------------------------------
(* Rows.                                                                        *)

LEMMA RowsInit == Init => RowInv
<1> SUFFICES ASSUME Init PROVE RowInv
  OBVIOUS
<1>1. TypeOK
  BY DEF Init, TypeOK
<1> QED
  BY <1>1 DEF Init, RowInv, EntityInv, AckInv

\* createNotification and the consumer of the queue.
LEMMA SaveNewInv ==
    ASSUME RowInv, NEW u \in Users, NEW i \in Ids, NEW t \in Times, SaveNew(u, i, t)
    PROVE  RowInv'
<1> DEFINE new == [user |-> u, at |-> t, read |-> FALSE]
<1>1. new \in Row
  BY DEF Row
<1>2. row' = [row EXCEPT ![i] = new] /\ issued' = issued \cup {i} /\ i \notin issued
  BY DEF SaveNew
<1>3. UNCHANGED <<pc, entity, acked, reader>>
  BY DEF SaveNew
<1> HIDE DEF new
<1>4. TypeOK'
  BY <1>1, <1>2, <1>3 DEF RowInv, TypeOK
<1>5. EntityInv' /\ AckInv'
  BY <1>2, <1>3 DEF RowInv, TypeOK, EntityInv, AckInv
<1> QED
  BY <1>4, <1>5 DEF RowInv

LEMMA CreateInv ==
    ASSUME RowInv, NEW u \in Users, NEW i \in Ids, NEW t \in Times, CreateNotification(u, i, t)
    PROVE  RowInv' /\ SaveNew(u, i, t)
<1>1. SaveNew(u, i, t)
  BY DEF CreateNotification, Accepts
<1> QED
  BY <1>1, SaveNewInv

LEMMA FindInv ==
    ASSUME RowInv, NEW r \in Requests, NEW u \in Users, NEW i \in Ids,
           NEW next \in {"select", "remove"}, Find(r, u, i, next)
    PROVE  RowInv'
<1> DEFINE found == [id |-> i, row |-> row[i]]
<1>1. row[i] \in Row /\ i \in issued
  BY DEF Find, Finds, Rows, RowInv, TypeOK
<1>2. found \in Entity /\ found.id = i
  BY <1>1 DEF Entity
<1>3. found # None
  BY <1>2, InboxAssumption
<1>4. entity' = [entity EXCEPT ![r] = found] /\ pc' = [pc EXCEPT ![r] = next]
  BY DEF Find
<1>5. UNCHANGED <<row, issued, acked, reader>>
  BY DEF Find
<1> HIDE DEF found
<1>6. TypeOK'
  BY <1>2, <1>3, <1>4, <1>5 DEF RowInv, TypeOK
<1>7. EntityInv' /\ AckInv'
  BY <1>1, <1>2, <1>4, <1>5 DEF RowInv, TypeOK, EntityInv, AckInv
<1> QED
  BY <1>6, <1>7 DEF RowInv

\* What a request that has begun holds.
LEMMA Holds ==
    ASSUME RowInv, NEW r \in Requests, pc[r] # "idle"
    PROVE  /\ entity[r] \in Entity
           /\ entity[r].id \in issued
           /\ entity[r].id \in Ids
           /\ entity[r].row \in Row
<1>1. entity[r] \in Entity
  BY DEF RowInv, TypeOK
<1> QED
  BY <1>1, InboxAssumption DEF Entity, RowInv, EntityInv

\* The end of a request.
LEMMA OverInv ==
    ASSUME RowInv, NEW r \in Requests, Over(r), UNCHANGED issued
    PROVE  /\ pc' \in [Requests -> {"idle", "select", "update", "insert", "remove"}]
           /\ entity' \in [Requests -> Entity \cup {None}]
           /\ \A q \in Requests : (pc[q] = "idle" <=> entity[q] = None)'
           /\ EntityInv'
BY DEF RowInv, TypeOK, Over, EntityInv

LEMMA SelectAgainInv ==
    ASSUME RowInv, NEW r \in Requests, SelectAgain(r)
    PROVE  RowInv'
<1>1. pc[r] = "select" /\ UNCHANGED <<row, issued, reader>>
  BY DEF SelectAgain
<1>2. entity[r] \in Entity /\ entity[r].id \in issued
  BY <1>1, Holds
<1>3. CASE Over(r) /\ row[entity[r].id].read /\ acked' = acked \cup {entity[r].id}
  <2>1. TypeOK'
    BY <1>1, <1>2, <1>3, OverInv DEF RowInv, TypeOK
  <2>2. EntityInv' /\ AckInv'
    BY <1>1, <1>3, OverInv DEF RowInv, AckInv
  <2> QED
    BY <2>1, <2>2 DEF RowInv
<1>4. CASE /\ \/ pc' = [pc EXCEPT ![r] = "insert"]
              \/ pc' = [pc EXCEPT ![r] = "update"]
           /\ UNCHANGED <<entity, acked>>
  <2>1. entity[r] # None
    BY <1>1 DEF RowInv, TypeOK
  <2>2. TypeOK'
    BY <1>1, <1>4, <2>1 DEF RowInv, TypeOK
  <2> QED
    BY <1>1, <1>4, <2>2 DEF RowInv, EntityInv, AckInv
<1> QED
  BY <1>3, <1>4 DEF SelectAgain

LEMMA UpdateReadInv ==
    ASSUME RowInv, NEW r \in Requests, UpdateRead(r)
    PROVE  RowInv'
<1> DEFINE i == entity[r].id
           new == IF row[i] = None THEN None ELSE [row[i] EXCEPT !.read = TRUE]
<1>1. pc[r] = "update" /\ UNCHANGED <<issued, reader>> /\ Over(r)
  BY DEF UpdateRead
<1>2. i \in issued /\ i \in Ids
  BY <1>1, Holds
<1>3. row' = [row EXCEPT ![i] = new] /\ acked' = acked \cup {i}
  BY DEF UpdateRead
<1>4. row[i] # None => row[i] \in Row
  BY <1>2 DEF RowInv, TypeOK
<1>5. /\ new \in Row \cup {None}
      /\ row[i] = None => new = None
      /\ new # None => new.read
  BY <1>4 DEF Row
<1> HIDE DEF i, new
<1>6. TypeOK'
  BY <1>1, <1>2, <1>3, <1>5, OverInv DEF RowInv, TypeOK
<1>7. AckInv'
  BY <1>2, <1>3, <1>5 DEF RowInv, TypeOK, AckInv
<1> QED
  BY <1>1, <1>6, <1>7, OverInv DEF RowInv

LEMMA MarkedTyped ==
    ASSUME RowInv, NEW r \in Requests, pc[r] # "idle"
    PROVE  Revived(r) \in Row /\ Revived(r).read
<1>1. entity[r].row \in Row
  BY Holds
<1> QED
  BY <1>1 DEF Revived, Marked, Row

LEMMA InsertAgainInv ==
    ASSUME RowInv, NEW r \in Requests, InsertAgain(r)
    PROVE  RowInv'
<1> DEFINE i == entity[r].id
<1>1. pc[r] = "insert" /\ UNCHANGED <<issued, reader>> /\ Over(r)
  BY DEF InsertAgain
<1>2. i \in issued /\ i \in Ids /\ Revived(r) \in Row /\ Revived(r).read
  BY <1>1, Holds, MarkedTyped
<1>3. \/ row' = [row EXCEPT ![i] = Revived(r)] /\ acked' = acked \cup {i}
      \/ UNCHANGED <<row, acked>>
  BY DEF InsertAgain
<1> HIDE DEF i
<1>4. TypeOK'
  <2>1. row' \in [Ids -> Row \cup {None}]
    BY <1>2, <1>3 DEF RowInv, TypeOK
  <2>2. acked' \subseteq issued /\ \A j \in Ids : row'[j] # None => j \in issued
    BY <1>2, <1>3 DEF RowInv, TypeOK
  <2> QED
    BY <1>1, <2>1, <2>2, OverInv DEF RowInv, TypeOK
<1>5. AckInv'
  BY <1>2, <1>3 DEF RowInv, TypeOK, AckInv
<1> QED
  BY <1>1, <1>4, <1>5, OverInv DEF RowInv

\* MarkAllAsRead changes no row but by reading it.
LEMMA MarkedAllRows ==
    ASSUME RowInv, NEW u \in Users
    PROVE  /\ MarkedAll(u) \in [Ids -> Row \cup {None}]
           /\ \A i \in Ids :
                  /\ row[i] = None => MarkedAll(u)[i] = None
                  /\ row[i] # None => /\ MarkedAll(u)[i] \in Row
                                      /\ MarkedAll(u)[i].user = row[i].user
                                      /\ MarkedAll(u)[i].at = row[i].at
                                      /\ row[i].read \/ i \in Rows(u) => MarkedAll(u)[i].read
<1> SUFFICES ASSUME NEW i \in Ids
             PROVE  /\ MarkedAll(u)[i] \in Row \cup {None}
                    /\ row[i] = None => MarkedAll(u)[i] = None
                    /\ row[i] # None => /\ MarkedAll(u)[i] \in Row
                                        /\ MarkedAll(u)[i].user = row[i].user
                                        /\ MarkedAll(u)[i].at = row[i].at
                                        /\ row[i].read \/ i \in Rows(u) => MarkedAll(u)[i].read
  BY DEF MarkedAll
<1>1. row[i] # None => row[i] \in Row
  BY DEF RowInv, TypeOK
<1>2. CASE i \in Unread(u)
  <2>1. MarkedAll(u)[i] = [row[i] EXCEPT !.read = TRUE] /\ row[i] # None
    BY <1>2 DEF MarkedAll, Unread, Rows
  <2> QED
    BY <1>1, <2>1 DEF Row
<1>3. CASE i \notin Unread(u)
  <2>1. MarkedAll(u)[i] = row[i]
    BY <1>3 DEF MarkedAll
  <2> QED
    BY <1>1, <1>3, <2>1 DEF Unread
<1> QED
  BY <1>2, <1>3

LEMMA MarkAllInv ==
    ASSUME RowInv, NEW u \in Users, MarkAllAsRead(u)
    PROVE  RowInv'
<1>1. row' = MarkedAll(u) /\ acked' = acked \cup Rows(u)
  BY DEF MarkAllAsRead
<1>2. UNCHANGED <<issued, pc, entity, reader>>
  BY DEF MarkAllAsRead
<1>3. Rows(u) \subseteq issued
  BY DEF RowInv, TypeOK, Rows
<1>4. TypeOK'
  BY <1>1, <1>2, <1>3, MarkedAllRows DEF RowInv, TypeOK
<1>5. AckInv'
  BY <1>1, MarkedAllRows DEF RowInv, TypeOK, AckInv, Rows
<1> QED
  BY <1>2, <1>4, <1>5 DEF RowInv, EntityInv

LEMMA ReaderTyped ==
    ASSUME RowInv, reader # None
    PROVE  /\ reader.user \in Users
           /\ reader.offset \in Nat
           /\ reader.unseen \subseteq Ids
           /\ reader.deleted \in 0..Cardinality(Ids)
           /\ reader.done \in BOOLEAN
BY DEF RowInv, TypeOK, Reader

LEMMA IdsFinite == IsFiniteSet(Ids) /\ Cardinality(Ids) \in Nat
BY InboxAssumption, FS_CardinalityType

\* What a deletion of the row i does to the reader.
LEMMA LosesTyped ==
    ASSUME RowInv, NEW i \in Ids
    PROVE  /\ ReaderLoses(i) \in Reader \cup {None}
           /\ reader # None /\ i \in Rows(reader.user) =>
                  /\ ReaderLoses(i).user = reader.user
                  /\ ReaderLoses(i).offset = reader.offset
                  /\ ReaderLoses(i).done = reader.done
                  /\ ReaderLoses(i).unseen = reader.unseen \ {i}
                  /\ \/ ReaderLoses(i).deleted = reader.deleted + 1
                     \/ ReaderLoses(i).deleted = Cardinality(Ids)
           /\ ~(reader # None /\ i \in Rows(reader.user)) => ReaderLoses(i) = reader
<1>1. CASE reader # None /\ row[i] # None /\ row[i].user = reader.user
  <2> DEFINE d == IF reader.deleted < Cardinality(Ids) THEN reader.deleted + 1 ELSE reader.deleted
             lost == [reader EXCEPT !.unseen = reader.unseen \ {i}, !.deleted = d]
  <2>1. reader \in Reader
    BY <1>1 DEF RowInv, TypeOK
  <2>2. reader.deleted \in 0..Cardinality(Ids) /\ Cardinality(Ids) \in Nat
    BY <1>1, ReaderTyped, IdsFinite
  <2>3. d \in 0..Cardinality(Ids) /\ (d = reader.deleted + 1 \/ d = Cardinality(Ids))
    BY <2>2
  <2>4. ReaderLoses(i) = lost
    BY <1>1 DEF ReaderLoses
  <2> HIDE DEF d
  <2>5. /\ lost \in Reader
        /\ lost.user = reader.user /\ lost.offset = reader.offset /\ lost.done = reader.done
        /\ lost.unseen = reader.unseen \ {i} /\ lost.deleted = d
    BY <2>1, <2>3 DEF Reader
  <2> HIDE DEF lost
  <2> QED
    BY <1>1, <2>3, <2>4, <2>5 DEF Rows
<1>2. CASE ~(reader # None /\ row[i] # None /\ row[i].user = reader.user)
  BY <1>2 DEF ReaderLoses, RowInv, TypeOK, Rows
<1> QED
  BY <1>1, <1>2

LEMMA RemoveInv ==
    ASSUME RowInv, NEW r \in Requests, Remove(r)
    PROVE  RowInv'
<1> DEFINE i == entity[r].id
<1>1. pc[r] = "remove" /\ UNCHANGED <<issued, acked>> /\ Over(r)
  BY DEF Remove
<1>2. i \in Ids
  BY <1>1, Holds
<1>3. row' = [row EXCEPT ![i] = None] /\ reader' = ReaderLoses(i)
  BY DEF Remove
<1> HIDE DEF i
<1>4. reader' \in Reader \cup {None}
  BY <1>2, <1>3, LosesTyped
<1>5. TypeOK'
  BY <1>1, <1>2, <1>3, <1>4, OverInv DEF RowInv, TypeOK
<1>6. AckInv'
  BY <1>1, <1>2, <1>3 DEF RowInv, TypeOK, AckInv
<1> QED
  BY <1>1, <1>5, <1>6, OverInv DEF RowInv

LEMMA FailsInv ==
    ASSUME RowInv, NEW r \in Requests, Fails(r)
    PROVE  RowInv'
<1>1. TypeOK'
  BY OverInv DEF Fails, RowInv, TypeOK
<1> QED
  BY <1>1, OverInv DEF Fails, RowInv, AckInv

LEMMA StartReadingInv ==
    ASSUME RowInv, NEW u \in Users, StartReading(u)
    PROVE  RowInv' /\ reader' \in Reader
<1>1. Rows(u) \in SUBSET Ids
  BY DEF Rows
<1>2. reader' \in Reader
  BY <1>1, IdsFinite DEF StartReading, Reader
<1>3. UNCHANGED <<row, issued, pc, entity, acked>>
  BY DEF StartReading
<1> QED
  BY <1>2, <1>3 DEF RowInv, TypeOK, EntityInv, AckInv

\* What a page does to the reader.
LEMMA PageRead ==
    ASSUME RowInv, GetNotifications
    PROVE  /\ reader # None /\ ~reader.done
           /\ UNCHANGED <<row, issued, pc, entity, acked>>
           /\ reader' \in Reader
           /\ reader'.user = reader.user
           /\ reader'.offset = reader.offset + PageSize
           /\ reader'.deleted = reader.deleted
           /\ \E place \in Orders(Rows(reader.user)) :
                  LET page == Page(Rows(reader.user), place, reader.offset)
                  IN /\ reader'.unseen = reader.unseen \ (page \cup Tied(reader.user))
                     /\ reader'.done = (Cardinality(page) < PageSize)
<1> DEFINE page(place) == Page(Rows(reader.user), place, reader.offset)
           unseen(place) == reader.unseen \ (page(place) \cup Tied(reader.user))
           done(place) == Cardinality(page(place)) < PageSize
<1>1. PICK place \in Orders(Rows(reader.user)) :
          reader' = [reader EXCEPT !.offset = reader.offset + PageSize,
                                   !.unseen = unseen(place), !.done = done(place)]
  BY DEF GetNotifications
<1>2. reader \in Reader /\ reader # None /\ ~reader.done
  BY DEF GetNotifications, RowInv, TypeOK
<1>3. reader.offset + PageSize \in Nat /\ unseen(place) \in SUBSET Ids /\ done(place) \in BOOLEAN
  BY <1>2, InboxAssumption DEF Reader
<1>4. UNCHANGED <<row, issued, pc, entity, acked>>
  BY DEF GetNotifications
<1>5. reader' \in Reader
  <2> HIDE DEF unseen, done
  <2> QED
    BY <1>1, <1>2, <1>3 DEF Reader
<1>6. /\ reader'.user = reader.user
      /\ reader'.offset = reader.offset + PageSize
      /\ reader'.deleted = reader.deleted
      /\ reader'.unseen = unseen(place)
      /\ reader'.done = done(place)
  <2> HIDE DEF unseen, done
  <2> QED
    BY <1>1, <1>2 DEF Reader
<1> QED
  BY <1>2, <1>4, <1>5, <1>6

LEMMA GetNotificationsInv ==
    ASSUME RowInv, GetNotifications
    PROVE  RowInv'
BY PageRead DEF RowInv, TypeOK, EntityInv, AckInv

LEMMA RowsNext == RowInv /\ [Next]_vars => RowInv'
<1> SUFFICES ASSUME RowInv, [Next]_vars PROVE RowInv'
  OBVIOUS
<1>1. CASE StoreStep
  BY <1>1, CreateInv, SaveNewInv DEF StoreStep, Arrive
<1>2. ASSUME NEW r \in Requests, RequestStep(r) PROVE RowInv'
  BY <1>2, FindInv, SelectAgainInv, UpdateReadInv, InsertAgainInv, RemoveInv, FailsInv
     DEF RequestStep, FindToMark, FindToDelete
<1>3. CASE UNCHANGED vars
  BY <1>3 DEF vars, RowInv, TypeOK, EntityInv, AckInv
<1> QED
  BY <1>1, <1>2, <1>3, MarkAllInv, StartReadingInv, GetNotificationsInv DEF Next

LEMMA RowInvariance == Spec => []RowInv
BY RowsInit, RowsNext, PTL DEF Spec

-------------------------------------------------------------------------------
\* Rows, requests and the reader are always of their types
\* (NotificationController.ts).
THEOREM TypeCorrect == Spec => []TypeOK
<1>1. RowInv => TypeOK
  BY DEF RowInv
<1> QED
  BY <1>1, RowInvariance, PTL

\* No mixture of saves from old entities, bulk updates, deletions and insertions
\* makes a notification unread that its owner was told is read, with any number of
\* requests at a time (markAsRead, markAllAsRead, getUnreadCount).
THEOREM AcknowledgedIsReadAlways == Spec => []AcknowledgedIsRead
<1>1. RowInv => AcknowledgedIsRead
  BY DEF RowInv, AckInv, AcknowledgedIsRead, Unread, Rows
<1> QED
  BY <1>1, RowInvariance, PTL

-------------------------------------------------------------------------------
(* Deletions.                                                                   *)

LEMMA BuriedStep ==
    ASSUME RowInv, [Next]_vars, NEW i \in Ids, Buried(i)
    PROVE  Buried(i)'
<1>1. i \in issued /\ row[i] = None
  BY DEF Buried
<1>2. issued \subseteq issued'
  BY DEF Next, StoreStep, CreateNotification, Arrive, SaveNew, RequestStep, FindToMark,
         FindToDelete, Find, SelectAgain, UpdateRead, InsertAgain, Remove, Fails,
         MarkAllAsRead, StartReading, GetNotifications, vars
<1>3. ASSUME UNCHANGED <<row, pc, entity>> PROVE Buried(i)'
  BY <1>1, <1>2, <1>3 DEF Buried
<1>4. ASSUME NEW u \in Users, NEW j \in Ids, NEW t \in Times, SaveNew(u, j, t)
      PROVE  Buried(i)'
  BY <1>1, <1>4 DEF SaveNew, Buried, RowInv, TypeOK
<1>5. ASSUME NEW r \in Requests, RequestStep(r) PROVE Buried(i)'
  <2>1. ASSUME row'[i] = None,
               \A q \in Requests : pc'[q] # "idle" => pc[q] # "idle" /\ entity'[q] = entity[q],
               \A q \in Requests : pc'[q] \in {"select", "update", "insert"} =>
                                     pc[q] \in {"select", "update", "insert"}
        PROVE  Buried(i)'
    BY <1>1, <1>2, <2>1 DEF Buried
  <2>2. ASSUME NEW u \in Users, NEW j \in Ids, NEW next \in {"select", "remove"},
               Find(r, u, j, next)
        PROVE  Buried(i)'
    <3>1. j # i
      BY <1>1, <2>2 DEF Find, Finds, Rows
    <3>2. entity'[r].id = j /\ UNCHANGED row
      BY <2>2 DEF Find, RowInv, TypeOK
    <3>3. \A q \in Requests \ {r} : pc'[q] = pc[q] /\ entity'[q] = entity[q]
      BY <2>2 DEF Find, RowInv, TypeOK
    <3> QED
      BY <1>1, <1>2, <3>1, <3>2, <3>3 DEF Buried
  <2>3. ASSUME SelectAgain(r) PROVE Buried(i)'
    BY <1>1, <2>1, <2>3 DEF SelectAgain, Over, RowInv, TypeOK
  <2>4. ASSUME UpdateRead(r) PROVE Buried(i)'
    <3>1. row'[i] = None
      BY <1>1, <2>4 DEF UpdateRead, RowInv, TypeOK
    <3> QED
      BY <2>1, <2>4, <3>1 DEF UpdateRead, Over, RowInv, TypeOK
  <2>5. ASSUME InsertAgain(r) PROVE Buried(i)'
    <3>1. entity[r].id # i
      BY <2>5 DEF InsertAgain, Buried
    <3>2. row'[i] = None
      BY <1>1, <2>5, <3>1 DEF InsertAgain, RowInv, TypeOK
    <3> QED
      BY <2>1, <2>5, <3>2 DEF InsertAgain, Over, RowInv, TypeOK
  <2>6. ASSUME Remove(r) PROVE Buried(i)'
    BY <1>1, <2>1, <2>6 DEF Remove, Over, RowInv, TypeOK
  <2>7. ASSUME Fails(r) PROVE Buried(i)'
    BY <1>1, <2>1, <2>7 DEF Fails, Over, RowInv, TypeOK
  <2> QED
    BY <1>5, <2>2, <2>3, <2>4, <2>5, <2>6, <2>7 DEF RequestStep, FindToMark, FindToDelete
<1>6. ASSUME NEW u \in Users, MarkAllAsRead(u) PROVE Buried(i)'
  <2>1. row'[i] = None /\ UNCHANGED <<pc, entity>>
    BY <1>1, <1>6, MarkedAllRows DEF MarkAllAsRead
  <2> QED
    BY <1>1, <1>2, <2>1 DEF Buried
<1>7. ASSUME NEW u \in Users, StartReading(u) PROVE Buried(i)'
  BY <1>3, <1>7 DEF StartReading
<1>8. CASE GetNotifications
  BY <1>3, <1>8 DEF GetNotifications
<1>9. CASE UNCHANGED vars
  BY <1>3, <1>9 DEF vars
<1> QED
  BY <1>4, <1>5, <1>6, <1>7, <1>8, <1>9, CreateInv DEF Next, StoreStep, Arrive

\* A deleted notification that no running markAsRead had found stays deleted,
\* whatever any number of other requests do (markAsRead, deleteNotification).
THEOREM BuriedForGood == Spec => BuriedStaysBuried
<1>1. RowInv /\ [Next]_vars => [\A i \in Ids : Buried(i) => Buried(i)']_vars
  BY BuriedStep
<1> QED
  BY <1>1, RowInvariance, PTL DEF Spec, BuriedStaysBuried

-------------------------------------------------------------------------------
(* Turning pages.  A row is passed when the offset is past its place; at every  *)
(* moment the reader has missed rows of at most as many times as it has lost    *)
(* rows to deletions.                                                           *)

\* The rows that stand before i whatever order rows of equal createdAt have.
Newer(i) == {j \in Rows(reader.user) : row[j].at > row[i].at}

Passed == {i \in reader.unseen : Cardinality(Newer(i)) < reader.offset}

PassedTimes == {row[i].at : i \in Passed}

ReadInv ==
    reader # None =>
        /\ reader.unseen \subseteq Rows(reader.user)
        /\ ~reader.done => Cardinality(PassedTimes) <= reader.deleted
        /\ reader.done => Cardinality(reader.unseen) <= reader.deleted

LEMMA RowsTyped ==
    ASSUME RowInv, NEW u
    PROVE  /\ Rows(u) \subseteq Ids
           /\ IsFiniteSet(Rows(u))
           /\ \A i \in Rows(u) : row[i].at \in Nat
<1>1. Rows(u) \subseteq Ids
  BY DEF Rows
<1>2. IsFiniteSet(Rows(u))
  BY <1>1, IdsFinite, FS_Subset
<1>3. \A i \in Rows(u) : row[i] \in Row
  BY DEF Rows, RowInv, TypeOK
<1> QED
  BY <1>1, <1>2, <1>3, InboxAssumption DEF Row

LEMMA NewerFinite ==
    ASSUME RowInv, NEW i
    PROVE  IsFiniteSet(Newer(i)) /\ Cardinality(Newer(i)) \in Nat
<1>1. Newer(i) \subseteq Rows(reader.user)
  BY DEF Newer
<1>2. IsFiniteSet(Newer(i))
  BY <1>1, RowsTyped, FS_Subset
<1> QED
  BY <1>2, FS_CardinalityType

\* Of two rows, the older one has more before it.
LEMMA NewerGrows ==
    ASSUME RowInv, NEW a \in Rows(reader.user), NEW b \in Rows(reader.user),
           row[a].at > row[b].at
    PROVE  Cardinality(Newer(a)) < Cardinality(Newer(b))
<1>1. row[a].at \in Nat /\ row[b].at \in Nat /\ \A j \in Rows(reader.user) : row[j].at \in Nat
  BY RowsTyped
<1>2. Newer(a) \subseteq Newer(b)
  BY <1>1 DEF Newer
<1>3. a \in Newer(b) /\ a \notin Newer(a)
  BY <1>1 DEF Newer
<1>4. Cardinality(Newer(a)) <= Cardinality(Newer(b)) /\ Cardinality(Newer(a)) # Cardinality(Newer(b))
  BY <1>2, <1>3, NewerFinite, FS_Subset
<1> QED
  BY <1>4, NewerFinite

LEMMA TimesFinite ==
    ASSUME RowInv, reader # None, NEW S \in SUBSET reader.unseen
    PROVE  /\ IsFiniteSet({row[i].at : i \in S})
           /\ Cardinality({row[i].at : i \in S}) \in Nat
           /\ Cardinality({row[i].at : i \in S}) <= Cardinality(Ids)
<1> DEFINE T == {row[i].at : i \in S}
           f == [i \in S |-> row[i].at]
<1>1. S \in SUBSET Ids
  BY ReaderTyped
<1>2. IsFiniteSet(S) /\ Cardinality(S) <= Cardinality(Ids)
  BY <1>1, IdsFinite, FS_Subset
<1>3. f \in Surjection(S, T)
  <2>1. f \in [S -> T] /\ \A t \in T : \E i \in S : f[i] = t
    OBVIOUS
  <2> QED
    BY <2>1, Fun_IsSurj
<1>4. IsFiniteSet(T) /\ Cardinality(T) <= Cardinality(S)
  BY <1>2, <1>3, FS_Surjection
<1> QED
  BY <1>2, <1>4, IdsFinite, FS_CardinalityType

\* New rows, revived rows and marks do not make a row be passed.
LEMMA RowsGrow ==
    ASSUME RowInv, RowInv', ReadInv, reader' = reader,
           reader # None =>
               \A i \in Rows(reader.user) : i \in Rows(reader.user)' /\ row'[i].at = row[i].at
    PROVE  ReadInv'
<1> SUFFICES ASSUME reader # None PROVE ReadInv'
  BY DEF ReadInv
<1>1. reader.unseen \subseteq Rows(reader.user)
  BY DEF ReadInv
<1>2. CASE reader.done
  BY <1>1, <1>2 DEF ReadInv
<1>3. CASE ~reader.done
  <2>1. \A i \in reader.unseen : Newer(i) \subseteq Newer(i)'
    BY <1>1 DEF Newer
  <2>2. ASSUME NEW i \in reader.unseen
        PROVE  Cardinality(Newer(i)) <= Cardinality(Newer(i)')
    <3>1. Newer(i)' \subseteq Ids
      BY DEF Newer, Rows
    <3>2. IsFiniteSet(Newer(i)')
      BY <3>1, IdsFinite, FS_Subset
    <3> QED
      BY <2>1, <3>2, FS_Subset
  <2>3. Passed' \subseteq Passed
    <3> SUFFICES ASSUME NEW i \in reader.unseen, Cardinality(Newer(i)') < reader.offset
                 PROVE  Cardinality(Newer(i)) < reader.offset
      BY DEF Passed
    <3>1. Newer(i)' \subseteq Ids
      BY DEF Newer, Rows
    <3>2. Cardinality(Newer(i)') \in Nat
      BY <3>1, IdsFinite, FS_Subset, FS_CardinalityType
    <3>3. Cardinality(Newer(i)) \in Nat /\ reader.offset \in Nat
      BY NewerFinite, ReaderTyped
    <3>4. Cardinality(Newer(i)) <= Cardinality(Newer(i)')
      BY <2>2
    <3> QED
      BY <3>2, <3>3, <3>4
  <2>4. PassedTimes' \subseteq PassedTimes
    BY <1>1, <2>3 DEF PassedTimes, Passed
  <2>5. IsFiniteSet(PassedTimes) /\ Cardinality(PassedTimes) \in Nat
    BY TimesFinite DEF PassedTimes, Passed
  <2>6. IsFiniteSet(PassedTimes') /\ Cardinality(PassedTimes') <= Cardinality(PassedTimes)
    BY <2>4, <2>5, FS_Subset
  <2>7. Cardinality(PassedTimes') \in Nat
    BY <2>6, FS_CardinalityType
  <2>8. Cardinality(PassedTimes) <= reader.deleted /\ reader.deleted \in Nat
    BY <1>3, ReaderTyped DEF ReadInv
  <2>9. reader.unseen \subseteq Rows(reader.user)'
    BY <1>1
  <2>10. Cardinality(PassedTimes') <= reader.deleted
    BY <2>5, <2>6, <2>7, <2>8
  <2> QED
    BY <1>3, <2>9, <2>10 DEF ReadInv
<1> QED
  BY <1>2, <1>3

\* A deletion lets rows of at most one time be passed that were not.
LEMMA RowLost ==
    ASSUME RowInv, ReadInv, reader # None, NEW y \in Rows(reader.user),
           Rows(reader.user)' = Rows(reader.user) \ {y},
           \A j \in Rows(reader.user) \ {y} : row'[j].at = row[j].at,
           reader'.user = reader.user, reader'.offset = reader.offset,
           reader'.done = reader.done, reader'.unseen = reader.unseen \ {y},
           reader'.deleted = reader.deleted + 1 \/ reader'.deleted = Cardinality(Ids)
    PROVE  ReadInv'
<1> DEFINE fresh == Passed' \ Passed
           times == {row[i].at : i \in Passed'}
<1>1. reader.unseen \subseteq Rows(reader.user) /\ reader.unseen \subseteq Ids
  BY RowsTyped DEF ReadInv
<1>2. /\ reader.deleted \in Nat /\ reader.deleted <= Cardinality(Ids) /\ Cardinality(Ids) \in Nat
      /\ reader.offset \in Nat /\ reader.done \in BOOLEAN
  BY ReaderTyped, IdsFinite
<1>3. reader'.unseen \subseteq Rows(reader.user)'
  BY <1>1
<1>4. CASE reader.done
  <2>1. IsFiniteSet(reader.unseen)
    BY <1>1, IdsFinite, FS_Subset
  <2>2. /\ Cardinality(reader.unseen) \in Nat
        /\ IsFiniteSet(reader.unseen \ {y})
        /\ Cardinality(reader.unseen \ {y}) \in Nat
        /\ Cardinality(reader.unseen \ {y}) <= Cardinality(reader.unseen)
    BY <2>1, FS_CardinalityType, FS_Subset
  <2>3. Cardinality(reader.unseen) <= reader.deleted
    BY <1>4 DEF ReadInv
  <2>4. Cardinality(reader.unseen \ {y}) <= reader'.deleted
    BY <1>2, <2>2, <2>3
  <2> QED
    BY <1>3, <1>4, <2>4 DEF ReadInv
<1>5. CASE ~reader.done
  <2>1. ASSUME NEW i \in reader.unseen \ {y}
        PROVE  Newer(i)' = Newer(i) \ {y}
    BY <1>1 DEF Newer
  <2>2. Passed' \subseteq reader.unseen \ {y}
    BY DEF Passed
  <2>3. PassedTimes' = times
    BY <1>1, <2>2 DEF PassedTimes
  <2>4. ASSUME NEW i \in fresh
        PROVE  Cardinality(Newer(i)) = reader.offset
    <3>1. i \in reader.unseen \ {y} /\ Cardinality(Newer(i)') < reader.offset
      BY DEF Passed
    <3>2. ~(Cardinality(Newer(i)) < reader.offset)
      BY <3>1 DEF Passed
    <3>3. Cardinality(Newer(i) \ {y}) < reader.offset
      BY <2>1, <3>1
    <3>4. IsFiniteSet(Newer(i)) /\ Cardinality(Newer(i)) \in Nat
      BY NewerFinite
    <3>5. Cardinality(Newer(i) \ {y}) = Cardinality(Newer(i)) - 1
            \/ Cardinality(Newer(i) \ {y}) = Cardinality(Newer(i))
      BY <3>4, FS_RemoveElement
    <3> QED
      BY <1>2, <3>2, <3>3, <3>4, <3>5
  <2>5. ASSUME NEW i \in fresh, NEW j \in fresh
        PROVE  row[i].at = row[j].at
    <3>1. i \in Rows(reader.user) /\ j \in Rows(reader.user)
      BY <1>1, <2>2
    <3>2. row[i].at \in Nat /\ row[j].at \in Nat
      BY <3>1, RowsTyped
    <3>3. Cardinality(Newer(i)) = Cardinality(Newer(j)) /\ Cardinality(Newer(i)) \in Nat
      BY <1>2, <2>4
    <3>4. ~(row[i].at > row[j].at)
      BY <3>1, <3>3, NewerGrows
    <3>5. ~(row[j].at > row[i].at)
      BY <3>1, <3>3, NewerGrows
    <3> QED
      BY <3>2, <3>4, <3>5
  <2>6. PICK t : times \subseteq PassedTimes \cup {t}
    <3>1. \A i \in Passed' \ fresh : row[i].at \in PassedTimes
      BY DEF PassedTimes
    <3>2. CASE fresh = {}
      BY <3>1, <3>2
    <3>3. CASE fresh # {}
      <4>1. PICK a \in fresh : TRUE
        BY <3>3
      <4>2. times \subseteq PassedTimes \cup {row[a].at}
        BY <2>5, <3>1, <4>1
      <4> QED
        BY <4>2
    <3> QED
      BY <3>2, <3>3
  <2>7. IsFiniteSet(PassedTimes) /\ Cardinality(PassedTimes) \in Nat
    BY TimesFinite DEF PassedTimes, Passed
  <2>8. /\ IsFiniteSet(times) /\ Cardinality(times) \in Nat
        /\ Cardinality(times) <= Cardinality(Ids)
    BY <2>2, TimesFinite
  <2>9. /\ IsFiniteSet(PassedTimes \cup {t})
        /\ \/ Cardinality(PassedTimes \cup {t}) = Cardinality(PassedTimes)
           \/ Cardinality(PassedTimes \cup {t}) = Cardinality(PassedTimes) + 1
    <3> HIDE DEF times
    <3> QED
      BY <2>7, FS_AddElement
  <2>10. Cardinality(times) <= Cardinality(PassedTimes \cup {t})
    BY <2>6, <2>9, FS_Subset
  <2>11. Cardinality(PassedTimes \cup {t}) \in Nat
    BY <2>9, FS_CardinalityType
  <2>12. Cardinality(PassedTimes) <= reader.deleted
    BY <1>5 DEF ReadInv
  <2>13. Cardinality(times) <= reader'.deleted
    <3> HIDE DEF times
    <3> QED
      BY <1>2, <2>7, <2>8, <2>9, <2>10, <2>11, <2>12
  <2> QED
    BY <1>3, <1>5, <2>3, <2>13 DEF ReadInv
<1> QED
  BY <1>2, <1>4, <1>5

\* An order puts m rows on the first m places.
LEMMA FirstPlaces ==
    ASSUME NEW S, IsFiniteSet(S), NEW place \in [S -> 1..Cardinality(S)],
           \A i, j \in S : place[i] = place[j] => i = j,
           NEW m \in 0..Cardinality(S)
    PROVE  LET T == {i \in S : place[i] <= m}
           IN  IsFiniteSet(T) /\ Cardinality(T) = m
<1> DEFINE n == Cardinality(S)
           T == {i \in S : place[i] <= m}
           f == [i \in T |-> place[i]]
<1>1. n \in Nat /\ m \in Nat /\ m <= n
  BY FS_CardinalityType
<1>2. ASSUME NEW k \in Nat PROVE IsFiniteSet(1..k) /\ Cardinality(1..k) = k
  <2>1. IsFiniteSet(1..k) /\ Cardinality(1..k) = IF 1 > k THEN 0 ELSE k - 1 + 1
    BY FS_Interval
  <2> QED
    BY <2>1
<1>3. place \in Injection(S, 1..n)
  BY Fun_IsInj
<1>4. place \in Surjection(S, 1..n)
  BY <1>1, <1>2, <1>3, FS_Injection
<1>5. \A k \in 1..n : \E i \in S : place[i] = k
  BY <1>4, Fun_SurjectionProperties
<1>6. f \in [T -> 1..m]
  BY <1>1
<1>7. f \in Injection(T, 1..m)
  <2>1. \A i, j \in T : f[i] = f[j] => i = j
    OBVIOUS
  <2> HIDE DEF T, f
  <2> QED
    BY <1>6, <2>1, Fun_IsInj
<1>8. f \in Surjection(T, 1..m)
  <2>1. ASSUME NEW k \in 1..m PROVE \E i \in T : f[i] = k
    <3>1. k \in 1..n /\ k <= m
      BY <1>1
    <3>2. PICK i \in S : place[i] = k
      BY <1>5, <3>1
    <3> QED
      BY <3>1, <3>2
  <2> HIDE DEF T, f
  <2> QED
    BY <1>6, <2>1, Fun_IsSurj
<1>9. IsFiniteSet(T) /\ Cardinality(T) = m
  <2> HIDE DEF T, f
  <2> QED
    BY <1>1, <1>2, <1>7, <1>8, FS_Injection
<1> QED
  BY <1>9

LEMMA OrderedRows ==
    ASSUME RowInv, NEW u, NEW place \in Orders(Rows(u))
    PROVE  /\ IsFiniteSet(Rows(u)) /\ Cardinality(Rows(u)) \in Nat
           /\ place \in [Rows(u) -> 1..Cardinality(Rows(u))]
           /\ \A i, j \in Rows(u) : place[i] = place[j] => i = j
           /\ \A i, j \in Rows(u) : row[i].at > row[j].at => place[i] < place[j]
<1>1. IsFiniteSet(Rows(u)) /\ Cardinality(Rows(u)) \in Nat
  BY RowsTyped, FS_CardinalityType
<1>2. /\ place \in [Rows(u) -> 1..Cardinality(Rows(u))]
      /\ \A i, j \in Rows(u) : i # j =>
             /\ place[i] # place[j]
             /\ row[i].at > row[j].at => place[i] < place[j]
  BY DEF Orders
<1>3. \A i, j \in Rows(u) : row[i].at > row[j].at => i # j
  BY RowsTyped
<1> QED
  BY <1>1, <1>2, <1>3

\* A row that shares its time with no other has its place from the newer ones.
LEMMA PlaceOfUntied ==
    ASSUME RowInv, NEW place \in Orders(Rows(reader.user)),
           NEW i \in Rows(reader.user), i \notin Tied(reader.user)
    PROVE  Cardinality(Newer(i)) = place[i] - 1
<1> DEFINE S == Rows(reader.user)
<1>1. place[i] \in 1..Cardinality(S) /\ Cardinality(S) \in Nat /\ IsFiniteSet(S)
  BY OrderedRows
<1>2. Newer(i) = {j \in S : place[j] <= place[i] - 1}
  <2> SUFFICES ASSUME NEW j \in S
               PROVE  row[j].at > row[i].at <=> place[j] <= place[i] - 1
    BY DEF Newer
  <2>1. place[j] \in Nat /\ place[i] \in Nat /\ row[j].at \in Nat /\ row[i].at \in Nat
    BY OrderedRows, RowsTyped
  <2>2. row[j].at > row[i].at => place[j] < place[i]
    BY OrderedRows
  <2>3. row[i].at > row[j].at => place[i] < place[j]
    BY OrderedRows
  <2>4. j # i => row[j].at # row[i].at
    BY DEF Tied
  <2> QED
    BY <2>1, <2>2, <2>3, <2>4
<1>3. place[i] - 1 \in 0..Cardinality(S)
  BY <1>1
<1>4. Cardinality({j \in S : place[j] <= place[i] - 1}) = place[i] - 1
  <2>1. place \in [S -> 1..Cardinality(S)] /\ \A a, b \in S : place[a] = place[b] => a = b
    BY OrderedRows
  <2> HIDE DEF S
  <2> QED
    BY <1>1, <1>3, <2>1, FirstPlaces
<1> QED
  BY <1>2, <1>4

\* A page that is not full reaches the last row.
LEMMA LastPage ==
    ASSUME RowInv, NEW u, NEW place \in Orders(Rows(u)), NEW offset \in Nat,
           Cardinality(Page(Rows(u), place, offset)) < PageSize
    PROVE  Cardinality(Rows(u)) < offset + PageSize
<1> DEFINE S == Rows(u)
           upTo(m) == {i \in S : place[i] <= m}
<1> SUFFICES ASSUME offset + PageSize <= Cardinality(S) PROVE FALSE
  BY OrderedRows, InboxAssumption
<1>1. /\ IsFiniteSet(S) /\ place \in [S -> 1..Cardinality(S)]
      /\ \A a, b \in S : place[a] = place[b] => a = b
      /\ Cardinality(S) \in Nat
  BY OrderedRows
<1>2. PageSize \in Nat /\ offset \in 0..Cardinality(S) /\ offset + PageSize \in 0..Cardinality(S)
  BY <1>1, InboxAssumption
<1>3. IsFiniteSet(upTo(offset + PageSize)) /\ Cardinality(upTo(offset + PageSize)) = offset + PageSize
  <2> HIDE DEF S
  <2> QED
    BY <1>1, <1>2, FirstPlaces
<1>4. IsFiniteSet(upTo(offset)) /\ Cardinality(upTo(offset)) = offset
  <2> HIDE DEF S
  <2> QED
    BY <1>1, <1>2, FirstPlaces
<1>5. /\ Page(S, place, offset) = upTo(offset + PageSize) \ upTo(offset)
      /\ upTo(offset + PageSize) \cap upTo(offset) = upTo(offset)
  <2>1. \A i \in S : place[i] \in Nat
    BY <1>1
  <2> HIDE DEF S
  <2> QED
    BY <1>2, <2>1 DEF Page
<1>6. Cardinality(Page(S, place, offset)) = PageSize
  <2> HIDE DEF upTo
  <2>1. Cardinality(upTo(offset + PageSize) \ upTo(offset))
          = Cardinality(upTo(offset + PageSize)) - Cardinality(upTo(offset + PageSize) \cap upTo(offset))
    BY <1>3, FS_Difference
  <2>2. Cardinality(upTo(offset + PageSize) \ upTo(offset)) = (offset + PageSize) - offset
    BY <1>3, <1>4, <1>5, <2>1
  <2>3. (offset + PageSize) - offset = PageSize
    BY <1>2
  <2> QED
    BY <1>5, <2>2, <2>3
<1> QED
  BY <1>2, <1>6

\* A page shows every row between its places, so no row becomes passed unseen.
LEMMA PageTurned ==
    ASSUME RowInv, ReadInv, GetNotifications
    PROVE  ReadInv'
<1> DEFINE S == Rows(reader.user)
           page(place) == Page(S, place, reader.offset)
<1>1. /\ reader # None /\ ~reader.done /\ UNCHANGED row
      /\ reader'.user = reader.user
      /\ reader'.offset = reader.offset + PageSize
      /\ reader'.deleted = reader.deleted
  BY PageRead
<1>2. PICK place \in Orders(S) :
          /\ reader'.unseen = reader.unseen \ (page(place) \cup Tied(reader.user))
          /\ reader'.done = (Cardinality(page(place)) < PageSize)
  BY PageRead
<1>3. reader.offset \in Nat /\ reader.deleted \in Nat /\ PageSize \in Nat
  BY <1>1, ReaderTyped, InboxAssumption
<1>4. reader.unseen \subseteq S /\ Cardinality(PassedTimes) <= reader.deleted
  BY <1>1 DEF ReadInv
<1>5. Rows(reader.user)' = S /\ reader'.unseen \subseteq reader.unseen
  BY <1>1, <1>2 DEF Rows
<1>6. \A i : Newer(i)' = Newer(i)
  BY <1>1, <1>5 DEF Newer
<1>7. ASSUME NEW i \in reader'.unseen
      PROVE  /\ place[i] \in Nat /\ place[i] <= Cardinality(S) /\ Cardinality(S) \in Nat
             /\ Cardinality(Newer(i)) = place[i] - 1
             /\ place[i] <= reader.offset \/ place[i] > reader.offset + PageSize
  <2>1. i \in S /\ i \notin Tied(reader.user) /\ i \notin page(place)
    BY <1>2, <1>4
  <2>2. place[i] \in 1..Cardinality(S) /\ Cardinality(S) \in Nat
    BY <2>1, OrderedRows
  <2>3. Cardinality(Newer(i)) = place[i] - 1
    BY <2>1, PlaceOfUntied
  <2>4. ~(reader.offset < place[i] /\ place[i] <= reader.offset + PageSize)
    BY <2>1 DEF Page
  <2> QED
    BY <1>3, <2>2, <2>3, <2>4
<1>8. IsFiniteSet(PassedTimes) /\ Cardinality(PassedTimes) \in Nat
  BY <1>1, TimesFinite DEF PassedTimes, Passed
<1>9. CASE ~reader'.done
  <2>1. ASSUME NEW i \in Passed' PROVE i \in Passed
    <3>1. i \in reader'.unseen /\ Cardinality(Newer(i)) < reader.offset + PageSize
      BY <1>1, <1>6 DEF Passed
    <3>2. Cardinality(Newer(i)) < reader.offset
      <4> HIDE DEF S
      <4> QED
        BY <1>3, <1>7, <3>1
    <3> QED
      BY <1>5, <3>1, <3>2 DEF Passed
  <2>2. PassedTimes' \subseteq PassedTimes
    BY <1>1, <2>1 DEF PassedTimes
  <2>3. IsFiniteSet(PassedTimes') /\ Cardinality(PassedTimes') <= Cardinality(PassedTimes)
    BY <1>8, <2>2, FS_Subset
  <2>4. Cardinality(PassedTimes') \in Nat
    BY <2>3, FS_CardinalityType
  <2>5. Cardinality(PassedTimes') <= reader.deleted
    BY <1>3, <1>4, <1>8, <2>3, <2>4
  <2> QED
    BY <1>1, <1>4, <1>5, <1>9, <2>5 DEF ReadInv
<1>10. CASE reader'.done
  <2> DEFINE f == [i \in reader'.unseen |-> row[i].at]
  <2>1. Cardinality(S) < reader.offset + PageSize
    BY <1>2, <1>3, <1>10, LastPage
  <2>2. ASSUME NEW i \in reader'.unseen PROVE i \in Passed
    <3>1. Cardinality(Newer(i)) < reader.offset
      <4> HIDE DEF S
      <4> QED
        BY <1>3, <1>7, <2>1
    <3> QED
      BY <1>5, <3>1 DEF Passed
  <2>3. f \in [reader'.unseen -> PassedTimes]
    BY <2>2 DEF PassedTimes
  <2>4. \A i, j \in reader'.unseen : f[i] = f[j] => i = j
    BY <1>2, <1>4 DEF Tied
  <2>5. f \in Injection(reader'.unseen, PassedTimes)
    <3> HIDE DEF f
    <3> QED
      BY <2>3, <2>4, Fun_IsInj
  <2>6. IsFiniteSet(reader'.unseen) /\ Cardinality(reader'.unseen) <= Cardinality(PassedTimes)
    BY <1>8, <2>5, FS_Injection
  <2>7. Cardinality(reader'.unseen) \in Nat
    BY <2>6, FS_CardinalityType
  <2>8. Cardinality(reader'.unseen) <= reader.deleted
    BY <1>3, <1>4, <1>8, <2>6, <2>7
  <2> QED
    BY <1>1, <1>4, <1>5, <1>10, <2>8 DEF ReadInv
<1> QED
  BY <1>9, <1>10

LEMMA ReadingBegins ==
    ASSUME RowInv, NEW u \in Users, StartReading(u)
    PROVE  ReadInv'
<1>1. /\ reader'.user = u /\ reader'.offset = 0 /\ reader'.unseen = Rows(u)
      /\ reader'.deleted = 0 /\ reader'.done = FALSE /\ UNCHANGED row
  BY DEF StartReading
<1>2. Rows(u)' = Rows(u)
  BY <1>1 DEF Rows
<1>3. ASSUME NEW i PROVE Cardinality(Newer(i)') \in Nat
  <2>1. Newer(i)' \subseteq Ids
    BY DEF Newer, Rows
  <2> QED
    BY <2>1, IdsFinite, FS_Subset, FS_CardinalityType
<1>4. Passed' = {}
  <2> SUFFICES ASSUME NEW i, Cardinality(Newer(i)') < 0 PROVE FALSE
    BY <1>1 DEF Passed
  <2> QED
    BY <1>3
<1>5. Cardinality(PassedTimes') = 0
  BY <1>4, FS_EmptySet DEF PassedTimes
<1> QED
  BY <1>1, <1>2, <1>5 DEF ReadInv

LEMMA RemovePassed ==
    ASSUME RowInv, RowInv', ReadInv, NEW r \in Requests, Remove(r)
    PROVE  ReadInv'
<1> DEFINE i == entity[r].id
<1>1. pc[r] = "remove" /\ row' = [row EXCEPT ![i] = None] /\ reader' = ReaderLoses(i)
  BY DEF Remove
<1>2. i \in Ids
  BY <1>1, Holds
<1>3. row \in [Ids -> Row \cup {None}]
  BY DEF RowInv, TypeOK
<1> HIDE DEF i
<1>4. CASE reader # None /\ i \in Rows(reader.user)
  <2>1. /\ reader'.user = reader.user /\ reader'.offset = reader.offset
        /\ reader'.done = reader.done /\ reader'.unseen = reader.unseen \ {i}
        /\ reader'.deleted = reader.deleted + 1 \/ reader'.deleted = Cardinality(Ids)
    BY <1>1, <1>2, <1>4, LosesTyped
  <2>2. Rows(reader.user)' = Rows(reader.user) \ {i}
    BY <1>1, <1>2, <1>3, <2>1 DEF Rows
  <2>3. \A j \in Rows(reader.user) \ {i} : row'[j].at = row[j].at
    BY <1>1, <1>3 DEF Rows
  <2> QED
    BY <1>4, <2>1, <2>2, <2>3, RowLost
<1>5. CASE ~(reader # None /\ i \in Rows(reader.user))
  <2>1. reader' = reader
    BY <1>1, <1>2, <1>5, LosesTyped
  <2>2. reader # None =>
            \A j \in Rows(reader.user) : j \in Rows(reader.user)' /\ row'[j].at = row[j].at
    BY <1>1, <1>3, <1>5, <2>1 DEF Rows
  <2> QED
    BY <2>1, <2>2, RowsGrow
<1> QED
  BY <1>4, <1>5

LEMMA ReadNext == RowInv /\ RowInv' /\ ReadInv /\ [Next]_vars => ReadInv'
<1> SUFFICES ASSUME RowInv, RowInv', ReadInv, [Next]_vars PROVE ReadInv'
  OBVIOUS
<1>1. ASSUME reader' = reader,
             \A i \in Ids : row[i] # None =>
                 row'[i] # None /\ row'[i].user = row[i].user /\ row'[i].at = row[i].at
      PROVE  ReadInv'
  <2>1. reader # None =>
            \A i \in Rows(reader.user) : i \in Rows(reader.user)' /\ row'[i].at = row[i].at
    BY <1>1 DEF Rows
  <2> QED
    BY <1>1, <2>1, RowsGrow
<1>2. row \in [Ids -> Row \cup {None}]
  BY DEF RowInv, TypeOK
<1>3. ASSUME NEW u \in Users, NEW i \in Ids, NEW t \in Times, SaveNew(u, i, t)
      PROVE  ReadInv'
  <2>1. row[i] = None
    BY <1>3 DEF SaveNew, RowInv, TypeOK
  <2> QED
    BY <1>1, <1>2, <1>3, <2>1 DEF SaveNew
<1>4. ASSUME NEW r \in Requests, RequestStep(r) PROVE ReadInv'
  <2>1. ASSUME NEW u \in Users, NEW j \in Ids, NEW next, Find(r, u, j, next) PROVE ReadInv'
    BY <1>1, <2>1 DEF Find
  <2>2. CASE SelectAgain(r)
    BY <1>1, <2>2 DEF SelectAgain
  <2>3. CASE UpdateRead(r)
    <3> DEFINE i == entity[r].id
               new == IF row[i] = None THEN None ELSE [row[i] EXCEPT !.read = TRUE]
    <3>1. row' = [row EXCEPT ![i] = new] /\ reader' = reader
      BY <2>3 DEF UpdateRead
    <3>2. i \in Ids
      BY <2>3, Holds DEF UpdateRead
    <3>3. row[i] # None => row[i] \in Row
      BY <1>2, <3>2
    <3>4. row[i] # None => new \in Row /\ new.user = row[i].user /\ new.at = row[i].at
      BY <3>3 DEF Row
    <3>5. row[i] # None => new # None
      BY <3>4, InboxAssumption
    <3> HIDE DEF i, new
    <3> QED
      BY <1>1, <1>2, <3>1, <3>4, <3>5
  <2>4. CASE InsertAgain(r)
    BY <1>1, <1>2, <2>4 DEF InsertAgain
  <2>5. CASE Fails(r)
    BY <1>1, <2>5 DEF Fails
  <2> QED
    BY <1>4, <2>1, <2>2, <2>3, <2>4, <2>5, RemovePassed
       DEF RequestStep, FindToMark, FindToDelete
<1>5. ASSUME NEW u \in Users, MarkAllAsRead(u) PROVE ReadInv'
  <2>1. \A i \in Ids : row[i] # None => MarkedAll(u)[i] # None
    BY MarkedAllRows, InboxAssumption
  <2> QED
    BY <1>1, <1>5, <2>1, MarkedAllRows DEF MarkAllAsRead
<1>6. CASE UNCHANGED vars
  BY <1>1, <1>6 DEF vars
<1> QED
  BY <1>3, <1>4, <1>5, <1>6, CreateInv, ReadingBegins, PageTurned DEF Next, StoreStep, Arrive

LEMMA ReadInvariance == Spec => []ReadInv
<1>1. Init => ReadInv
  BY DEF Init, ReadInv
<1> QED
  BY <1>1, ReadNext, RowInvariance, PTL DEF Spec

\* Whatever is stored, revived, marked and deleted between the pages, and whatever
\* the page size, a reader misses at most as many rows as were deleted
\* (getNotifications with offset and limit).
THEOREM MissedAtMostDeletedAlways == Spec => []MissedAtMostDeleted
<1>1. RowInv /\ ReadInv => MissedAtMostDeleted
  BY DEF ReadInv, MissedAtMostDeleted
<1> QED
  BY <1>1, RowInvariance, ReadInvariance, PTL
=============================================================================
