-------------------------- MODULE NotificationInbox --------------------------
(***************************************************************************)
(* The notifications that notification-service has stored, as their owner  *)
(* sees them: the handlers of NotificationController.ts.                   *)
(*                                                                         *)
(* A handler finds an entity in one query and saves or removes it in later *)
(* ones; save() of TypeORM first selects the row again, to decide between  *)
(* UPDATE, INSERT and nothing.  Requests interleave between the queries.   *)
(* The client's side of getNotifications is a reader who asks for one page *)
(* after another until a page is not full.                                 *)
(***************************************************************************)
EXTENDS Naturals, FiniteSets

CONSTANTS
    Users,
    Ids,       \* the UUIDs that the database will draw, each once
    Requests,  \* markAsRead and deleteNotification requests in progress
    Times,     \* values of createdAt; rows may share one
    PageSize,  \* the reader's limit
    None

Row == [user: Users, at: Times, read: BOOLEAN]

Entity == [id: Ids, row: Row]

ASSUME InboxAssumption ==
    /\ Times \subseteq Nat
    /\ PageSize \in Nat \ {0}
    /\ IsFiniteSet(Ids)
    /\ None \notin Row /\ None \notin Entity

VARIABLES
    row,      \* the table notifications: the row of each id, or None
    issued,   \* ids drawn so far
    pc,       \* what each request does next
    entity,   \* the id and the row that it found, as it holds them in memory
    acked,    \* ids whose owner was told that they are read (history)
    reader    \* the reader, the rows that were there all the time and that no
              \* page has shown yet, and the deletions since it began

vars == <<row, issued, pc, entity, acked, reader>>

Rows(u) == {i \in Ids : row[i] # None /\ row[i].user = u}

Init ==
    /\ row = [i \in Ids |-> None]
    /\ issued = {}
    /\ pc = [r \in Requests |-> "idle"]
    /\ entity = [r \in Requests |-> None]
    /\ acked = {}
    /\ reader = None
-----------------------------------------------------------------------------
(* Rows are stored.                                                        *)

\* save() of an entity without an id: an INSERT.  createdAt is the start of
\* the transaction, so rows may be committed out of its order.
SaveNew(u, i, t) ==
    /\ i \notin issued
    /\ issued' = issued \cup {i}
    /\ row' = [row EXCEPT ![i] = [user |-> u, at |-> t, read |-> FALSE]]
    /\ UNCHANGED <<pc, entity, acked, reader>>

NotificationTypes == {"message", "system", "alert"}

\* createNotificationValidation; "complete": every field is there and of a
\* legal length.
Valid(body) == body.complete /\ body.type \in NotificationTypes

\* A caller creates notifications for itself only.
Accepts(caller, body) == Valid(body) /\ body.user = caller

CreateNotification(caller, i, t) ==
    \E body \in [user: Users, type: NotificationTypes \cup {"other"}, complete: BOOLEAN] :
        /\ Accepts(caller, body)
        /\ SaveNew(body.user, i, t)

\* saveNotification of the queue's consumer, for any user.
Arrive(u, i, t) == SaveNew(u, i, t)
-----------------------------------------------------------------------------
(* markAsRead and deleteNotification.                                      *)

\* Seeded fault: take the entity for found although the row is gone.
FindIssued(u, i) == i \in issued

\* findOne({ id, userId }); otherwise the handler answers 404.
Finds(u, i) == i \in Rows(u)

Find(r, u, i, next) ==
    /\ pc[r] = "idle"
    /\ Finds(u, i)
    /\ pc' = [pc EXCEPT ![r] = next]
    /\ entity' = [entity EXCEPT ![r] = [id |-> i, row |-> row[i]]]
    /\ UNCHANGED <<row, issued, acked, reader>>

FindToMark(r, u, i) == Find(r, u, i, "select")

FindToDelete(r, u, i) == Find(r, u, i, "remove")

\* The handler answers or fails; the request is over.
Over(r) ==
    /\ pc' = [pc EXCEPT ![r] = "idle"]
    /\ entity' = [entity EXCEPT ![r] = None]

\* notification.read = true
Marked(r) == [entity[r].row EXCEPT !.read = TRUE]

\* save(): the row as the database has it now decides what is to be written.
\* A row that is read already needs no statement.
SelectAgain(r) ==
    LET i == entity[r].id
    IN /\ pc[r] = "select"
       /\ \/ /\ row[i] = None
             /\ pc' = [pc EXCEPT ![r] = "insert"]
             /\ UNCHANGED <<entity, acked>>
          \/ /\ row[i] # None
             /\ row[i].read
             /\ acked' = acked \cup {i}
             /\ Over(r)
          \/ /\ row[i] # None
             /\ ~row[i].read
             /\ pc' = [pc EXCEPT ![r] = "update"]
             /\ UNCHANGED <<entity, acked>>
       /\ UNCHANGED <<row, issued, reader>>

\* UPDATE by id.  That it matched no row goes unnoticed.
UpdateRead(r) ==
    LET i == entity[r].id
    IN /\ pc[r] = "update"
       /\ row' = [row EXCEPT ![i] = IF @ = None THEN None ELSE [@ EXCEPT !.read = TRUE]]
       /\ acked' = acked \cup {i}
       /\ Over(r)
       /\ UNCHANGED <<issued, reader>>

\* Seeded fault: insert the entity as it was found.
RevivedUnread(r) == entity[r].row

\* INSERT of every column, the id and createdAt included.
Revived(r) == Marked(r)

\* A second INSERT of the same id violates the primary key: no answer of 200.
InsertAgain(r) ==
    LET i == entity[r].id
    IN /\ pc[r] = "insert"
       /\ \/ /\ row[i] = None
             /\ row' = [row EXCEPT ![i] = Revived(r)]
             /\ acked' = acked \cup {i}
          \/ /\ row[i] # None
             /\ UNCHANGED <<row, acked>>
       /\ Over(r)
       /\ UNCHANGED <<issued, reader>>

\* What a deletion of row i means to the reader.  The counter need not count
\* further than there are ids.
ReaderLoses(i) ==
    IF reader # None /\ row[i] # None /\ row[i].user = reader.user
    THEN [reader EXCEPT !.unseen = @ \ {i},
                        !.deleted = IF @ < Cardinality(Ids) THEN @ + 1 ELSE @]
    ELSE reader

\* remove(entity): DELETE by id, whether the row is still there or not.
Remove(r) ==
    LET i == entity[r].id
    IN /\ pc[r] = "remove"
       /\ row' = [row EXCEPT ![i] = None]
       /\ reader' = ReaderLoses(i)
       /\ Over(r)
       /\ UNCHANGED <<issued, acked>>

\* A query fails: next(error).
Fails(r) ==
    /\ pc[r] # "idle"
    /\ Over(r)
    /\ UNCHANGED <<row, issued, acked, reader>>

\* What getUnreadCount counts.
Unread(u) == {i \in Rows(u) : ~row[i].read}

\* One UPDATE of all rows of the user that are unread.
MarkedAll(u) ==
    [i \in Ids |-> IF i \in Unread(u) THEN [row[i] EXCEPT !.read = TRUE] ELSE row[i]]

MarkAllAsRead(u) ==
    /\ row' = MarkedAll(u)
    /\ acked' = acked \cup Rows(u)
    /\ UNCHANGED <<issued, pc, entity, reader>>
-----------------------------------------------------------------------------
(* getNotifications, page after page.                                      *)

\* order: { createdAt: 'DESC' }: the place of each row.  Nothing orders rows
\* of equal createdAt, and another query may order them differently.
Orders(S) ==
    {place \in [S -> 1..Cardinality(S)] :
        \A i, j \in S : i # j => /\ place[i] # place[j]
                                 /\ row[i].at > row[j].at => place[i] < place[j]}

\* Seeded fault: the offset counts from one.
PageFromOne(S, place, offset) == {i \in S : offset + 1 < place[i] /\ place[i] <= offset + 1 + PageSize}

\* skip: offset, take: limit
Page(S, place, offset) == {i \in S : offset < place[i] /\ place[i] <= offset + PageSize}

\* Rows that share their createdAt with another one of the user.
Tied(u) == {i \in Rows(u) : \E j \in Rows(u) \ {i} : row[j].at = row[i].at}

StartReading(u) ==
    /\ reader = None
    /\ reader' = [user |-> u, offset |-> 0, unseen |-> Rows(u), deleted |-> 0, done |-> FALSE]
    /\ UNCHANGED <<row, issued, pc, entity, acked>>

\* The reader asks for the next page; a page that is not full is the last.
GetNotifications ==
    /\ reader # None
    /\ ~reader.done
    /\ \E place \in Orders(Rows(reader.user)) :
           LET page == Page(Rows(reader.user), place, reader.offset)
           IN reader' = [reader EXCEPT !.offset = @ + PageSize,
                                       !.unseen = @ \ (page \cup Tied(reader.user)),
                                       !.done = Cardinality(page) < PageSize]
    /\ UNCHANGED <<row, issued, pc, entity, acked>>
-----------------------------------------------------------------------------
StoreStep ==
    \E u \in Users, i \in Ids, t \in Times : CreateNotification(u, i, t) \/ Arrive(u, i, t)

RequestStep(r) ==
    \/ \E u \in Users, i \in Ids : FindToMark(r, u, i) \/ FindToDelete(r, u, i)
    \/ SelectAgain(r) \/ UpdateRead(r) \/ InsertAgain(r) \/ Remove(r) \/ Fails(r)

Next ==
    \/ StoreStep
    \/ \E r \in Requests : RequestStep(r)
    \/ \E u \in Users : MarkAllAsRead(u) \/ StartReading(u)
    \/ GetNotifications

Spec == Init /\ [][Next]_vars
-----------------------------------------------------------------------------
Reader == [user: Users, offset: Nat, unseen: SUBSET Ids,
           deleted: 0..Cardinality(Ids), done: BOOLEAN]

TypeOK ==
    /\ row \in [Ids -> Row \cup {None}]
    /\ issued \subseteq Ids
    /\ pc \in [Requests -> {"idle", "select", "update", "insert", "remove"}]
    /\ entity \in [Requests -> Entity \cup {None}]
    /\ acked \subseteq issued
    /\ reader \in Reader \cup {None}
    /\ \A i \in Ids : row[i] # None => i \in issued
    /\ \A r \in Requests : pc[r] = "idle" <=> entity[r] = None

\* Deleted, and no markAsRead that found the row is still running.
Buried(i) ==
    /\ i \in issued
    /\ row[i] = None
    /\ \A r \in Requests : pc[r] \in {"select", "update", "insert"} => entity[r].id # i

\* A deleted notification can come back, since save() inserts an entity whose
\* row is gone; but only while a markAsRead is running that had found it before
\* it was deleted.  After that it is gone for good (markAsRead 69-78,
\* deleteNotification 131-139).
BuriedStaysBuried == [][\A i \in Ids : Buried(i) => Buried(i)']_vars

\* Once an owner was told that a notification is read, it never counts as unread
\* again, whatever deletes, saves and bulk updates ran in between (markAsRead
\* 77-85, markAllAsRead 101-115, getUnreadCount 45-47).
AcknowledgedIsRead == \A u \in Users : acked \cap Unread(u) = {}

\* offset and limit: each deletion during the reading makes the reader miss at
\* most one row that was there all the time; stored and revived rows cost none.
\* "unseen" leaves out the rows that a page found sharing their createdAt
\* with another: each query may order those anew, so they can be missed without
\* any deletion.
MissedAtMostDeleted ==
    reader # None /\ reader.done =>
        Cardinality(reader.unseen) <= reader.deleted
=============================================================================
