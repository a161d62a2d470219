---------------------------- MODULE PrekeyStore ----------------------------
(***************************************************************************)
(* The prekeys table of user-service and the four requests that use it     *)
(* (user-service/src/controllers/PrekeyController.ts), for one owner:      *)
(*                                                                         *)
(*   getPrekeyBundle  one transaction that locks the owner's rows with     *)
(*                    SELECT ... FOR UPDATE, hands out one one-time prekey *)
(*                    and stores the pool without it;                      *)
(*   publishPrekey    findOne, merge the uploaded bundle, save: no lock;   *)
(*   storeSignalKeys  findOne, 24 h limit, merge the backup, save: no lock;*)
(*   getSignalKeys    reads the newest row of a device.                    *)
(*                                                                         *)
(* Every await is a point where another request can run, so each request   *)
(* is a process with one action per database round trip.  A pool of        *)
(* prekeys is a set: which of its members comes first is not told apart.   *)
(***************************************************************************)
EXTENDS Naturals, Sequences, FiniteSets

CONSTANTS
    Keys,        \* one-time prekeys that clients can generate
    Devices,     \* deviceIds of the owner
    Initiators,  \* calls of getPrekeyBundle
    Publishers,  \* calls of publishPrekey
    Carriers,    \* those whose bundle carries an _encryptedKeyBundle
    Backups,     \* calls of storeSignalKeys
    None         \* no key, no backup

ASSUME PrekeyAssumption ==
    /\ Publishers \cap Backups = {}
    /\ None \notin Keys \cup Publishers \cup Backups

Writers == Publishers \cup Backups

VARIABLES
    rows,      \* the owner's rows of the table, oldest first
    ipc,       \* where each getPrekeyBundle call stands
    seen,      \* how many rows its SELECT can see (its statement snapshot)
    pick,      \* the row it chose, 0 for none
    pool,      \* the prekeys it read from that row
    got,       \* the one-time prekey it took for its caller
    wpc,       \* where each publishPrekey or storeSignalKeys call stands
    ent,       \* the entity it will save
    base,      \* the row as save() re-read it, to find the changed columns
    uploaded,  \* every prekey some client has uploaded
    restored   \* handed-out prekeys that a stale save put back (history)

ivars == <<ipc, seen, pick, pool, got>>
wvars == <<wpc, ent, base>>
vars == <<rows, ivars, wvars, uploaded, restored>>

\* The JSON column: a PrekeyBundle has preKeys ("pub"), a backup blob alone
\* does not; either may carry _encryptedKeyBundle, named by its request.
Bundle == [pub: BOOLEAN, keys: SUBSET Keys, backup: Writers \cup {None}]

\* lastBackupTimestamp: null, less than 24 hours ago, or older.
Stamp == {"null", "recent", "old"}

\* "ver" counts the committed writes of the row: history, never read by code.
Row == [device: Devices, bundle: Bundle, stamp: Stamp, ver: Nat]

\* The row id is 0 for an entity that save() will INSERT.
Entity == [id: Nat, device: Devices, bundle: Bundle, stamp: Stamp, ver: Nat]

NoBundle == [pub |-> FALSE, keys |-> {}, backup |-> None]

Blank(d) == [device |-> d, bundle |-> NoBundle, stamp |-> "null", ver |-> 0]

\* Row r after a committed UPDATE of its columns.
Written(r, bundle, stamp) ==
    [device |-> r.device, bundle |-> bundle, stamp |-> stamp, ver |-> r.ver + 1]

RowIds == 1..Len(rows)

Of(d) == {r \in RowIds : rows[r].device = d}

\* Call i took a prekey for good: its transaction is committed.
HandsOut(i) == ipc[i] \in {"committed", "served"}

Handed == {got[i] : i \in {j \in Initiators : HandsOut(j)}}
-----------------------------------------------------------------------------
(* getPrekeyBundle                                                         *)

\* Call i has the row locks that its SELECT took: its transaction is open.
Holds(i) == ipc[i] \in {"holding", "saved"}

Locks(i, r) == Holds(i) /\ r \in 1..seen[i]

Unlocked(r) == \A i \in Initiators : ~Locks(i, r)

\* Seeded fault: the query without setLock('pessimistic_write').
CanLockWithoutWaiting(i) == TRUE

CanLock(i) == \A r \in 1..seen[i] : Unlocked(r)

IsPrekeyBundle(r) == rows[r].bundle.pub

Newest(S) == {r \in S : \A s \in S : s <= r}

\* Seeded fault: take the newest published bundle, its pool empty or not.
ChosenNewest(n) ==
    LET published == {r \in 1..n : IsPrekeyBundle(r)}
    IN IF published # {} THEN Newest(published) ELSE {0}

\* The row taken out of the first n: the newest bundle with a prekey left,
\* else the newest published bundle, else none (0).
Chosen(n) ==
    LET published == {r \in 1..n : IsPrekeyBundle(r)}
        stocked == {r \in published : rows[r].bundle.keys # {}}
    IN IF stocked # {} THEN Newest(stocked)
       ELSE IF published # {} THEN Newest(published) ELSE {0}

\* qr.startTransaction(), and the SELECT takes its snapshot of the table.
BeginGetBundle(i) ==
    /\ ipc[i] = "idle"
    /\ ipc' = [ipc EXCEPT ![i] = "select"]
    /\ seen' = [seen EXCEPT ![i] = Len(rows)]
    /\ UNCHANGED <<rows, pick, pool, got, wvars, uploaded, restored>>

\* FOR UPDATE waits for the rows' locks and returns their newest versions.
LockRows(i) ==
    /\ ipc[i] = "select"
    /\ CanLock(i)
    /\ ipc' = [ipc EXCEPT ![i] = "holding"]
    /\ \E r \in Chosen(seen[i]) :
         /\ pick' = [pick EXCEPT ![i] = r]
         /\ pool' = [pool EXCEPT ![i] = IF r = 0 THEN {} ELSE rows[r].bundle.keys]
    /\ UNCHANGED <<rows, seen, got, wvars, uploaded, restored>>

\* commitTransaction() or rollbackTransaction(), then release(): either frees
\* the row locks, and what the call read is not used again.
Release(i, result) ==
    /\ ipc' = [ipc EXCEPT ![i] = result]
    /\ seen' = [seen EXCEPT ![i] = 0]
    /\ pick' = [pick EXCEPT ![i] = 0]
    /\ pool' = [pool EXCEPT ![i] = {}]

\* Seeded fault: answer the 404 and leave the transaction open.
NotFoundKeepsLocks(i) ==
    /\ ipc[i] = "holding"
    /\ pick[i] = 0
    /\ UNCHANGED vars

\* No row of the owner is a published bundle: commit and answer 404.
NotFound(i) ==
    /\ ipc[i] = "holding"
    /\ pick[i] = 0
    /\ Release(i, "notFound")
    /\ UNCHANGED <<rows, got, wvars, uploaded, restored>>

\* Seeded fault: no test for an empty pool before taking its first prekey.
ConsumableOrUndefined(S) == IF S = {} THEN {None} ELSE S

\* consumeOneTimePreKey: what it can take from the pool, nothing if empty.
Consumable(S) == S

\* Take one prekey and save the pool without it, inside the transaction:
\* nobody else sees that before the COMMIT.
TakeKey(i) ==
    /\ ipc[i] = "holding"
    /\ pick[i] # 0
    /\ \E k \in Consumable(pool[i]) : got' = [got EXCEPT ![i] = k]
    /\ ipc' = [ipc EXCEPT ![i] = "saved"]
    /\ UNCHANGED <<rows, seen, pick, pool, wvars, uploaded, restored>>

\* COMMIT: the saved pool replaces the row's.
Commit(i) ==
    /\ ipc[i] = "saved"
    /\ rows' = [rows EXCEPT ![pick[i]] =
                  Written(@, [@.bundle EXCEPT !.keys = pool[i] \ {got[i]}], @.stamp)]
    /\ Release(i, "committed")
    /\ UNCHANGED <<got, wvars, uploaded, restored>>

\* res.json with the prekey reaches the initiator.
AnswerBundle(i) ==
    /\ ipc[i] = "committed"
    /\ ipc' = [ipc EXCEPT ![i] = "served"]
    /\ UNCHANGED <<rows, seen, pick, pool, got, wvars, uploaded, restored>>

\* The COMMIT was done but its reply is an error (the catch then rolls back
\* nothing and answers with the error), or user-service or the client is gone
\* before the answer: the prekey is used up and nobody has it.
LoseAnswer(i) ==
    /\ ipc[i] = "committed"
    /\ ipc' = [ipc EXCEPT ![i] = "failed"]
    /\ got' = [got EXCEPT ![i] = None]
    /\ UNCHANGED <<rows, seen, pick, pool, wvars, uploaded, restored>>

\* The pool is empty: commit and answer with identity material only.
Exhausted(i) ==
    /\ ipc[i] = "holding"
    /\ pick[i] # 0
    /\ pool[i] = {}
    /\ Release(i, "exhausted")
    /\ UNCHANGED <<rows, got, wvars, uploaded, restored>>

\* An error inside the transaction, its COMMIT included (rollback), or
\* user-service dies and Postgres rolls back.
Rollback(i) ==
    /\ ipc[i] \in {"select", "holding", "saved"}
    /\ Release(i, "failed")
    /\ got' = [got EXCEPT ![i] = None]
    /\ UNCHANGED <<rows, wvars, uploaded, restored>>
-----------------------------------------------------------------------------
(* publishPrekey and storeSignalKeys: findOne, then save                   *)

\* findOne({ where: { userId, deviceId } }) has no order: any matching row.
Find(d) == IF Of(d) = {} THEN {0} ELSE Of(d)

\* The entity loaded from row r, or a new one for device d.
Load(r, d) ==
    IF r = 0
    THEN [id |-> 0, device |-> d, bundle |-> NoBundle, stamp |-> "null", ver |-> 0]
    ELSE [id |-> r, device |-> d, bundle |-> rows[r].bundle,
          stamp |-> rows[r].stamp, ver |-> rows[r].ver]

\* Seeded fault: replace the whole bundle, as the comment warns against.
MergeReplacing(old, upload) == upload

\* { ...existingBundle, ...bundle }: what the upload lacks stays as it was.
Merge(old, upload) ==
    [pub |-> old.pub \/ upload.pub,
     keys |-> IF upload.pub THEN upload.keys ELSE old.keys,
     backup |-> IF upload.backup # None THEN upload.backup ELSE old.backup]

\* A client uploads only prekeys it has just generated; its bundle may lack
\* preKeys, and may carry an _encryptedKeyBundle of its own.
Uploads(w) ==
    LET blob == IF w \in Carriers THEN w ELSE None
    IN [pub: {TRUE}, keys: SUBSET (Keys \ uploaded), backup: {blob}]
          \cup [pub: {FALSE}, keys: {{}}, backup: {blob}]

FindToPublish(w) ==
    /\ w \in Publishers
    /\ wpc[w] = "idle"
    /\ \E d \in Devices : \E r \in Find(d), u \in Uploads(w) :
         /\ ent' = [ent EXCEPT ![w] =
                      [Load(r, d) EXCEPT !.bundle = Merge(@, u)]]
         /\ uploaded' = uploaded \cup u.keys
    /\ wpc' = [wpc EXCEPT ![w] = "save"]
    /\ UNCHANGED <<rows, ivars, base, restored>>

\* hoursSinceLastBackup >= 24, or no backup yet.
WithinLimit(r) == r # 0 => rows[r].stamp # "recent"

\* Seeded fault: the backup replaces the bundle instead of joining it.
WithBackupAlone(old, w) == [NoBundle EXCEPT !.backup = w]

\* { ...existing.bundle, _encryptedKeyBundle: encryptedBundle }
WithBackup(old, w) == [old EXCEPT !.backup = w]

FindToBackup(w) ==
    /\ w \in Backups
    /\ wpc[w] = "idle"
    /\ \E d \in Devices : \E r \in Find(d) :
         /\ WithinLimit(r)
         /\ ent' = [ent EXCEPT ![w] =
                      [Load(r, d) EXCEPT !.bundle = WithBackup(@, w),
                                         !.stamp = "recent"]]
    /\ wpc' = [wpc EXCEPT ![w] = "save"]
    /\ UNCHANGED <<rows, ivars, base, uploaded, restored>>

\* 429: a backup of this device less than 24 hours old.
RefuseBackup(w) ==
    /\ w \in Backups
    /\ wpc[w] = "idle"
    /\ \E d \in Devices : \E r \in Find(d) : ~WithinLimit(r)
    /\ wpc' = [wpc EXCEPT ![w] = "refused"]
    /\ UNCHANGED <<rows, ivars, ent, base, uploaded, restored>>

\* The request is over, and what save() re-read is not used again.
Finish(w, result) ==
    /\ wpc' = [wpc EXCEPT ![w] = result]
    /\ base' = [base EXCEPT ![w] = Blank(@.device)]

\* save() of a new entity: INSERT.  Nothing makes (userId, deviceId) unique.
\* "done" is the end of the request after its write was committed, whether
\* its client hears of it or the answer is lost on the way.
Insert(w) ==
    /\ wpc[w] = "save"
    /\ ent[w].id = 0
    /\ rows' = Append(rows, [device |-> ent[w].device, bundle |-> ent[w].bundle,
                             stamp |-> ent[w].stamp, ver |-> 0])
    /\ Finish(w, "done")
    /\ UNCHANGED <<ivars, ent, uploaded, restored>>

\* save() of a loaded entity first re-reads the row, without a lock.
Reselect(w) ==
    /\ wpc[w] = "save"
    /\ ent[w].id # 0
    /\ base' = [base EXCEPT ![w] = rows[ent[w].id]]
    /\ wpc' = [wpc EXCEPT ![w] = "update"]
    /\ UNCHANGED <<rows, ivars, ent, uploaded, restored>>

\* The entity was loaded before the row's last committed write.
StaleEntity(w) == ent[w].ver # rows[ent[w].id].ver

\* UPDATE sets the columns in which the entity differs from what save() read.
Updated(w) ==
    LET r == rows[ent[w].id]
    IN Written(r, IF ent[w].bundle # base[w].bundle THEN ent[w].bundle ELSE r.bundle,
                  IF ent[w].stamp # base[w].stamp THEN ent[w].stamp ELSE r.stamp)

\* UPDATE waits for the row's lock, then writes and commits.
Update(w) ==
    /\ wpc[w] = "update"
    /\ Unlocked(ent[w].id)
    /\ rows' = [rows EXCEPT ![ent[w].id] = Updated(w)]
    /\ restored' = IF StaleEntity(w)
                   THEN restored \cup (Handed \cap Updated(w).bundle.keys)
                   ELSE restored
    /\ Finish(w, "done")
    /\ UNCHANGED <<ivars, ent, uploaded>>

\* A query of the request fails or is rolled back, or user-service dies before
\* the write is committed: nothing is written.
WriterFails(w) ==
    /\ wpc[w] \in {"save", "update"}
    /\ Finish(w, "failed")
    /\ UNCHANGED <<rows, ivars, ent, uploaded, restored>>

\* 24 hours pass: no request is in flight that long.
DayPasses ==
    /\ \A w \in Writers : wpc[w] \notin {"save", "update"}
    /\ \E r \in RowIds : rows[r].stamp = "recent"
    /\ rows' = [r \in RowIds |->
                  [rows[r] EXCEPT !.stamp = IF @ = "recent" THEN "old" ELSE @]]
    /\ UNCHANGED <<ivars, wvars, uploaded, restored>>
-----------------------------------------------------------------------------
\* A device that was backed up today and whose prekeys are used up.
UsedUp(d) == [device |-> d, bundle |-> [NoBundle EXCEPT !.pub = TRUE],
              stamp |-> "recent", ver |-> 0]

\* A new owner, or one with such a device.
Init ==
    /\ rows \in {<<>>} \cup {<<UsedUp(d)>> : d \in Devices}
    /\ ipc = [i \in Initiators |-> "idle"]
    /\ seen = [i \in Initiators |-> 0]
    /\ pick = [i \in Initiators |-> 0]
    /\ pool = [i \in Initiators |-> {}]
    /\ got = [i \in Initiators |-> None]
    /\ wpc = [w \in Writers |-> "idle"]
    /\ ent \in [Writers -> {Load(0, d) : d \in Devices}]
    /\ base \in [Writers -> {Blank(d) : d \in Devices}]
    /\ uploaded = {}
    /\ restored = {}

GetBundleStep(i) ==
    \/ LockRows(i)
    \/ NotFound(i)
    \/ TakeKey(i)
    \/ Commit(i)
    \/ AnswerBundle(i)
    \/ Exhausted(i)

SaveStep(w) ==
    \/ Insert(w)
    \/ Reselect(w)
    \/ Update(w)

Next ==
    \/ \E i \in Initiators : BeginGetBundle(i) \/ GetBundleStep(i) \/ Rollback(i)
                              \/ LoseAnswer(i)
    \/ \E w \in Writers : FindToPublish(w) \/ FindToBackup(w) \/ RefuseBackup(w)
                          \/ SaveStep(w) \/ WriterFails(w)
    \/ DayPasses

\* A request that has begun goes on: Postgres answers and grants free locks.
Fairness ==
    /\ \A i \in Initiators : WF_vars(GetBundleStep(i))
    /\ \A w \in Writers : WF_vars(SaveStep(w))

Spec == Init /\ [][Next]_vars /\ Fairness
-----------------------------------------------------------------------------
TypeOK ==
    /\ rows \in Seq(Row)
    /\ ipc \in [Initiators -> {"idle", "select", "holding", "saved", "committed",
                               "served", "exhausted", "notFound", "failed"}]
    /\ seen \in [Initiators -> Nat]
    /\ pick \in [Initiators -> Nat]
    /\ pool \in [Initiators -> SUBSET Keys]
    /\ got \in [Initiators -> Keys \cup {None}]
    /\ wpc \in [Writers -> {"idle", "save", "update", "done", "refused", "failed"}]
    /\ ent \in [Writers -> Entity]
    /\ base \in [Writers -> Row]
    /\ uploaded \in SUBSET Keys
    /\ restored \in SUBSET Keys
    /\ \A i \in Initiators :
         /\ pick[i] <= seen[i] /\ seen[i] <= Len(rows)
         /\ got[i] # None <=> ipc[i] \in {"saved", "committed", "served"}
    /\ \A w \in Writers :
         /\ ent[w].id <= Len(rows)
         /\ wpc[w] = "update" => ent[w].id # 0

\* However many initiators ask at once, and however their transactions and
\* the owner's publishes and backups interleave, fail or lose their answers,
\* a one-time prekey is handed out twice only if a save from a stale copy of
\* the row put it back in the pool after its first hand-out was committed
\* (PrekeyController.ts, getPrekeyBundle: "avoid racing consumers returning
\* the same prekey").
HandedOnceUnlessRestored ==
    \A i, j \in Initiators :
        i # j /\ HandsOut(i) /\ HandsOut(j) /\ got[i] = got[j] => got[i] \in restored

\* What the comments of consumeOneTimePreKey and getPrekeyBundle promise
\* without that exception: each initiator receives a unique one-time prekey.
HandedOnce ==
    \A i, j \in Initiators :
        i # j /\ ipc[i] = "served" /\ ipc[j] = "served" => got[i] # got[j]

\* Writer w's UPDATE writes row r in this step.
Saves(w, r) ==
    wpc[w] = "update" /\ wpc'[w] = "done" /\ ent[w].id = r

\* The only three ways in which a stored pool changes.  A hand-out takes from
\* it exactly the prekey it took for its caller, when it commits (the caller
\* may still never get it: LoseAnswer).  A publish from a current copy
\* replaces it as a whole, by prekeys that were not in it.  A save from a
\* stale copy, of a publish or of a backup, may do anything: it can wipe a
\* newer pool or bring an older one back.  So a call that fails or rolls back
\* before its COMMIT leaves every pool alone, and so does a backup made from
\* a current copy.
PoolChangesExplained ==
    [][\A r \in RowIds : rows'[r].bundle.keys # rows[r].bundle.keys =>
          \/ \E i \in Initiators :
               /\ ipc[i] = "saved" /\ ipc'[i] = "committed"
               /\ pick[i] = r
               /\ got[i] \in rows[r].bundle.keys
               /\ rows'[r].bundle.keys = rows[r].bundle.keys \ {got[i]}
          \/ \E w \in Publishers :
               /\ Saves(w, r)
               /\ ~StaleEntity(w)
               /\ rows'[r].bundle.keys \cap rows[r].bundle.keys = {}
          \/ \E w \in Writers : Saves(w, r) /\ StaleEntity(w)
      ]_vars

\* An initiator is told that no one-time prekey is left, or that there is no
\* bundle, only when that is true of every row it locked, at that moment.
EmptyHandedOnlyWhenEmpty ==
    [][\A i \in Initiators :
          ipc[i] = "holding" /\ ipc'[i] \in {"exhausted", "notFound"} =>
             \A r \in 1..seen[i] :
                rows[r].bundle.pub => ipc'[i] = "exhausted" /\ rows[r].bundle.keys = {}
      ]_vars

\* A save from an entity that is still current loses nothing that others
\* wrote: a publish keeps the 24 hour stamp, and the device's backup unless
\* the upload carries one itself; a backup keeps the pool (comment in
\* publishPrekey).
CurrentSaveLosesNothing ==
    [][\A w \in Writers :
          Saves(w, ent[w].id) /\ ~StaleEntity(w) =>
             LET r == ent[w].id
             IN IF w \in Publishers
                THEN /\ rows'[r].bundle.backup \in {rows[r].bundle.backup, w}
                     /\ rows'[r].stamp = rows[r].stamp
                ELSE /\ rows'[r].bundle.keys = rows[r].bundle.keys
                     /\ rows'[r].bundle.pub = rows[r].bundle.pub
      ]_vars

\* Every call ends, so no row stays locked and no request waits for ever on
\* another's lock: each early return commits.
GetBundleEnds ==
    \A i \in Initiators :
        ipc[i] = "select" ~> ipc[i] \notin {"select", "holding", "saved", "committed"}
-----------------------------------------------------------------------------
(* The inductive invariant behind HandedOnceUnlessRestored.  It rests on   *)
(* the row locks (LockInv, ReadInv) and on every uploaded prekey living in *)
(* one row, or in the entities that will be saved to that row (ApartInv):  *)
(* two entities that save() will INSERT are two rows.                      *)

InFlight(w) == wpc[w] \in {"save", "update"}

SameRow(w, r) == ent[w].id = r

\* Two calls never hold a row at the same time.
LockInv ==
    \A i, j \in Initiators :
       i # j /\ Holds(i) /\ Holds(j) => seen[i] = 0 \/ seen[j] = 0

\* What a call read from its chosen row is still what the row holds, and it
\* takes its prekey from that.
ReadInv ==
    \A i \in Initiators :
       /\ Holds(i) /\ pick[i] # 0 =>
             pick[i] \in 1..seen[i] /\ pool[i] = rows[pick[i]].bundle.keys
       /\ ipc[i] = "saved" => pick[i] # 0 /\ got[i] \in pool[i]

\* Only uploaded prekeys are stored, saved or handed out.
KnownInv ==
    /\ \A r \in RowIds : rows[r].bundle.keys \subseteq uploaded
    /\ \A w \in Writers : InFlight(w) => ent[w].bundle.keys \subseteq uploaded
    /\ Handed \subseteq uploaded

ApartInv ==
    /\ \A r, s \in RowIds : r # s => rows[r].bundle.keys \cap rows[s].bundle.keys = {}
    /\ \A w \in Writers, r \in RowIds :
          InFlight(w) /\ ~SameRow(w, r) =>
             ent[w].bundle.keys \cap rows[r].bundle.keys = {}
    /\ \A w, v \in Writers :
          InFlight(w) /\ InFlight(v) /\ w # v /\ (SameRow(w, 0) \/ ~SameRow(w, ent[v].id)) =>
             ent[w].bundle.keys \cap ent[v].bundle.keys = {}

\* An entity is at most as new as its row.
VersionInv ==
    \A w \in Writers :
       InFlight(w) /\ ~SameRow(w, 0) => ent[w].ver <= rows[ent[w].id].ver

\* A handed-out prekey is in a pool only if a stale save restored it, and in
\* an entity only if that entity is stale.
PoolInv ==
    /\ \A r \in RowIds : rows[r].bundle.keys \cap Handed \subseteq restored
    /\ \A w \in Writers :
          InFlight(w) /\ (SameRow(w, 0) \/ ~StaleEntity(w)) =>
             ent[w].bundle.keys \cap Handed \subseteq restored

IInv ==
    /\ TypeOK
    /\ LockInv
    /\ ReadInv
    /\ KnownInv
    /\ ApartInv
    /\ VersionInv
    /\ PoolInv
    /\ HandedOnceUnlessRestored
=============================================================================
