------------------------------- MODULE Accounts -------------------------------
(***************************************************************************)
(* Who is who: user-service registers accounts and signs tokens, every     *)
(* service takes its caller from a token, and chat-service asks            *)
(* user-service for the names in a conversation list and caches them.      *)
(*                                                                         *)
(* Nothing changes or deletes an account.  Passwords, and the wording of   *)
(* refusals, are left out; a wrong password is a login that does nothing.  *)
(***************************************************************************)
EXTENDS Naturals, FiniteSets

CONSTANTS
    Clients,
    Ids,        \* the UUIDs that the database will draw
    Spellings,  \* user names as clients spell them, all of them valid
    Names,      \* user names as they are stored
    Uname,      \* trim().toLowerCase() of each spelling
    Emails,     \* addresses as normalizeEmail leaves them
    None

Token == [id: Ids, username: Names, email: Emails]

Row == [username: Names, email: Emails]

\* What registration holds: its input while it hashes the password, and the id
\* of its row from the INSERT on.
Registration == [username: Names, email: Emails, id: Ids \cup {None}]

ASSUME AccountsAssumption ==
    /\ Uname \in [Spellings -> Names]
    /\ None \notin Token /\ None \notin Ids
    /\ None \notin Row /\ None \notin Registration

VARIABLES
    users,      \* the table users: the row of each id, or None
    reg,        \* each client's registration in progress, or None
    valid,      \* tokens that are signed and not expired
    cookie,     \* each client's jwt cookie, or None
    sockets,    \* socket.data.user of the WebSockets that are open
    list,       \* each client's getConversations in progress, or None
    cache,      \* userDetailCache: the name held for each id, or None
    welcomed,   \* accounts whose USER_REGISTERED event was published
    unanswered  \* accounts whose registration lost the answer to its INSERT, its
                \* process, or its event on a closed channel (history)

vars == <<users, reg, valid, cookie, sockets, list, cache, welcomed, unanswered>>

List == [token: Token, waits: SUBSET Ids]

TypeOK ==
    /\ users \in [Ids -> Row \cup {None}]
    /\ reg \in [Clients -> Registration \cup {None}]
    /\ valid \subseteq Token
    /\ cookie \in [Clients -> Token \cup {None}]
    /\ sockets \subseteq Token
    /\ list \in [Clients -> List \cup {None}]
    /\ cache \in [Ids -> Names \cup {None}]
    /\ welcomed \subseteq Ids
    /\ unanswered \subseteq Ids

Init ==
    /\ users = [i \in Ids |-> None]
    /\ reg = [c \in Clients |-> None]
    /\ valid = {}
    /\ cookie = [c \in Clients |-> None]
    /\ sockets = {}
    /\ list = [c \in Clients |-> None]
    /\ cache = [i \in Ids |-> None]
    /\ welcomed = {}
    /\ unanswered = {}

Stored == {i \in Ids : users[i] # None}
-----------------------------------------------------------------------------
(* registration                                                            *)

\* findOne({ where: [{ email }, { username }] })
Existing(n, e) == {i \in Stored : users[i].email = e \/ users[i].username = n}

\* The check, and then bcrypt.hash.
Register(c, s, e) ==
    /\ reg[c] = None
    /\ Existing(Uname[s], e) = {}
    /\ reg' = [reg EXCEPT ![c] = [username |-> Uname[s], email |-> e, id |-> None]]
    /\ UNCHANGED <<users, valid, cookie, sockets, list, cache, welcomed, unanswered>>

\* Seeded fault: the column username is not unique.
ViolatesEmailOnly(n, e) == \E i \in Stored : users[i].email = e

\* The unique columns of the table refuse the row.
Violates(n, e) == \E i \in Stored : users[i].email = e \/ users[i].username = n

Hashed(c) == reg[c] # None /\ reg[c].id = None

\* save(): the INSERT commits, and its answer arrives or is lost.
Insert(c, i) ==
    /\ Hashed(c) /\ ~Violates(reg[c].username, reg[c].email)
    /\ i \notin Stored
    /\ users' = [users EXCEPT ![i] = [username |-> reg[c].username, email |-> reg[c].email]]
    /\ \/ /\ reg' = [reg EXCEPT ![c].id = i]
          /\ UNCHANGED unanswered
       \/ /\ reg' = [reg EXCEPT ![c] = None]
          /\ unanswered' = unanswered \cup {i}
    /\ UNCHANGED <<valid, cookie, sockets, list, cache, welcomed>>

\* The INSERT is refused, although the check had found nobody, or fails.
InsertFails(c) ==
    /\ Hashed(c)
    /\ reg' = [reg EXCEPT ![c] = None]
    /\ UNCHANGED <<users, valid, cookie, sockets, list, cache, welcomed, unanswered>>

\* Seeded fault: the token leaves out the address.
TokenWithoutEmail(i) == [id |-> i, username |-> users[i].username]

\* createSendToken: jwt.sign({ username, email, id })
TokenOf(i) == [id |-> i, username |-> users[i].username, email |-> users[i].email]

SendToken(c, i) ==
    /\ valid' = valid \cup {TokenOf(i)}
    /\ cookie' = [cookie EXCEPT ![c] = TokenOf(i)]

\* Seeded fault: the event goes to a queue that does not exist.
PublishedNowhere(i) == {}

\* publishNotification reaches the queue.
Published(i) == {i}

\* What follows the answer of the INSERT runs without another wait.  If the
\* channel is closed, the event is logged and forgotten.
FinishRegistration(c) ==
    /\ reg[c] # None /\ reg[c].id # None
    /\ SendToken(c, reg[c].id)
    /\ \/ welcomed' = welcomed \cup Published(reg[c].id) /\ UNCHANGED unanswered
       \/ unanswered' = unanswered \cup {reg[c].id} /\ UNCHANGED welcomed
    /\ reg' = [reg EXCEPT ![c] = None]
    /\ UNCHANGED <<users, sockets, list, cache>>

\* user-service ends with the registrations it has in hand.
Crash ==
    /\ reg # [c \in Clients |-> None]
    /\ unanswered' = unanswered \cup {reg[c].id : c \in {d \in Clients : reg[d] # None /\ reg[d].id # None}}
    /\ reg' = [c \in Clients |-> None]
    /\ UNCHANGED <<users, valid, cookie, sockets, list, cache, welcomed>>
-----------------------------------------------------------------------------
(* Tokens.                                                                 *)

\* login: findOne({ email }), isPasswordMatch, createSendToken.
Login(c, i) ==
    /\ i \in Stored
    /\ SendToken(c, i)
    /\ UNCHANGED <<users, reg, sockets, list, cache, welcomed, unanswered>>

\* logout: the cookie is cleared; the token stays valid.
Logout(c) ==
    /\ cookie[c] # None
    /\ cookie' = [cookie EXCEPT ![c] = None]
    /\ UNCHANGED <<users, reg, valid, sockets, list, cache, welcomed, unanswered>>

\* expiresIn: '1d'
Expire(t) ==
    /\ valid' = valid \ {t}
    /\ UNCHANGED <<users, reg, cookie, sockets, list, cache, welcomed, unanswered>>

\* authenticated of user-service: jwt.verify
Verifies(t) == t \in valid

\* authMiddleware of chat-service: the caller that a token stands for.
ChatUser(c) == {t \in {cookie[c]} : Verifies(t)}

\* io.use: the token is verified once, at the handshake.
HandshakeUser(c) == {t \in {cookie[c]} : Verifies(t)}

ConnectSocket(c) ==
    /\ \E t \in HandshakeUser(c) \ sockets : sockets' = sockets \cup {t}
    /\ UNCHANGED <<users, reg, valid, cookie, list, cache, welcomed, unanswered>>

\* The last socket of a token closes; the token may have expired long before.
CloseSocket(t) ==
    /\ sockets' = sockets \ {t}
    /\ UNCHANGED <<users, reg, valid, cookie, list, cache, welcomed, unanswered>>
-----------------------------------------------------------------------------
(* getConversations                                                        *)

Uncached(partners) == {i \in partners : cache[i] = None}

\* fetchUserDetailsBatch: names that the cache holds are taken from it, and the
\* others fetched with the caller's cookie.  A list that waits for nothing is
\* answered at once.
GetConversations(c, partners) ==
    /\ list[c] = None /\ Uncached(partners) # {}
    /\ \E t \in ChatUser(c) :
           list' = [list EXCEPT ![c] = [token |-> t, waits |-> Uncached(partners)]]
    /\ UNCHANGED <<users, reg, valid, cookie, sockets, cache, welcomed, unanswered>>

\* The list is answered when the last of its fetches has ended.
Fetched(c, i) ==
    LET waits == list[c].waits \ {i}
    IN list' = [list EXCEPT ![c] = IF waits = {} THEN None ELSE [@ EXCEPT !.waits = waits]]

\* GET /users/:userId answers: getUserById behind authenticated.
FetchName(c, i) ==
    /\ list[c] # None /\ i \in list[c].waits
    /\ Verifies(list[c].token) /\ i \in Stored
    /\ cache' = [cache EXCEPT ![i] = users[i].username]
    /\ Fetched(c, i)
    /\ UNCHANGED <<users, reg, valid, cookie, sockets, welcomed, unanswered>>

\* 401, 404, 429 or no answer: the list shows "Unknown User", and the cache
\* keeps no entry.
FetchFails(c, i) ==
    /\ list[c] # None /\ i \in list[c].waits
    /\ Fetched(c, i)
    /\ UNCHANGED <<users, reg, valid, cookie, sockets, cache, welcomed, unanswered>>

\* The TTL of 60 s, or the limit of 500 entries.
Evict(i) ==
    /\ cache[i] # None
    /\ cache' = [cache EXCEPT ![i] = None]
    /\ UNCHANGED <<users, reg, valid, cookie, sockets, list, welcomed, unanswered>>
-----------------------------------------------------------------------------
RegistrationStep(c) ==
    \/ \E s \in Spellings, e \in Emails : Register(c, s, e)
    \/ \E i \in Ids : Insert(c, i)
    \/ InsertFails(c) \/ FinishRegistration(c)

SessionStep(c) ==
    \/ \E i \in Ids : Login(c, i)
    \/ Logout(c) \/ ConnectSocket(c)

ListStep(c) ==
    \/ \E partners \in SUBSET Ids : GetConversations(c, partners)
    \/ \E i \in Ids : FetchName(c, i) \/ FetchFails(c, i)

Next ==
    \/ \E c \in Clients : RegistrationStep(c) \/ SessionStep(c) \/ ListStep(c)
    \/ \E t \in valid : Expire(t)
    \/ \E t \in sockets : CloseSocket(t)
    \/ \E i \in Ids : Evict(i)
    \/ Crash

Spec == Init /\ [][Next]_vars
-----------------------------------------------------------------------------
\* Every id and name that a token, a WebSocket or the cache puts together; a
\* conversation list shows what it finds in the cache or has just put there.
Named ==
    {<<t.id, t.username>> : t \in valid \cup sockets}
    \cup {<<i, cache[i]>> : i \in {j \in Ids : cache[j] # None}}

\* Wherever a user name stands, it stands for one account, for ever: whatever
\* registrations raced for it between findOne and INSERT, and however old the
\* token, the socket or the cache entry is (registration 49-61, createSendToken
\* 105-110, fetchUserDetails 27-56).
NamesIdentify ==
    \A p, q \in Named : (p[1] = q[1]) <=> (p[2] = q[2])

\* An account whose registration is over has its welcome on the way, unless its
\* answer, process or channel was lost in between; a retry does not make up for
\* it, since the account exists (registration 57-88).
WelcomedUnlessUnanswered ==
    \A i \in Stored :
        (\A c \in Clients : reg[c] = None \/ reg[c].id # i) => i \in welcomed \cup unanswered
=============================================================================
