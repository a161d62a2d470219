--------------------------- MODULE Accounts_proofs ---------------------------
(* Names identify accounts and new accounts are welcomed, proved for any       *)
(* clients, names and addresses.                                               *)
EXTENDS Accounts, TLAPS

\* A token, or what a socket keeps of it, says of its account what the table says.
True(t) == t.id \in Stored /\ t.username = users[t.id].username

\* No two accounts share a name.
UniqueInv == \A i, j \in Stored : users[i].username = users[j].username => i = j

\* Copies of an account never differ from it, since nothing changes an account.
CopyInv ==
    /\ \A t \in valid \cup sockets : True(t)
    /\ \A i \in Ids : cache[i] # None => i \in Stored /\ cache[i] = users[i].username

\* A registration that has the answer of its INSERT has a row.
RegInv == \A c \in Clients : reg[c] # None /\ reg[c].id # None => reg[c].id \in Stored

IInv == TypeOK /\ UniqueInv /\ CopyInv /\ RegInv

-------------------------------------------------------------------------------
(* Accounts stay as they are.                                                  *)

LEMMA TokenOfTyped ==
    ASSUME TypeOK, NEW i \in Stored
    PROVE  TokenOf(i) \in Token /\ True(TokenOf(i))
<1>1. i \in Ids /\ users[i] \in Row
  BY DEF TypeOK, Stored
<1> QED
  BY <1>1 DEF Token, TokenOf, True, Row

LEMMA RegRecord ==
    ASSUME TypeOK, NEW c \in Clients, reg[c] # None
    PROVE  reg[c] \in Registration
BY DEF TypeOK

\* A step that keeps the table keeps the truth of tokens and the uniqueness.
LEMMA TableKept ==
    ASSUME IInv, UNCHANGED users
    PROVE  UniqueInv' /\ Stored' = Stored /\ \A t \in Token : True(t) => True(t)'
BY DEF IInv, UniqueInv, Stored, True

LEMMA TypeInit == Init => TypeOK
BY DEF Init, TypeOK

LEMMA InitInv == Init => IInv
BY TypeInit DEF Init, IInv, UniqueInv, CopyInv, RegInv, Stored

-------------------------------------------------------------------------------
(* Each action keeps the invariant.                                            *)

LEMMA RegisterInv ==
    ASSUME IInv, NEW c \in Clients, NEW s \in Spellings, NEW e \in Emails, Register(c, s, e)
    PROVE  IInv'
<1>1. Uname[s] \in Names
  BY AccountsAssumption
<1>2. [username |-> Uname[s], email |-> e, id |-> None] \in Registration
  BY <1>1 DEF Registration
<1>3. TypeOK'
  BY <1>2 DEF IInv, TypeOK, Register
<1>4. UniqueInv' /\ CopyInv'
  BY DEF IInv, UniqueInv, CopyInv, Register, Stored, True
<1>5. RegInv'
  BY DEF IInv, TypeOK, RegInv, Register, Stored
<1> QED
  BY <1>3, <1>4, <1>5 DEF IInv

LEMMA InsertInv ==
    ASSUME IInv, NEW c \in Clients, NEW i \in Ids, Insert(c, i)
    PROVE  IInv'
<1> DEFINE new == [username |-> reg[c].username, email |-> reg[c].email]
<1>1. reg[c] \in Registration
  BY RegRecord DEF IInv, Insert, Hashed
<1>2. new \in Row
  BY <1>1 DEF Registration, Row
<1>3. new # None
  BY <1>2, AccountsAssumption DEF Row
<1>4. users' = [users EXCEPT ![i] = new] /\ i \notin Stored
  BY DEF Insert
<1>5. users \in [Ids -> Row \cup {None}]
  BY DEF IInv, TypeOK
<1>6. [reg[c] EXCEPT !.id = i] \in Registration
  BY <1>1 DEF Registration
<1>7. reg' \in [Clients -> Registration \cup {None}]
  <2>1. reg \in [Clients -> Registration \cup {None}]
    BY DEF IInv, TypeOK
  <2>2. CASE reg' = [reg EXCEPT ![c].id = i]
    BY <1>6, <2>1, <2>2
  <2>3. CASE reg' = [reg EXCEPT ![c] = None]
    BY <2>1, <2>3
  <2> QED
    BY <2>2, <2>3 DEF Insert
<1>8. TypeOK'
  <2>1. users' \in [Ids -> Row \cup {None}]
    BY <1>2, <1>4, <1>5
  <2>2. unanswered' \subseteq Ids
    BY DEF IInv, TypeOK, Insert
  <2> QED
    BY <1>7, <2>1, <2>2 DEF IInv, TypeOK, Insert
<1>9. Stored' = Stored \cup {i} /\ users'[i] = new /\ \A j \in Stored : users'[j] = users[j]
  <2> HIDE DEF new
  <2> QED
    BY <1>3, <1>4, <1>5 DEF Stored
<1>10. \A j \in Stored : users[j].username # reg[c].username
  BY DEF Insert, Violates
<1>11. UniqueInv'
  <2>1. new.username = reg[c].username
    OBVIOUS
  <2> HIDE DEF new
  <2> SUFFICES ASSUME NEW j \in Stored \cup {i}, NEW k \in Stored \cup {i},
                      users'[j].username = users'[k].username
               PROVE  j = k
    BY <1>9 DEF UniqueInv
  <2>2. CASE j = i
    BY <1>9, <1>10, <2>1, <2>2
  <2>3. CASE j # i /\ k = i
    BY <1>9, <1>10, <2>1, <2>3
  <2>4. CASE j # i /\ k # i
    BY <1>9, <2>4 DEF IInv, UniqueInv
  <2> QED
    BY <2>2, <2>3, <2>4
<1>12. CopyInv'
  <2> HIDE DEF new
  <2>1. UNCHANGED <<valid, sockets, cache>>
    BY DEF Insert
  <2>2. \A t \in valid \cup sockets : True(t)'
    BY <1>9 DEF IInv, CopyInv, True
  <2>3. \A j \in Ids : cache[j] # None => j \in Stored' /\ cache[j] = users'[j].username
    BY <1>9 DEF IInv, CopyInv
  <2> QED
    BY <2>1, <2>2, <2>3 DEF CopyInv
<1>13. RegInv'
  <2> SUFFICES ASSUME NEW d \in Clients, reg'[d] # None, reg'[d].id # None
               PROVE  reg'[d].id \in Stored \cup {i}
    BY <1>9 DEF RegInv
  <2>1. CASE d # c
    BY <2>1 DEF IInv, TypeOK, RegInv, Insert
  <2>2. CASE d = c
    <3>1. reg' = [reg EXCEPT ![c].id = i] \/ reg' = [reg EXCEPT ![c] = None]
      BY DEF Insert
    <3>2. reg \in [Clients -> Registration \cup {None}]
      BY DEF IInv, TypeOK
    <3>3. reg' = [reg EXCEPT ![c].id = i]
      BY <2>2, <3>1, <3>2
    <3>4. reg'[d].id = i
      BY <1>1, <2>2, <3>2, <3>3 DEF Registration
    <3> QED
      BY <3>4
  <2> QED
    BY <2>1, <2>2
<1> QED
  BY <1>8, <1>11, <1>12, <1>13 DEF IInv

LEMMA InsertFailsInv ==
    ASSUME IInv, NEW c \in Clients, InsertFails(c)
    PROVE  IInv'
<1>1. TypeOK' /\ RegInv'
  BY DEF IInv, TypeOK, RegInv, InsertFails, Stored
<1> QED
  BY <1>1 DEF IInv, UniqueInv, CopyInv, InsertFails, Stored, True

\* createSendToken, whoever calls it.
LEMMA SendTokenInv ==
    ASSUME IInv, NEW c \in Clients, NEW i \in Stored, SendToken(c, i),
           UNCHANGED <<users, sockets, cache>>
    PROVE  /\ valid' \subseteq Token
           /\ cookie' \in [Clients -> Token \cup {None}]
           /\ UniqueInv' /\ CopyInv'
<1>1. TokenOf(i) \in Token /\ True(TokenOf(i))
  BY TokenOfTyped DEF IInv
<1>2. valid' \subseteq Token /\ cookie' \in [Clients -> Token \cup {None}]
  BY <1>1 DEF IInv, TypeOK, SendToken
<1>3. \A t \in valid' \cup sockets' : True(t)
  BY <1>1 DEF IInv, CopyInv, SendToken
<1>4. CopyInv'
  BY <1>3 DEF IInv, CopyInv, True, Stored
<1> QED
  BY <1>2, <1>4 DEF IInv, UniqueInv, Stored

LEMMA FinishRegistrationInv ==
    ASSUME IInv, NEW c \in Clients, FinishRegistration(c)
    PROVE  IInv'
<1>1. reg[c].id \in Stored
  BY DEF IInv, RegInv, FinishRegistration
<1>2. UNCHANGED <<users, sockets, list, cache>> /\ SendToken(c, reg[c].id)
  BY DEF FinishRegistration
<1>3. /\ valid' \subseteq Token
      /\ cookie' \in [Clients -> Token \cup {None}]
      /\ UniqueInv' /\ CopyInv'
  BY <1>1, <1>2, SendTokenInv
<1>4. reg' \in [Clients -> Registration \cup {None}] /\ RegInv'
  BY <1>2 DEF IInv, TypeOK, RegInv, FinishRegistration, Stored
<1>5. welcomed' \subseteq Ids /\ unanswered' \subseteq Ids
  BY <1>1 DEF IInv, TypeOK, FinishRegistration, Published, Stored
<1>6. TypeOK'
  BY <1>2, <1>3, <1>4, <1>5 DEF IInv, TypeOK
<1> QED
  BY <1>3, <1>4, <1>6 DEF IInv

LEMMA CrashInv ==
    ASSUME IInv, Crash
    PROVE  IInv'
<1>1. unanswered' \subseteq Ids
  BY DEF IInv, TypeOK, RegInv, Crash, Stored
<1>2. TypeOK' /\ RegInv'
  BY <1>1 DEF IInv, TypeOK, RegInv, Crash
<1> QED
  BY <1>2 DEF IInv, UniqueInv, CopyInv, Crash, Stored, True

LEMMA SessionInv ==
    ASSUME IInv, NEW c \in Clients, SessionStep(c)
    PROVE  IInv'
<1>1. ASSUME NEW i \in Ids, Login(c, i) PROVE IInv'
  <2>1. i \in Stored /\ SendToken(c, i)
    BY <1>1 DEF Login
  <2>2. UNCHANGED <<users, reg, sockets, list, cache, welcomed, unanswered>>
    BY <1>1 DEF Login
  <2>3. /\ valid' \subseteq Token
        /\ cookie' \in [Clients -> Token \cup {None}]
        /\ UniqueInv' /\ CopyInv'
    BY <2>1, <2>2, SendTokenInv
  <2>4. RegInv'
    BY <2>2 DEF IInv, RegInv, Stored
  <2> QED
    BY <2>2, <2>3, <2>4 DEF IInv, TypeOK
<1>2. ASSUME Logout(c) PROVE IInv'
  <2>1. TypeOK'
    BY <1>2 DEF IInv, TypeOK, Logout
  <2> QED
    BY <1>2, <2>1 DEF IInv, UniqueInv, CopyInv, RegInv, Logout, Stored, True
<1>3. ASSUME ConnectSocket(c) PROVE IInv'
  <2>1. sockets' \subseteq sockets \cup valid
    BY <1>3 DEF ConnectSocket, HandshakeUser, Verifies
  <2>2. UNCHANGED <<users, reg, valid, cookie, list, cache, welcomed, unanswered>>
    BY <1>3 DEF ConnectSocket
  <2>3. TypeOK'
    BY <2>1, <2>2 DEF IInv, TypeOK
  <2> QED
    BY <2>1, <2>2, <2>3 DEF IInv, UniqueInv, CopyInv, RegInv, Stored, True
<1> QED
  BY <1>1, <1>2, <1>3 DEF SessionStep

\* A list that goes on waits for fewer names.
LEMMA FetchedTyped ==
    ASSUME TypeOK, NEW c \in Clients, NEW i \in Ids, list[c] # None, Fetched(c, i)
    PROVE  list' \in [Clients -> List \cup {None}]
<1> DEFINE shorter == [list[c] EXCEPT !.waits = list[c].waits \ {i}]
<1>1. list \in [Clients -> List \cup {None}] /\ list[c] \in List
  BY DEF TypeOK
<1>2. shorter \in List
  BY <1>1 DEF List
<1>3. list' = [list EXCEPT ![c] = IF list[c].waits \ {i} = {} THEN None ELSE shorter]
  BY DEF Fetched
<1> HIDE DEF shorter
<1> QED
  BY <1>1, <1>2, <1>3

LEMMA ListInv ==
    ASSUME IInv, NEW c \in Clients, ListStep(c)
    PROVE  IInv'
<1>1. ASSUME NEW partners \in SUBSET Ids, GetConversations(c, partners) PROVE IInv'
  <2>1. PICK t \in ChatUser(c) :
            list' = [list EXCEPT ![c] = [token |-> t, waits |-> Uncached(partners)]]
    BY <1>1 DEF GetConversations
  <2>2. t \in Token /\ Uncached(partners) \subseteq Ids
    BY DEF ChatUser, Verifies, IInv, TypeOK, Uncached
  <2>3. [token |-> t, waits |-> Uncached(partners)] \in List
    BY <2>2 DEF List
  <2>4. TypeOK'
    BY <1>1, <2>1, <2>3 DEF IInv, TypeOK, GetConversations
  <2> QED
    BY <1>1, <2>4 DEF IInv, UniqueInv, CopyInv, RegInv, GetConversations, Stored, True
<1>2. ASSUME NEW i \in Ids, FetchName(c, i) PROVE IInv'
  <2>1. list' \in [Clients -> List \cup {None}]
    BY <1>2, FetchedTyped DEF IInv, FetchName
  <2>2. i \in Stored /\ cache' = [cache EXCEPT ![i] = users[i].username]
    BY <1>2 DEF FetchName
  <2>3. UNCHANGED <<users, reg, valid, cookie, sockets, welcomed, unanswered>>
    BY <1>2 DEF FetchName
  <2>4. users[i].username \in Names
    BY <2>2 DEF IInv, TypeOK, Stored, Row
  <2>5. TypeOK'
    BY <2>1, <2>2, <2>3, <2>4 DEF IInv, TypeOK
  <2>6. \A j \in Ids : cache'[j] # None => j \in Stored /\ cache'[j] = users[j].username
    BY <2>2 DEF IInv, TypeOK, CopyInv
  <2>7. CopyInv'
    BY <2>3, <2>6 DEF IInv, CopyInv, Stored, True
  <2> QED
    BY <2>3, <2>5, <2>7 DEF IInv, UniqueInv, RegInv, Stored
<1>3. ASSUME NEW i \in Ids, FetchFails(c, i) PROVE IInv'
  <2>1. list' \in [Clients -> List \cup {None}]
    BY <1>3, FetchedTyped DEF IInv, FetchFails
  <2>2. TypeOK'
    BY <1>3, <2>1 DEF IInv, TypeOK, FetchFails
  <2> QED
    BY <1>3, <2>2 DEF IInv, UniqueInv, CopyInv, RegInv, FetchFails, Stored, True
<1> QED
  BY <1>1, <1>2, <1>3 DEF ListStep

\* A token, a socket or an entry of the cache is forgotten.
LEMMA ForgetInv ==
    ASSUME IInv,
           (\E t \in valid : Expire(t)) \/ (\E t \in sockets : CloseSocket(t))
               \/ (\E i \in Ids : Evict(i))
    PROVE  IInv'
<1>1. UNCHANGED <<users, reg, cookie, list, welcomed, unanswered>>
  BY DEF Expire, CloseSocket, Evict
<1>2. valid' \subseteq valid /\ sockets' \subseteq sockets
  BY DEF Expire, CloseSocket, Evict
<1>3. cache' \in [Ids -> Names \cup {None}] /\ \A i \in Ids : cache'[i] # None => cache'[i] = cache[i]
  BY DEF IInv, TypeOK, Expire, CloseSocket, Evict
<1>4. TypeOK'
  BY <1>1, <1>2, <1>3 DEF IInv, TypeOK
<1>5. CopyInv'
  BY <1>1, <1>2, <1>3 DEF IInv, CopyInv, Stored, True
<1> QED
  BY <1>1, <1>4, <1>5 DEF IInv, UniqueInv, RegInv, Stored

LEMMA NextInv == IInv /\ [Next]_vars => IInv'
<1> SUFFICES ASSUME IInv, [Next]_vars PROVE IInv'
  OBVIOUS
<1>1. ASSUME NEW c \in Clients, RegistrationStep(c) PROVE IInv'
  BY <1>1, RegisterInv, InsertInv, InsertFailsInv, FinishRegistrationInv DEF RegistrationStep
<1>2. CASE Crash
  BY <1>2, CrashInv
<1>3. CASE UNCHANGED vars
  BY <1>3 DEF vars, IInv, TypeOK, UniqueInv, CopyInv, RegInv, Stored, True
<1> QED
  BY <1>1, <1>2, <1>3, SessionInv, ListInv, ForgetInv DEF Next

LEMMA Invariance == Spec => []IInv
BY InitInv, NextInv, PTL DEF Spec

-------------------------------------------------------------------------------
\* The state of registration, of every token, socket and conversation list, and of
\* the cache, is always of its type (AuthController.ts, auth.ts).
THEOREM TypeCorrect == Spec => []TypeOK
<1>1. IInv => TypeOK
  BY DEF IInv
<1> QED
  BY <1>1, Invariance, PTL

\* A user name stands for one account in all tokens, sockets and cache entries, for
\* any number of clients that race to register it and copies of any age
\* (registration, createSendToken, fetchUserDetails).
THEOREM NamesIdentifyAlways == Spec => []NamesIdentify
<1>1. IInv => NamesIdentify
  <2> SUFFICES ASSUME IInv PROVE NamesIdentify
    OBVIOUS
  <2>1. \A p \in Named : p[1] \in Stored /\ p[2] = users[p[1]].username
    BY DEF Named, IInv, CopyInv, True
  <2> QED
    BY <2>1 DEF NamesIdentify, IInv, UniqueInv
<1> QED
  BY <1>1, Invariance, PTL

-------------------------------------------------------------------------------
(* Welcomes.                                                                   *)

LEMMA WelcomedStep ==
    ASSUME IInv, WelcomedUnlessUnanswered, [Next]_vars
    PROVE  WelcomedUnlessUnanswered'
<1> USE DEF WelcomedUnlessUnanswered
<1>1. ASSUME UNCHANGED <<users, reg, welcomed, unanswered>> PROVE WelcomedUnlessUnanswered'
  BY <1>1 DEF Stored
<1>2. ASSUME NEW c \in Clients, RegistrationStep(c) PROVE WelcomedUnlessUnanswered'
  <2>1. ASSUME NEW s \in Spellings, NEW e \in Emails, Register(c, s, e)
        PROVE  WelcomedUnlessUnanswered'
    BY <2>1 DEF Register, Stored, IInv, TypeOK
  <2>2. ASSUME NEW i \in Ids, Insert(c, i) PROVE WelcomedUnlessUnanswered'
    <3>1. reg \in [Clients -> Registration \cup {None}] /\ reg[c] \in Registration
      BY <2>2, RegRecord DEF IInv, TypeOK, Insert, Hashed
    <3>2. Stored' \subseteq Stored \cup {i} /\ i \notin Stored /\ welcomed' = welcomed
      BY <2>2 DEF Insert, Stored, IInv, TypeOK
    <3>3. reg[c].id = None /\ None \notin Ids
      BY <2>2, AccountsAssumption DEF Insert, Hashed
    <3>4. CASE reg' = [reg EXCEPT ![c].id = i] /\ UNCHANGED unanswered
      <4>1. [reg[c] EXCEPT !.id = i] \in Registration
        BY <3>1 DEF Registration
      <4>2. reg'[c].id = i /\ \A d \in Clients : d # c => reg'[d] = reg[d]
        BY <3>1, <3>4 DEF Registration
      <4>3. reg'[c] # None
        BY <3>1, <3>4, <4>1, AccountsAssumption
      <4> QED
        BY <3>2, <3>3, <3>4, <4>2, <4>3 DEF Stored
    <3>5. CASE reg' = [reg EXCEPT ![c] = None] /\ unanswered' = unanswered \cup {i}
      BY <3>1, <3>2, <3>3, <3>5 DEF Stored
    <3> QED
      BY <2>2, <3>4, <3>5 DEF Insert
  <2>3. ASSUME InsertFails(c) PROVE WelcomedUnlessUnanswered'
    BY <2>3, AccountsAssumption DEF InsertFails, Hashed, Stored, IInv, TypeOK
  <2>4. ASSUME FinishRegistration(c) PROVE WelcomedUnlessUnanswered'
    BY <2>4 DEF FinishRegistration, Published, Stored, IInv, TypeOK
  <2> QED
    BY <1>2, <2>1, <2>2, <2>3, <2>4 DEF RegistrationStep
<1>3. CASE Crash
  <2> SUFFICES ASSUME NEW i \in Stored PROVE i \in welcomed \cup unanswered'
    BY <1>3 DEF Crash, Stored
  <2>1. CASE \A c \in Clients : reg[c] = None \/ reg[c].id # i
    BY <1>3, <2>1 DEF Crash
  <2>2. CASE \E c \in Clients : reg[c] # None /\ reg[c].id = i
    BY <1>3, <2>2, AccountsAssumption DEF Crash, Stored
  <2> QED
    BY <2>1, <2>2
<1>4. ASSUME NEW c \in Clients, SessionStep(c) \/ ListStep(c)
      PROVE  UNCHANGED <<users, reg, welcomed, unanswered>>
  BY <1>4 DEF SessionStep, Login, Logout, ConnectSocket, ListStep, GetConversations,
              FetchName, FetchFails
<1>5. CASE (\E t \in valid : Expire(t)) \/ (\E t \in sockets : CloseSocket(t))
               \/ (\E i \in Ids : Evict(i))
  BY <1>1, <1>5 DEF Expire, CloseSocket, Evict
<1>6. CASE UNCHANGED vars
  BY <1>1, <1>6 DEF vars
<1> QED
  BY <1>1, <1>2, <1>3, <1>4, <1>5, <1>6 DEF Next

\* An account whose registration is over has its welcome published, unless the
\* answer of its INSERT, its process or its event was lost, for any number of
\* registrations at a time (registration 57-88).
THEOREM WelcomedAlways == Spec => []WelcomedUnlessUnanswered
<1>1. Init => WelcomedUnlessUnanswered
  BY DEF Init, WelcomedUnlessUnanswered, Stored
<1> QED
  BY <1>1, WelcomedStep, Invariance, PTL DEF Spec
=============================================================================
