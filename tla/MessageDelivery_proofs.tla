---------------------- MODULE MessageDelivery_proofs ----------------------
(***************************************************************************)
(* Proofs about MessageDelivery for any messages and receipts.             *)
(***************************************************************************)
EXTENDS MessageDelivery, TLAPS

USE DEF receiver, judged, send, calls, vars

LEMMA TypeInit ==
    ASSUME Init
    PROVE  TypeOK
BY DEF Init, TypeOK, Status

\* The receiver's sockets, and the steps of a send, keep the types.
LEMMA SendTypes ==
    ASSUME TypeOK,
           \/ Join \/ Leave \/ ConnectEnds \/ DisconnectEnds
           \/ Fetch
           \/ \E m \in Messages :
                 \/ HandleSendMessage(m) \/ SendMessage(m)
                 \/ SendStep(m) \/ LookupReplies(m) \/ Resend(m)
    PROVE  TypeOK'
<1>1. CASE Join \/ Leave \/ ConnectEnds \/ DisconnectEnds
  BY <1>1 DEF Join, Leave, ComeOrGo, ConnectEnds, DisconnectEnds, StoreFollows, TypeOK
<1>2. CASE Fetch
  BY <1>2 DEF Fetch, TypeOK
<1>3. ASSUME NEW m \in Messages, HandleSendMessage(m) \/ SendMessage(m)
      PROVE  TypeOK'
  BY <1>3 DEF HandleSendMessage, SendMessage, BeginSend, Goto, TypeOK
<1>4. ASSUME NEW m \in Messages, Save(m)
      PROVE  TypeOK'
  BY <1>4 DEF Save, Goto, TypeOK, Status
<1>5. ASSUME NEW m \in Messages, SaveFails(m)
      PROVE  TypeOK'
  BY <1>5 DEF SaveFails, Goto, TypeOK
<1>6. ASSUME NEW m \in Messages, CheckPresence(m)
      PROVE  TypeOK'
  <2>1. PICK pc \in {"emit", "ok", "lookup"} :
              Goto(m, pc) /\ misjudged' \in {misjudged, misjudged \cup {m}}
    BY <1>6 DEF CheckPresence, AfterNotifying
  <2> QED
    BY <1>6, <2>1 DEF CheckPresence, Goto, TypeOK
<1>7. ASSUME NEW m \in Messages, LookupReplies(m) \/ LookupTimesOut(m)
      PROVE  TypeOK'
  BY <1>7 DEF LookupReplies, LookupTimesOut, Goto, TypeOK
<1>8. ASSUME NEW m \in Messages, Notify(m)
      PROVE  TypeOK'
  <2>1. PICK pc \in {"emit", "ok"} : Goto(m, pc)
    BY <1>8 DEF Notify, AfterNotifying
  <2>2. notified' \subseteq Messages /\ unpublished' \subseteq Messages
    BY <1>8 DEF Notify, TypeOK
  <2> QED
    BY <1>8, <2>1, <2>2 DEF Notify, Goto, TypeOK
<1>9. ASSUME NEW m \in Messages, EmitMessage(m)
      PROVE  TypeOK'
  BY <1>9 DEF EmitMessage, Reach, Goto, TypeOK
<1>10. ASSUME NEW m \in Messages, Resend(m)
       PROVE  TypeOK'
  BY <1>10 DEF Resend, Reach, TypeOK
<1> QED
  BY <1>1, <1>2, <1>3, <1>4, <1>5, <1>6, <1>7, <1>8, <1>9, <1>10 DEF SendStep

\* What happens to status, receipts and reads in those steps: at most one
\* absent message is stored as NotDelivered.
LEMMA SendEffect ==
    ASSUME TypeOK,
           \/ Join \/ Leave \/ ConnectEnds \/ DisconnectEnds
           \/ Fetch
           \/ \E m \in Messages :
                 \/ HandleSendMessage(m) \/ SendMessage(m)
                 \/ SendStep(m) \/ LookupReplies(m) \/ Resend(m)
    PROVE  /\ UNCHANGED <<calls, read, overlapped>>
           /\ \A m \in Messages : status[m] # "absent" => status'[m] = status[m]
<1>1. CASE Join \/ Leave \/ ConnectEnds \/ DisconnectEnds \/ Fetch
  BY <1>1 DEF Join, Leave, ComeOrGo, ConnectEnds, DisconnectEnds, StoreFollows, Fetch
<1>2. ASSUME NEW m \in Messages,
             \/ HandleSendMessage(m) \/ SendMessage(m)
             \/ SaveFails(m) \/ CheckPresence(m) \/ LookupReplies(m) \/ LookupTimesOut(m)
             \/ Notify(m) \/ EmitMessage(m) \/ Resend(m)
      PROVE  UNCHANGED <<status, calls, read, overlapped>>
  BY <1>2 DEF HandleSendMessage, SendMessage, BeginSend, SaveFails, CheckPresence, LookupReplies, LookupTimesOut, Notify,
              EmitMessage, Resend
<1>3. ASSUME NEW m \in Messages, Save(m)
      PROVE  /\ UNCHANGED <<calls, read, overlapped>>
             /\ \A n \in Messages : status[n] # "absent" => status'[n] = status[n]
  <2>1. status[m] = "absent" /\ status' = [status EXCEPT ![m] = "NotDelivered"]
    BY <1>3 DEF Save, TypeOK
  <2> QED
    BY <1>3, <2>1 DEF Save, TypeOK
<1> QED
  BY <1>1, <1>2, <1>3 DEF SendStep

LEMMA SendPreserves ==
    ASSUME IInv,
           \/ Join \/ Leave \/ ConnectEnds \/ DisconnectEnds
           \/ Fetch
           \/ \E m \in Messages :
                 \/ HandleSendMessage(m) \/ SendMessage(m)
                 \/ SendStep(m) \/ LookupReplies(m) \/ Resend(m)
    PROVE  IInv'
<1>1. TypeOK /\ TypeOK'
  BY SendTypes DEF IInv
<1>2. /\ UNCHANGED <<dpc, msg, base, told, read, overlapped>>
      /\ \A m \in Messages : status[m] # "absent" => status'[m] = status[m]
  BY <1>1, SendEffect
<1>3. read \subseteq Messages /\ told \subseteq Messages /\ \A c \in Calls : msg[c] \in Messages
  BY <1>1 DEF TypeOK
<1> QED
  BY <1>1, <1>2, <1>3
     DEF IInv, CallInv, Reported, ReceiptsHonest, ReadUndoneOnlyByOverlap

\* A receipt is looked up: it is saved only if the message is unread.
LEMMA FindPreserves ==
    ASSUME IInv, NEW c \in Calls, NEW m \in Messages, FindDelivered(c, m)
    PROVE  IInv'
<1>1. TypeOK'
  BY DEF IInv, FindDelivered, TypeOK
<1>2. status[m] # "absent" /\ status[m] \in Status
  BY DEF IInv, FindDelivered, TypeOK
<1>3. /\ UNCHANGED <<status, base, told, read, overlapped>>
      /\ \A d \in Calls : d # c => dpc'[d] = dpc[d] /\ msg'[d] = msg[d]
      /\ msg'[c] = m
      /\ dpc'[c] = IF NeedsSave(m) THEN "save" ELSE "emit"
  BY DEF FindDelivered, IInv, TypeOK
<1>4. NeedsSave(m) => m \notin read
  BY DEF NeedsSave, IInv, Reported
<1>5. ~NeedsSave(m) => Reported(m)
  BY <1>2 DEF NeedsSave, Reported, Status
<1>6. CallInv'
  BY <1>2, <1>3, <1>4, <1>5 DEF IInv, CallInv, Reported
<1> QED
  BY <1>1, <1>3, <1>6 DEF IInv, Reported, ReceiptsHonest, ReadUndoneOnlyByOverlap

LEMMA ReselectPreserves ==
    ASSUME IInv, NEW c \in Calls, ReselectDelivered(c)
    PROVE  IInv'
<1>1. TypeOK'
  BY DEF IInv, ReselectDelivered, TypeOK
<1>2. /\ UNCHANGED <<status, msg, told, read, overlapped>>
      /\ \A d \in Calls : d # c => dpc'[d] = dpc[d] /\ base'[d] = base[d]
      /\ dpc[c] = "save" /\ dpc'[c] = "update" /\ base'[c] = status[msg[c]]
  BY DEF ReselectDelivered, IInv, TypeOK
<1>3. CallInv'
  BY <1>2 DEF IInv, CallInv, Reported
<1> QED
  BY <1>1, <1>2, <1>3 DEF IInv, Reported, ReceiptsHonest, ReadUndoneOnlyByOverlap

\* The save may undo a read, but only one that overlapped the call.
LEMMA UpdatePreserves ==
    ASSUME IInv, NEW c \in Calls, UpdateDelivered(c)
    PROVE  IInv'
<1> DEFINE m == msg[c]
<1>1. m \in Messages /\ dpc[c] = "update" /\ status[m] # "absent"
  BY DEF UpdateDelivered, IInv, CallInv, TypeOK
<1>2. /\ UNCHANGED <<spc, via, steady, misjudged, emitted, notified, unpublished, room,
                     listed, known, msg,
                     base, told, read, overlapped>>
      /\ dpc' = [dpc EXCEPT ![c] = "emit"]
      /\ status' = IF base[c] # "Delivered"
                   THEN [status EXCEPT ![m] = "Delivered"] ELSE status
  BY DEF UpdateDelivered
<1>3. status' \in [Messages -> Status] /\ \A n \in Messages : n # m => status'[n] = status[n]
  BY <1>1, <1>2 DEF IInv, TypeOK, Status
<1>4. status'[m] \in {"Delivered", "Seen"}
  BY <1>1, <1>2 DEF IInv, CallInv, Reported, TypeOK
<1>5. m \in read => m \in overlapped
  BY <1>1 DEF IInv, CallInv
<1>6. \A d \in Calls : d # c => dpc'[d] = dpc[d]
  BY <1>2 DEF IInv, TypeOK
<1>7. dpc'[c] = "emit"
  BY <1>2 DEF IInv, TypeOK
<1>8. \A d \in Calls : msg[d] \in Messages
  BY DEF IInv, TypeOK
<1> HIDE DEF m
<1>9. TypeOK'
  <2>1. dpc' \in [Calls -> {"idle", "save", "update", "emit", "done"}]
    BY <1>2 DEF IInv, TypeOK
  <2>2. \A n \in Messages : status'[n] = "absent" <=> status[n] = "absent"
    BY <1>1, <1>3, <1>4
  <2> QED
    BY <1>2, <1>3, <2>1, <2>2 DEF IInv, TypeOK
<1>10. CallInv'
  <2>1. \A n \in Messages : Reported(n) => Reported(n)'
    BY <1>3, <1>4 DEF Reported
  <2>2. Reported(msg[c])'
    BY <1>2, <1>4 DEF Reported, m
  <2>3. \A d \in Calls : status[msg[d]] # "absent" => status'[msg[d]] # "absent"
    BY <1>3, <1>4, <1>8
  <2>4. \A d \in Calls : Reported(msg[d]) => Reported(msg[d])'
    BY <1>2, <1>8, <2>1 DEF Reported
  <2> QED
    BY <1>2, <1>6, <1>7, <2>2, <2>3, <2>4 DEF IInv, CallInv
<1>11. \A n \in read' : Reported(n)'
  BY <1>2, <1>3, <1>4 DEF IInv, Reported, TypeOK
<1>12. ReceiptsHonest'
  BY <1>2, <1>3, <1>4 DEF IInv, ReceiptsHonest, TypeOK
<1>13. ReadUndoneOnlyByOverlap'
  BY <1>2, <1>3, <1>5 DEF IInv, ReadUndoneOnlyByOverlap, TypeOK
<1> QED
  BY <1>9, <1>10, <1>11, <1>12, <1>13 DEF IInv

LEMMA EmitPreserves ==
    ASSUME IInv, NEW c \in Calls, EmitDelivered(c) \/ DeliveredFails(c)
    PROVE  IInv'
<1>1. /\ UNCHANGED <<status, spc, via, steady, misjudged, emitted, notified, unpublished, room,
                     listed,
                     known, msg, base, read, overlapped>>
      /\ dpc' = [dpc EXCEPT ![c] = "done"]
      /\ told' \in {told, told \cup {msg[c]}}
      /\ told' # told => dpc[c] = "emit"
  BY DEF EmitDelivered, DeliveredFails, Emittable
<1>2. \A d \in Calls : d # c => dpc'[d] = dpc[d]
  BY <1>1 DEF IInv, TypeOK
<1>3. dpc'[c] = "done"
  BY <1>1 DEF IInv, TypeOK
<1>4. ReceiptsHonest'
  BY <1>1 DEF IInv, CallInv, ReceiptsHonest, Reported
<1>5. TypeOK'
  <2>1. dpc' \in [Calls -> {"idle", "save", "update", "emit", "done"}]
    BY <1>1 DEF IInv, TypeOK
  <2>2. told' \subseteq Messages
    BY <1>1 DEF IInv, TypeOK
  <2>3. \A n \in told' : status[n] # "absent"
    BY <1>1, <1>4 DEF ReceiptsHonest
  <2> QED
    BY <1>1, <2>1, <2>2, <2>3 DEF IInv, TypeOK
<1>6. CallInv'
  BY <1>1, <1>2, <1>3 DEF IInv, CallInv, Reported
<1> QED
  BY <1>1, <1>4, <1>5, <1>6 DEF IInv, Reported, ReadUndoneOnlyByOverlap

\* Reading: every stored message becomes Seen, and the calls under way for
\* them are noted.
LEMMA ReadPreserves ==
    ASSUME IInv, MarkRead
    PROVE  IInv'
<1> DEFINE saved == {m \in Messages : status[m] # "absent"}
<1>1. /\ UNCHANGED <<spc, via, steady, misjudged, emitted, notified, unpublished, room,
                     listed, known,
                     dpc, msg, base, told>>
      /\ status' = [m \in Messages |-> IF m \in saved THEN "Seen" ELSE status[m]]
      /\ read' = read \cup saved
      /\ overlapped' = overlapped \cup {m \in saved : InFlight(m)}
  BY DEF MarkRead
<1>2. \A m \in Messages : /\ status[m] # "absent" => status'[m] = "Seen"
                          /\ status[m] = "absent" => status'[m] = "absent"
  BY <1>1
<1>3. \A c \in Calls : msg[c] \in Messages
  BY DEF IInv, TypeOK
<1>4. read \subseteq saved /\ told \subseteq saved
  BY DEF IInv, TypeOK
<1>5. TypeOK'
  BY <1>1, <1>2 DEF IInv, TypeOK, Status
<1>6. CallInv'
  <2>1. \A c \in Calls : dpc[c] \in {"save", "update"} => msg[c] \in overlapped'
    <3>1. \A c \in Calls : dpc[c] \in {"save", "update"} => msg[c] \in saved
      BY <1>3 DEF IInv, CallInv
    <3> HIDE DEF saved
    <3> QED
      BY <1>1, <3>1 DEF InFlight
  <2>2. \A c \in Calls : Reported(msg[c]) => Reported(msg[c])'
    BY <1>1, <1>2, <1>3 DEF Reported
  <2>3. \A c \in Calls : status[msg[c]] # "absent" => status'[msg[c]] # "absent"
    BY <1>2, <1>3
  <2> QED
    BY <1>1, <2>1, <2>2, <2>3 DEF IInv, CallInv
<1>7. (\A m \in read : Reported(m))' /\ ReceiptsHonest'
  BY <1>1, <1>2, <1>4 DEF Reported, ReceiptsHonest
<1>8. ReadUndoneOnlyByOverlap'
  BY <1>1, <1>2, <1>4 DEF ReadUndoneOnlyByOverlap
<1> QED
  BY <1>5, <1>6, <1>7, <1>8 DEF IInv

LEMMA IInvInit ==
    ASSUME Init
    PROVE  IInv
<1>1. TypeOK
  BY TypeInit
<1> QED
  BY <1>1 DEF Init, IInv, CallInv, ReceiptsHonest, ReadUndoneOnlyByOverlap

LEMMA IInvStep ==
    ASSUME IInv, [Next]_vars
    PROVE  IInv'
<1>1. CASE UNCHANGED vars
  <2>1. TypeOK'
    BY <1>1 DEF IInv, TypeOK
  <2> QED
    BY <1>1, <2>1 DEF IInv, CallInv, Reported, ReceiptsHonest, ReadUndoneOnlyByOverlap
<1>2. CASE Next
  BY <1>2, SendPreserves, FindPreserves, ReselectPreserves, UpdatePreserves, EmitPreserves,
     ReadPreserves DEF Next
<1> QED
  BY <1>1, <1>2

LEMMA Inductive == Spec => []IInv
BY IInvInit, IInvStep, PTL DEF Spec

\* Whoever is told that a message was delivered is told the truth, for any
\* number of messages and of receipts that overlap one another and the reads.
THEOREM ReceiptsAreHonest == Spec => []ReceiptsHonest
<1>1. IInv => ReceiptsHonest
  BY DEF IInv
<1> QED
  BY <1>1, Inductive, PTL

\* A message that was read falls back from Seen only if a delivery receipt
\* for it was under way when it was read.
THEOREM ReadUndoneOnly == Spec => []ReadUndoneOnlyByOverlap
<1>1. IInv => ReadUndoneOnlyByOverlap
  BY DEF IInv
<1> QED
  BY <1>1, Inductive, PTL
-----------------------------------------------------------------------------
(* Which channel a message takes.                                          *)

\* isOnline said that the receiver of a steady send is away: rightly or not.
TookForAway(m) == room <=> m \in misjudged

\* A send that has not reached notifyReceiver has published nothing, and one whose
\* check is to come was not misjudged; one that looks the receiver up took it for
\* away; one that emits, or has ended, has published just if it took it for away.
Judged(m) ==
    /\ spc[m] \in {"lookup", "notify"} => TookForAway(m)
    /\ spc[m] \in {"emit", "ok"} => (TookForAway(m) <=> m \in notified \cup unpublished)
    /\ spc[m] = "ok" /\ room /\ via[m] = "ws" => m \in emitted

ChannelInv ==
    /\ \A m \in Messages :
          /\ spc[m] \in {"idle", "save", "check", "lookup", "notify"} =>
                m \notin notified \cup unpublished
          /\ spc[m] \in {"idle", "save", "check"} => m \notin misjudged
          /\ spc[m] = "emit" => via[m] = "ws"
    /\ \A m \in steady : Judged(m)

LEMMA CheckSteps ==
    ASSUME TypeOK, ChannelInv, NEW m \in Messages, CheckPresence(m)
    PROVE  ChannelInv'
<1>1. steady \subseteq Messages /\ room \in BOOLEAN /\ listed \in BOOLEAN
  BY DEF TypeOK
<1>2. /\ AfterNotifying(m) \in {"emit", "ok"}
      /\ AfterNotifying(m) = "ok" => via[m] # "ws"
      /\ AfterNotifying(m) = "emit" => via[m] = "ws"
  BY DEF AfterNotifying
<1>3. m \notin notified \cup unpublished /\ m \notin misjudged
  BY DEF CheckPresence, ChannelInv
<1>4. UNCHANGED <<room, via, emitted, notified, unpublished>> /\ steady' = steady \cup {m}
  BY DEF CheckPresence
<1>5. \/ /\ spc' = [spc EXCEPT ![m] = AfterNotifying(m)]
         /\ misjudged' = IF room THEN misjudged ELSE misjudged \cup {m}
      \/ /\ spc' = [spc EXCEPT ![m] = "lookup"]
         /\ misjudged' = IF room THEN misjudged \cup {m} ELSE misjudged
  <2>1. PICK online \in {listed, FALSE} :
          /\ Goto(m, IF online THEN AfterNotifying(m) ELSE "lookup")
          /\ misjudged' = IF online = room THEN misjudged ELSE misjudged \cup {m}
    BY Zenon DEF CheckPresence, SkipsNotification
  <2>2. online = TRUE \/ online = FALSE
    BY <1>1, <2>1
  <2>3. CASE online = TRUE
    <3>1. Goto(m, AfterNotifying(m))
      BY <2>1, <2>3, Zenon
    <3>2. misjudged' = IF room THEN misjudged ELSE misjudged \cup {m}
      BY <1>1, <2>1, <2>3
    <3> QED
      BY <3>1, <3>2 DEF Goto
  <2>4. CASE online = FALSE
    <3>1. Goto(m, "lookup")
      BY <2>1, <2>4, Zenon
    <3>2. misjudged' = IF room THEN misjudged \cup {m} ELSE misjudged
      BY <1>1, <2>1, <2>4
    <3> QED
      BY <3>1, <3>2 DEF Goto
  <2> QED
    BY <2>2, <2>3, <2>4
<1>6. \A n \in Messages : n # m => spc'[n] = spc[n] /\ (n \in misjudged' <=> n \in misjudged)
  BY <1>5 DEF TypeOK
<1>7. \/ spc'[m] = AfterNotifying(m) /\ (m \in misjudged' <=> ~room)
      \/ spc'[m] = "lookup" /\ (m \in misjudged' <=> room)
  BY <1>3, <1>5 DEF TypeOK
<1>8. \A n \in Messages :
         /\ spc'[n] \in {"idle", "save", "check", "lookup", "notify"} =>
               n \notin notified' \cup unpublished'
         /\ spc'[n] \in {"idle", "save", "check"} => n \notin misjudged'
         /\ spc'[n] = "emit" => via'[n] = "ws"
  BY <1>2, <1>3, <1>4, <1>6, <1>7 DEF ChannelInv
<1>9. Judged(m)'
  BY <1>2, <1>3, <1>4, <1>7 DEF Judged, TookForAway
<1>10. ASSUME NEW n \in steady, n # m
       PROVE  Judged(n)'
  <2>1. n \in Messages /\ Judged(n)
    BY <1>1 DEF ChannelInv
  <2> QED
    BY <1>4, <1>6, <1>10, <2>1 DEF Judged, TookForAway
<1> QED
  BY <1>4, <1>8, <1>9, <1>10 DEF ChannelInv

LEMMA ChannelStep ==
    ASSUME TypeOK, ChannelInv, [Next]_vars
    PROVE  ChannelInv'
<1> DEFINE Kept == UNCHANGED <<room, steady, misjudged, spc, via, notified, unpublished>>
                   /\ emitted \subseteq emitted'
<1>1. ASSUME Kept PROVE ChannelInv'
  BY <1>1 DEF ChannelInv, Judged, TookForAway
<1>2. CASE Join \/ Leave
  BY <1>2 DEF Join, Leave, ComeOrGo, ChannelInv
<1>11. CASE ConnectEnds \/ DisconnectEnds
  BY <1>1, <1>11 DEF ConnectEnds, DisconnectEnds, StoreFollows
<1>3. ASSUME NEW m \in Messages, HandleSendMessage(m) \/ SendMessage(m)
      PROVE  ChannelInv'
  <2>1. PICK how \in {"ws", "rest"} :
          /\ spc[m] = "idle" /\ spc' = [spc EXCEPT ![m] = "save"]
          /\ via' = [via EXCEPT ![m] = how]
          /\ UNCHANGED <<room, steady, misjudged, emitted, notified, unpublished>>
    BY <1>3 DEF HandleSendMessage, SendMessage, BeginSend, Goto
  <2> QED
    BY <2>1 DEF ChannelInv, Judged, TookForAway, TypeOK
<1>4. ASSUME NEW m \in Messages, Save(m) \/ SaveFails(m) \/ LookupReplies(m) \/ LookupTimesOut(m)
      PROVE  ChannelInv'
  <2>1. /\ \/ spc[m] = "save" /\ spc' = [spc EXCEPT ![m] = "check"]
           \/ spc[m] = "save" /\ spc' = [spc EXCEPT ![m] = "failed"]
           \/ spc[m] = "lookup" /\ spc' = [spc EXCEPT ![m] = "notify"]
        /\ UNCHANGED <<room, via, steady, misjudged, emitted, notified, unpublished>>
    BY <1>4 DEF Save, SaveFails, LookupReplies, LookupTimesOut, Goto
  <2> QED
    BY <2>1 DEF ChannelInv, Judged, TookForAway, TypeOK
<1>5. ASSUME NEW m \in Messages, CheckPresence(m)
      PROVE  ChannelInv'
  BY <1>5, CheckSteps
<1>6. ASSUME NEW m \in Messages, Notify(m)
      PROVE  ChannelInv'
  <2>1. spc[m] = "notify" /\ spc' = [spc EXCEPT ![m] = AfterNotifying(m)]
    BY <1>6 DEF Notify, Goto
  <2>2. /\ AfterNotifying(m) \in {"emit", "ok"}
        /\ AfterNotifying(m) = "ok" => via[m] # "ws"
        /\ AfterNotifying(m) = "emit" => via[m] = "ws"
    BY DEF AfterNotifying
  <2>3. /\ notified' \cup unpublished' = notified \cup unpublished \cup {m}
        /\ UNCHANGED <<room, via, steady, misjudged, emitted>>
    BY <1>6 DEF Notify
  <2>4. \A n \in Messages : n # m => spc'[n] = spc[n]
    BY <2>1 DEF TypeOK
  <2>5. spc'[m] = AfterNotifying(m)
    BY <2>1 DEF TypeOK
  <2>6. steady \subseteq Messages
    BY DEF TypeOK
  <2>7. m \in steady => TookForAway(m)
    BY <2>1 DEF ChannelInv, Judged
  <2> QED
    BY <2>2, <2>3, <2>4, <2>5, <2>6, <2>7 DEF ChannelInv, Judged, TookForAway
<1>7. ASSUME NEW m \in Messages, EmitMessage(m)
      PROVE  ChannelInv'
  <2>1. /\ spc[m] = "emit" /\ spc' = [spc EXCEPT ![m] = "ok"]
        /\ emitted' = IF room THEN emitted \cup {m} ELSE emitted
        /\ UNCHANGED <<room, via, steady, misjudged, notified, unpublished>>
    BY <1>7 DEF EmitMessage, Goto, Reach
  <2> QED
    BY <2>1 DEF ChannelInv, Judged, TookForAway, TypeOK
<1>8. ASSUME NEW m \in Messages, Resend(m)
      PROVE  ChannelInv'
  BY <1>1, <1>8 DEF Resend, Reach
<1>9. CASE Fetch \/ MarkRead \/ UNCHANGED vars
  BY <1>1, <1>9 DEF Fetch, MarkRead
<1>10. ASSUME NEW c \in Calls,
              \/ \E m \in Messages : FindDelivered(c, m)
              \/ ReselectDelivered(c) \/ UpdateDelivered(c) \/ EmitDelivered(c)
              \/ DeliveredFails(c)
       PROVE  ChannelInv'
  BY <1>1, <1>10 DEF FindDelivered, ReselectDelivered, UpdateDelivered, EmitDelivered,
                     DeliveredFails
<1> QED
  BY <1>2, <1>3, <1>4, <1>5, <1>6, <1>7, <1>8, <1>9, <1>10, <1>11 DEF Next, SendStep

\* As long as the receiver stays, an acknowledged WebSocket message has reached a
\* receiver with a socket whatever the presence store says; a notification went out
\* just if isOnline took the receiver for away - so both go out only if it failed or
\* connect had not ended, and neither only if the store had an absent receiver
\* online (handleSendMessage, handleMessageReceived, isOnline).
THEOREM OneChannelAlways == Spec => []OneChannel
<1>1. Init => ChannelInv
  BY DEF Init, ChannelInv
<1>2. IInv => TypeOK
  BY DEF IInv
<1>3. TypeOK /\ ChannelInv => OneChannel
  BY DEF TypeOK, ChannelInv, Judged, TookForAway, OneChannel
<1> QED
  BY <1>1, <1>2, <1>3, ChannelStep, Inductive, PTL DEF Spec

\* Sends, calls and messages are always of their types (socketHandler.ts,
\* MessageController.ts).
THEOREM TypeCorrect == Spec => []TypeOK
<1>1. IInv => TypeOK
  BY DEF IInv
<1> QED
  BY <1>1, Inductive, PTL
=============================================================================
