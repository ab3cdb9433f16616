----------------------------- MODULE ChatProofs -----------------------------
(***************************************************************************)
(* The safety invariants of ChatProperties, proved of ChatRoom for any     *)
(* page size, any number of requests in flight and any budgets.            *)
(***************************************************************************)
EXTENDS ChatProperties, SequenceTheorems, TLAPS

-----------------------------------------------------------------------------
(* Sequences and helpers                                                   *)

LEMMA FunctionIsSeq ==
    ASSUME NEW S, NEW n \in Nat, NEW f \in [1..n -> S]
    PROVE  f \in Seq(S) /\ Len(f) = n
OBVIOUS

LEMMA RemoveAtProperties ==
    ASSUME NEW S, NEW s \in Seq(S), NEW i \in DOMAIN s
    PROVE  /\ RemoveAt(s, i) \in Seq(S)
           /\ Len(RemoveAt(s, i)) = Len(s) - 1
           /\ \A j \in 1..(Len(s) - 1) : RemoveAt(s, i)[j] = IF j < i THEN s[j] ELSE s[j + 1]
<1>. DEFINE front == SubSeq(s, 1, i - 1)
            back == SubSeq(s, i + 1, Len(s))
<1>1. i \in 1..Len(s) /\ Len(s) \in Nat
  OBVIOUS
<1>2. /\ front \in Seq(S) /\ Len(front) = i - 1
      /\ \A j \in 1..(i - 1) : front[j] = s[j]
  BY <1>1, SubSeqProperties
<1>3. /\ back \in Seq(S) /\ Len(back) = Len(s) - i
      /\ \A j \in 1..(Len(s) - i) : back[j] = s[i + j]
  BY <1>1, SubSeqProperties
<1>. HIDE DEF front, back
<1>4. /\ front \o back \in Seq(S) /\ Len(front \o back) = Len(front) + Len(back)
      /\ \A j \in 1..(Len(front) + Len(back)) :
            (front \o back)[j] = IF j <= Len(front) THEN front[j] ELSE back[j - Len(front)]
  BY <1>2, <1>3, ConcatProperties
<1>5. RemoveAt(s, i) = front \o back
  BY DEF RemoveAt, front, back
<1>6. ASSUME NEW j \in 1..(Len(s) - 1)
      PROVE  (front \o back)[j] = IF j < i THEN s[j] ELSE s[j + 1]
  <2>1. j \in 1..(Len(front) + Len(back)) /\ j \in Int
    BY <1>1, <1>2, <1>3
  <2>2. CASE j < i
    <3>1. j <= Len(front) /\ j \in 1..(i - 1)
      BY <1>1, <1>2, <2>1, <2>2
    <3>. QED  BY <1>2, <1>4, <2>1, <2>2, <3>1
  <2>3. CASE ~(j < i)
    <3>. DEFINE k == j - Len(front)
    <3>0. i \in Int /\ j \in Int /\ Len(s) \in Int /\ j <= Len(s) - 1 /\ k = j - (i - 1)
      BY <1>1, <1>2, <2>1
    <3>1. ~(j <= Len(front)) /\ k \in 1..(Len(s) - i) /\ i + k = j + 1
      BY <1>2, <2>3, <3>0
    <3>2. (front \o back)[j] = back[k]
      BY <1>4, <2>1, <3>1
    <3>. HIDE DEF k
    <3>. QED  BY <1>3, <2>3, <3>1, <3>2
  <2>. QED  BY <2>2, <2>3
<1>7. front \o back \in Seq(S) /\ Len(front \o back) = Len(s) - 1
  BY <1>1, <1>2, <1>3, <1>4
<1>. QED  BY <1>5, <1>6, <1>7, Zenon

\* Each element that is left was there before, and two of them were two.
LEMMA RemoveAtKeeps ==
    ASSUME NEW S, NEW s \in Seq(S), NEW i \in DOMAIN s
    PROVE  \E place \in [DOMAIN RemoveAt(s, i) -> DOMAIN s] :
              /\ \A j \in DOMAIN RemoveAt(s, i) : RemoveAt(s, i)[j] = s[place[j]] /\ place[j] # i
              /\ \A j, k \in DOMAIN RemoveAt(s, i) : place[j] = place[k] => j = k
<1>1. i \in 1..Len(s) /\ Len(s) \in Nat /\ DOMAIN s = 1..Len(s)
  OBVIOUS
<1>2. /\ RemoveAt(s, i) \in Seq(S) /\ Len(RemoveAt(s, i)) = Len(s) - 1
      /\ \A j \in 1..(Len(s) - 1) : RemoveAt(s, i)[j] = IF j < i THEN s[j] ELSE s[j + 1]
  BY RemoveAtProperties
<1>3. DOMAIN RemoveAt(s, i) = 1..(Len(s) - 1)
  BY <1>2
<1>. DEFINE place == [j \in 1..(Len(s) - 1) |-> IF j < i THEN j ELSE j + 1]
<1>4. place \in [1..(Len(s) - 1) -> 1..Len(s)]
  BY <1>1
<1>5. \A j \in 1..(Len(s) - 1) : RemoveAt(s, i)[j] = s[place[j]] /\ place[j] # i
  BY <1>1, <1>2
<1>6. \A j, k \in 1..(Len(s) - 1) : place[j] = place[k] => j = k
  BY <1>1
<1>. QED  BY <1>1, <1>3, <1>4, <1>5, <1>6

LEMMA SpendTypeOK ==
    ASSUME budget \in BudgetType,
           NEW what \in {"theirs", "aside", "mine", "reads", "typing", "visits", "drops",
                         "expiries", "failures", "posts"},
           Spend(what)
    PROVE  budget' \in BudgetType
BY DEF Spend, BudgetType

LEMMA FrameTypeOK ==
    ASSUME NEW c \in Connections, NEW m \in Nat, NEW type \in {"message.new", "typing", "read"}
    PROVE  /\ Frame(type, c, m) \in FrameType
           /\ Frame(type, c, m).type = type /\ Frame(type, c, m).from = c /\ Frame(type, c, m).id = m
BY DEF Frame, FrameType

LEMMA WsHelpers ==
    ASSUME NEW state \in {"none", "connecting", "accepted", "live", "dead"}, NEW n \in Nat,
           NEW token \in {"fresh", "stale"}
    PROVE  Ws(state, n, token) \in WsType /\ Ws(state, n, token).pipe = <<>>
<1>1. <<>> \in Seq(FrameType)
  OBVIOUS
<1>. QED  BY <1>1 DEF Ws, WsType

\* A broadcast reaches the socket behind everything that is on its way, or not at all.
LEMMA BroadcastTypeOK ==
    ASSUME ws \in WsType, NEW frame \in FrameType, Broadcast(frame)
    PROVE  /\ ws' \in WsType
           /\ ws'.pipe = ws.pipe \/ ws'.pipe = Append(ws.pipe, frame)
<1>1. Append(ws.pipe, frame) \in Seq(FrameType)
  BY AppendProperties DEF WsType
<1>2. CASE ws' = ws
  BY <1>2
<1>3. CASE ws' = [ws EXCEPT !.pipe = Append(ws.pipe, frame)]
  BY <1>1, <1>3 DEF WsType
<1>. QED  BY <1>2, <1>3 DEF Broadcast

LEMMA UnmountedTypeOK ==
    ASSUME NEW v \in Nat
    PROVE  /\ Unmounted(v) \in HookType /\ Unmounted(v).visit = v /\ ~Unmounted(v).mounted
           /\ Unmounted(v).messages = <<>> /\ ~Unmounted(v).overlapped
           /\ Unmounted(v).nextBefore = 0 /\ ~Unmounted(v).hasMore /\ Unmounted(v).upTo = 0
<1>1. <<>> \in Seq(MessageType)
  OBVIOUS
<1>. QED  BY <1>1 DEF Unmounted, HookType

\* What a page holds: consecutive stored messages, from the beginning of the thread or from
\* the cursor of the next older page.
First(page) == IF page.has_more THEN page.next_before ELSE 1

IsPage(page, before, stored) ==
    /\ IF page.has_more THEN /\ page.next_before > 0 /\ page.next_before + PageSize <= stored + 1
                             /\ page.ids # <<>>
                        ELSE page.next_before = 0
    /\ before # 0 => First(page) <= before
    /\ \A i \in DOMAIN page.ids :
          /\ page.ids[i] = First(page) + i - 1
          /\ page.ids[i] \in 1..stored
          /\ before # 0 => page.ids[i] < before

\* A first page starts with the newest PageSize messages, or before them.
LEMMA PageBeforeIsPage ==
    ASSUME origin \in Seq(Connections), readAt \subseteq Stored, NEW before \in 0..Len(origin)
    PROVE  /\ PageBefore(before) \in PageType /\ IsPage(PageBefore(before), before, Len(origin))
           /\ before = 0 => \A cursor \in Nat \ {0} :
                 cursor + PageSize <= Len(origin) + 1 => cursor <= First(PageBefore(before))
<1>. DEFINE top   == IF before = 0 THEN Len(origin) ELSE before - 1
            more  == top > PageSize
            first == IF more THEN top - PageSize + 1 ELSE 1
            ids   == [i \in 1..(top - first + 1) |-> first + i - 1]
<1>1. Len(origin) \in Nat /\ PageSize \in Nat \ {0}
  BY ChatAssumption
<1>2. top \in 0..Len(origin) /\ (before # 0 => top = before - 1)
  BY <1>1
<1>. HIDE DEF top
<1>3. /\ first \in Nat \ {0} /\ first <= top + 1
      /\ more => first + PageSize <= Len(origin) + 1
      /\ ~more => first = 1
  BY <1>1, <1>2
<1>4. /\ more => first + PageSize = top + 1 /\ top - first + 1 = PageSize
      /\ ~more => top <= PageSize
      /\ before = 0 => top = Len(origin)
  BY <1>1, <1>2 DEF top
<1>5. PageBefore(before) = [ids |-> ids, read |-> readAt \cap (first..top), has_more |-> more,
                            next_before |-> IF more THEN first ELSE 0]
  BY DEF PageBefore, top
<1>6. more \in BOOLEAN
  BY <1>1, <1>2
<1>. HIDE DEF first, more
<1>7. top - first + 1 \in Nat
  BY <1>1, <1>2, <1>3
<1>8. /\ DOMAIN ids = 1..(top - first + 1)
      /\ \A i \in 1..(top - first + 1) : ids[i] = first + i - 1 /\ ids[i] \in 1..top
  BY <1>1, <1>2, <1>3
<1>9. ids \in Seq(Nat)
  <2>1. \A i \in 1..(top - first + 1) : first + i - 1 \in Nat
    BY <1>2, <1>3
  <2>2. ids \in [1..(top - first + 1) -> Nat]
    BY <2>1
  <2>. QED  BY <1>7, <2>2, SeqDef
<1>. HIDE DEF ids
<1>10. readAt \cap (first..top) \subseteq Nat
  BY <1>1, <1>2, <1>3
<1>11. PageBefore(before) \in PageType
  BY <1>3, <1>5, <1>6, <1>9, <1>10 DEF PageType
<1>12. PageBefore(before).ids = ids /\ First(PageBefore(before)) = first
  BY <1>3, <1>5 DEF First
<1>13. /\ PageBefore(before).has_more = more
       /\ PageBefore(before).next_before = IF more THEN first ELSE 0
  BY <1>5
<1>14. /\ more => /\ PageBefore(before).next_before > 0
                  /\ PageBefore(before).next_before + PageSize <= Len(origin) + 1
       /\ ~more => PageBefore(before).next_before = 0
  BY <1>1, <1>3, <1>13
<1>15. more => ids # <<>>
  <2>1. ASSUME more PROVE 1 \in 1..(top - first + 1)
    <3>1. top - first + 1 = PageSize
      BY <1>4, <2>1
    <3>2. 1 \in 1..PageSize
      BY <1>1
    <3>. QED  BY <3>1, <3>2
  <2>2. ids = <<>> => DOMAIN ids = {}
    OBVIOUS
  <2>. QED  BY <1>8, <2>1, <2>2
<1>16. ASSUME before = 0, NEW cursor \in Nat \ {0}, cursor + PageSize <= Len(origin) + 1
       PROVE  cursor <= first
  <2>1. cursor \in Int /\ PageSize \in Int /\ top \in Int /\ first \in Int
    BY <1>1, <1>2, <1>3
  <2>2. cursor + PageSize <= top + 1
    BY <1>4, <1>16
  <2>3. CASE more
    <3>1. first + PageSize = top + 1
      BY <1>4, <2>3
    <3>. QED  BY <2>1, <2>2, <3>1
  <2>4. CASE ~more
    <3>1. first = 1 /\ top <= PageSize
      BY <1>3, <1>4, <2>4
    <3>. QED  BY <2>1, <2>2, <3>1
  <2>. QED  BY <2>3, <2>4
<1>17. before # 0 => first <= before
  BY <1>1, <1>2, <1>3
<1>18. ASSUME NEW i \in DOMAIN ids
       PROVE  /\ ids[i] = first + i - 1
              /\ ids[i] \in 1..Len(origin)
              /\ before # 0 => ids[i] < before
  BY <1>1, <1>2, <1>8, <1>18
<1>19. IsPage(PageBefore(before), before, Len(origin))
  BY <1>12, <1>13, <1>14, <1>17, <1>18, <1>15 DEF IsPage
<1>. QED  BY <1>11, <1>12, <1>16, <1>19

-----------------------------------------------------------------------------
(* Type correctness                                                        *)

\* What a step does to the rows and to the frames of the consumers.
Stores(c) ==
    /\ ~Busy(c) /\ origin' = Append(origin, c) /\ readAt' = readAt
    /\ pending' = pending \cup {Frame("message.new", c, Len(origin) + 1)}

Reports(c) ==
    /\ ~Busy(c) /\ origin' = origin
    /\ pending' = pending \cup {Frame("read", c, 0)}

NothingNew == origin' = origin /\ pending' \subseteq pending

Stamped == readAt' = readAt \/ \E u \in Users : StampRead(u)

LEMMA ReceivedVia ==
    ASSUME up \in Seq(UpType), NEW i \in DOMAIN up
    PROVE  up[i].via \in Connections /\ up[i].type \in {"message.send", "read"}
<1>1. up[i] \in UpType
  OBVIOUS
<1>. QED  BY <1>1 DEF UpType

LEMMA ServerDoes ==
    ASSUME up \in Seq(UpType), [Next]_vars
    PROVE  \/ \E c \in Connections : Stores(c)
           \/ \E c \in Connections : Reports(c) /\ Stamped
           \/ NothingNew /\ Stamped
<1>1. Peers \subseteq Connections /\ \A c \in Connections : c.user \in Users
  BY ChatAssumption DEF Connections
<1>2. CASE UNCHANGED server
  BY <1>2 DEF server, NothingNew, Stamped
<1>3. CASE \E c \in Peers : PeerSend(c)
  BY <1>1, <1>3 DEF PeerSend, Persist, Stores
<1>4. CASE \E c \in Peers : PeerRead(c)
  BY <1>1, <1>4 DEF PeerRead, Reports, Stamped
<1>5. CASE Receive
  <2>1. PICK i \in DOMAIN up :
            /\ ~Busy(up[i].via)
            /\ \/ up[i].type = "message.send" /\ Persist(up[i].via) /\ UNCHANGED readAt
               \/ up[i].type = "message.send" /\ UNCHANGED server
               \/ up[i].type = "read" /\ StampRead("me") /\ UNCHANGED <<origin, pending>>
    BY <1>5 DEF Receive
  <2>2. up[i].via \in Connections /\ "me" \in Users
    BY ReceivedVia DEF Users
  <2>. QED  BY <1>2, <2>1, <2>2 DEF Persist, Stores, NothingNew, Stamped
<1>6. CASE AnswerPost
  <2>1. "me" \in Users
    BY DEF Users
  <2>. QED  BY <1>6, <2>1 DEF AnswerPost, NothingNew, Stamped
<1>7. CASE FinishHandler
  BY <1>7 DEF FinishHandler, NothingNew, Stamped
<1>. QED
  BY <1>2, <1>3, <1>4, <1>5, <1>6, <1>7
     DEF Next, ServerStep, BrowserStep, Environment, vars, server, Handshake, AnswerHistory, OnOpen,
         OnClose, Reconnect, HistoryArrives, HandleFrame, TypingTimeout, PeerType, Drop, TokenExpires,
         FailPost, HistoryFails, OpenThread, LeaveThread, LoadOlder, Submit

\* Messages are only ever added behind those that are stored.
LEMMA ServerGrows ==
    ASSUME ChatTypeOK, [Next]_vars
    PROVE  /\ origin' \in Seq(Connections) /\ Len(origin) <= Len(origin')
           /\ \A m \in Stored : m \in Stored' /\ origin'[m] = origin[m]
           /\ readAt' \subseteq Stored' /\ pending' \subseteq FrameType
<1>. DEFINE Goal == /\ origin' \in Seq(Connections) /\ Len(origin) <= Len(origin')
                    /\ \A m \in Stored : m \in Stored' /\ origin'[m] = origin[m]
                    /\ readAt' \subseteq Stored' /\ pending' \subseteq FrameType
<1>1. /\ origin \in Seq(Connections) /\ readAt \subseteq Stored /\ pending \subseteq FrameType
      /\ Len(origin) \in Nat /\ up \in Seq(UpType)
  BY DEF ChatTypeOK
<1>2. ASSUME NEW c \in Connections, Stores(c) PROVE Goal
  <2>1. Frame("message.new", c, Len(origin) + 1) \in FrameType
    BY <1>1, FrameTypeOK
  <2>2. /\ origin' \in Seq(Connections) /\ Len(origin') = Len(origin) + 1
        /\ \A m \in 1..Len(origin) : origin'[m] = origin[m]
    BY <1>1, <1>2, AppendProperties DEF Stores
  <2>3. pending' \subseteq FrameType
    BY <1>1, <1>2, <2>1 DEF Stores
  <2>. QED  BY <1>1, <1>2, <2>2, <2>3 DEF Stores, Stored
<1>3. ASSUME origin' = origin, Stamped PROVE readAt' \subseteq Stored /\ Stored' = Stored
  BY <1>1, <1>3 DEF Stamped, StampRead, Stored
<1>4. ASSUME NEW c \in Connections, Reports(c), Stamped PROVE Goal
  <2>1. Frame("read", c, 0) \in FrameType
    BY FrameTypeOK
  <2>2. pending' \subseteq FrameType /\ origin' = origin
    BY <1>1, <1>4, <2>1 DEF Reports
  <2>. QED  BY <1>1, <1>3, <1>4, <2>2
<1>5. ASSUME NothingNew, Stamped PROVE Goal
  BY <1>1, <1>3, <1>5 DEF NothingNew
<1>. QED  BY <1>1, <1>2, <1>4, <1>5, ServerDoes

\* What this tab sent is received or lost, and its consumers get more of it.
LEMMA UpTypeOK ==
    ASSUME ChatTypeOK, [Next]_vars
    PROVE  up' \in Seq(UpType)
<1>1. up \in Seq(UpType) /\ ws.nr \in Nat /\ Len(up) \in Nat
  BY DEF ChatTypeOK, WsType
<1>2. ASSUME NEW type \in {"message.send", "read"}, Send(type) PROVE up' \in Seq(UpType)
  <2>1. [via |-> Line, type |-> type] \in UpType
    BY <1>1 DEF Line, UpType, Connections, Users
  <2>. QED  BY <1>1, <1>2, <2>1, AppendProperties DEF Send
<1>3. ASSUME LoseUp PROVE up' \in Seq(UpType)
  <2>1. PICK n \in 0..Len(up) : up' = SubSeq(up, 1, n)
    BY <1>3 DEF LoseUp
  <2>. QED  BY <1>1, <2>1, SubSeqProperties
<1>4. CASE Receive
  <2>1. PICK i \in DOMAIN up : up' = RemoveAt(up, i)
    BY <1>4 DEF Receive
  <2>. QED  BY <1>1, <2>1, RemoveAtProperties
<1>5. CASE Drop \/ LeaveThread
  BY <1>3, <1>5 DEF Drop, LeaveThread
<1>6. CASE HistoryArrives \/ HandleFrame
  BY <1>1, <1>2, <1>6 DEF HistoryArrives, HandleFrame, MarkReadIfNeeded
<1>7. CASE Submit
  BY <1>2, <1>7 DEF Submit
<1>. QED
  BY <1>1, <1>4, <1>5, <1>6, <1>7
     DEF Next, ServerStep, BrowserStep, Environment, vars, FinishHandler, Handshake, AnswerHistory,
         AnswerPost, OnOpen, OnClose, Reconnect, TypingTimeout, PeerSend, PeerRead, PeerType,
         TokenExpires, FailPost, HistoryFails, OpenThread, LoadOlder

\* What a step leaves in the pipe of the socket: all of it, one frame more, one frame less,
\* or nothing after a connection is lost, closed or opened.
Passed(f) == f \in pending /\ pending' = pending \ {f} /\ ws'.pipe = Append(ws.pipe, f)

LEMMA SocketStep ==
    ASSUME ChatTypeOK, [Next]_vars
    PROVE  /\ ws' \in WsType
           /\ \/ ws'.pipe = ws.pipe \/ ws'.pipe = <<>>
              \/ HandleFrame /\ ws'.pipe = Tail(ws.pipe) /\ ws.pipe # <<>>
              \/ \E f \in pending : Passed(f)
              \/ \E f \in FrameType : f.type = "typing" /\ ws'.pipe = Append(ws.pipe, f)
<1>. DEFINE Goal == /\ ws' \in WsType
                    /\ \/ ws'.pipe = ws.pipe \/ ws'.pipe = <<>>
                       \/ HandleFrame /\ ws'.pipe = Tail(ws.pipe) /\ ws.pipe # <<>>
                       \/ \E f \in pending : Passed(f)
                       \/ \E f \in FrameType : f.type = "typing" /\ ws'.pipe = Append(ws.pipe, f)
<1>1. /\ ws \in WsType /\ pending \subseteq FrameType /\ held \in {"fresh", "stale"}
      /\ Peers \subseteq Connections
  BY ChatAssumption DEF ChatTypeOK
<1>2. CASE UNCHANGED ws
  BY <1>1, <1>2
<1>3. CASE FinishHandler
  BY <1>1, <1>3, BroadcastTypeOK DEF FinishHandler, Passed
<1>4. CASE \E c \in Peers : PeerType(c)
  <2>1. PICK c \in Peers, id \in {0, 1} : Broadcast(Frame("typing", c, id))
    BY <1>4 DEF PeerType
  <2>2. Frame("typing", c, id) \in FrameType /\ Frame("typing", c, id).type = "typing"
    BY <1>1, FrameTypeOK
  <2>. QED  BY <1>1, <2>1, <2>2, BroadcastTypeOK
<1>5. CASE Handshake \/ OnOpen
  BY <1>1, <1>5 DEF Handshake, OnOpen, WsType
<1>6. CASE Drop \/ OpenThread \/ LeaveThread \/ Reconnect
  <2>1. ws.offered \in {"fresh", "stale"} /\ ws.nr \in Nat /\ ws.nr + 1 \in Nat
    BY <1>1 DEF WsType
  <2>. QED  BY <1>1, <1>6, <2>1, WsHelpers DEF Drop, OpenThread, LeaveThread, Reconnect, Connect
<1>7. CASE HandleFrame
  <2>1. /\ Tail(ws.pipe) \in Seq(FrameType) /\ ws.pipe # <<>>
        /\ ws' = [ws EXCEPT !.pipe = Tail(ws.pipe)]
    BY <1>1, <1>7, HeadTailProperties DEF HandleFrame, WsType
  <2>2. ws' \in WsType /\ ws'.pipe = Tail(ws.pipe)
    BY <1>1, <2>1 DEF WsType
  <2>. QED  BY <1>7, <2>1, <2>2
<1>. QED
  BY <1>2, <1>3, <1>4, <1>5, <1>6, <1>7
     DEF Next, ServerStep, BrowserStep, Environment, vars, AnswerHistory, AnswerPost, OnClose, Receive,
         TypingTimeout, PeerSend, PeerRead, TokenExpires, FailPost, HistoryFails, LoadOlder,
         HistoryArrives, Submit

\* The history requests: the mount that asked, and the page they carry.
FetchFits(f, visit, stored) ==
    /\ f.visit <= visit
    /\ f.before # 0 => f.before + PageSize <= stored + 1
    /\ f.answered => IsPage(f.page, f.before, stored)

PagesFit == \A i \in DOMAIN fetches : FetchFits(fetches[i], hook.visit, Len(origin))

CursorFits ==
    /\ hook.hasMore => hook.nextBefore # 0
    /\ hook.nextBefore # 0 => hook.nextBefore + PageSize <= Len(origin) + 1

LEMMA FetchStillFits ==
    ASSUME NEW f \in FetchType, NEW v \in Nat, NEW w \in Nat, v <= w,
           NEW m \in Nat, NEW n \in Nat, m <= n, FetchFits(f, v, m)
    PROVE  FetchFits(f, w, n)
<1>1. f.visit \in Nat /\ f.before \in Nat /\ f.page \in PageType /\ PageSize \in Nat
  BY ChatAssumption DEF FetchType
<1>2. f.visit <= w /\ (f.before # 0 => f.before + PageSize <= n + 1)
  BY <1>1 DEF FetchFits
<1>3. ASSUME f.answered PROVE IsPage(f.page, f.before, n)
  <2>1. IsPage(f.page, f.before, m)
    BY <1>3 DEF FetchFits
  <2>2. f.page.next_before \in Nat
    BY <1>1 DEF PageType
  <2>. QED  BY <1>1, <2>1, <2>2 DEF IsPage
<1>. QED  BY <1>2, <1>3 DEF FetchFits

LEMMA PagesFitNext ==
    ASSUME \A i \in DOMAIN fetches' : FetchFits(fetches'[i], hook'.visit, Len(origin'))
    PROVE  PagesFit'
BY DEF PagesFit, FetchFits, IsPage, First

Request(visit, before) == [visit |-> visit, before |-> before, answered |-> FALSE, page |-> NoPage]

LEMMA RequestTypeOK ==
    ASSUME NEW visit \in Nat, NEW before \in Nat
    PROVE  /\ Request(visit, before) \in FetchType
           /\ Request(visit, before).visit = visit /\ Request(visit, before).before = before
           /\ ~Request(visit, before).answered
<1>1. <<>> \in Seq(Nat)
  OBVIOUS
<1>2. NoPage \in PageType
  BY <1>1 DEF NoPage, PageType
<1>. QED  BY <1>2 DEF Request, FetchType

\* A page as the list shows it.
LEMMA AsMessagesTypeOK ==
    ASSUME NEW page \in PageType, NEW old \in BOOLEAN
    PROVE  /\ AsMessages(page, old) \in Seq(MessageType)
           /\ Len(AsMessages(page, old)) = Len(page.ids)
           /\ \A i \in 1..Len(page.ids) : AsMessages(page, old)[i].id = page.ids[i]
<1>1. page.ids \in Seq(Nat) /\ Len(page.ids) \in Nat /\ DOMAIN page.ids = 1..Len(page.ids)
      /\ \A i \in 1..Len(page.ids) : page.ids[i] \in Nat
  BY LenProperties, ElementOfSeq DEF PageType
<1>2. AsMessages(page, old) \in [1..Len(page.ids) -> MessageType]
  BY <1>1 DEF AsMessages, MessageType
<1>3. AsMessages(page, old) \in Seq(MessageType) /\ Len(AsMessages(page, old)) = Len(page.ids)
  BY <1>1, <1>2, FunctionIsSeq
<1>. QED  BY <1>1, <1>3 DEF AsMessages

-----------------------------------------------------------------------------
(* What a step does to the list and to the requests                        *)

IsNew(frame) == frame.type = "message.new"

\* Nothing but receipts, flags and requests, ...
SameCursor ==
    /\ hook'.hasMore = hook.hasMore /\ hook'.nextBefore = hook.nextBefore
    /\ hook'.visit = hook.visit /\ hook'.mounted = hook.mounted /\ hook'.upTo = hook.upTo
    /\ hook.overlapped => hook'.overlapped
    /\ hook.straggled => hook'.straggled

SameList ==
    /\ Len(hook'.messages) = Len(hook.messages)
    /\ \A i \in 1..Len(hook.messages) : hook'.messages[i].id = hook.messages[i].id
    /\ SameCursor

\* ... an empty list of another mount, ...
Emptied ==
    /\ hook'.messages = <<>> /\ hook'.nextBefore = 0 /\ ~hook'.hasMore /\ hook'.upTo = 0
    /\ (LeaveThread /\ hook'.visit = hook.visit /\ ~hook'.mounted)
         \/ (OpenThread /\ hook'.visit = hook.visit + 1)

Newest(page) == IF page.ids = <<>> THEN 0 ELSE Last(page.ids)

\* ... a page, ...
PageListed(f) ==
    /\ hook.mounted /\ f.visit = hook.visit /\ f.answered
    /\ hook'.messages = IF f.before = 0 THEN AsMessages(f.page, FALSE)
                                        ELSE AsMessages(f.page, TRUE) \o hook.messages
    /\ hook'.hasMore = f.page.has_more /\ hook'.nextBefore = f.page.next_before
    /\ hook'.upTo = IF f.before = 0 THEN Newest(f.page) ELSE hook.upTo
    /\ hook'.visit = hook.visit /\ hook'.mounted = hook.mounted
    /\ hook'.overlapped = hook.overlapped
    /\ f.before # 0 => hook'.straggled = hook.straggled
    /\ UNCHANGED server

\* ... or an echo.
Echo(m) == [id |-> m, read |-> FALSE, older |-> FALSE]

EchoListed ==
    /\ HandleFrame /\ IsNew(Head(ws.pipe)) /\ Head(ws.pipe).id \notin Shown
    /\ hook'.messages = Append(hook.messages, Echo(Head(ws.pipe).id))
    /\ Head(ws.pipe).id <= hook.upTo => hook'.straggled
    /\ SameCursor

LEMMA HookAsks ==
    ASSUME NEW h \in HookType, NEW before \in Nat, Ask(h, before)
    PROVE  /\ hook' \in HookType
           /\ hook'.messages = h.messages /\ hook'.hasMore = h.hasMore
           /\ hook'.nextBefore = h.nextBefore /\ hook'.visit = h.visit /\ hook'.mounted = h.mounted
           /\ hook'.upTo = h.upTo /\ (h.straggled => hook'.straggled)
           /\ h.overlapped => hook'.overlapped
<1>. DEFINE history    == h.loadingHistory \/ before = 0
            older      == h.loadingOlder \/ before # 0
            overlapped == h.overlapped \/ (before = 0 /\ FirstPageAsked(h.visit))
<1>1. hook' = [h EXCEPT !.loadingHistory = history, !.loadingOlder = older,
                        !.overlapped = overlapped]
  BY DEF Ask
<1>2. /\ history \in BOOLEAN /\ older \in BOOLEAN /\ overlapped \in BOOLEAN
      /\ h.overlapped => overlapped
  BY DEF HookType
<1>. HIDE DEF history, older, overlapped
<1>3. hook' \in HookType
  BY <1>1, <1>2 DEF HookType
<1>4. /\ hook'.messages = h.messages /\ hook'.hasMore = h.hasMore
      /\ hook'.nextBefore = h.nextBefore /\ hook'.visit = h.visit /\ hook'.mounted = h.mounted
      /\ hook'.upTo = h.upTo /\ hook'.straggled = h.straggled
      /\ hook'.overlapped = overlapped
  BY <1>1 DEF HookType
<1>. QED  BY <1>2, <1>3, <1>4

LEMMA EchoTypeOK ==
    ASSUME NEW m \in Nat
    PROVE  Echo(m) \in MessageType /\ Echo(m).id = m
BY DEF Echo, MessageType

LEMMA WithEchoTypeOK ==
    ASSUME hook \in HookType, NEW m \in Nat, m \notin Shown
    PROVE  /\ WithEcho(m) \in HookType
           /\ WithEcho(m).messages = Append(hook.messages, Echo(m))
           /\ WithEcho(m).hasMore = hook.hasMore /\ WithEcho(m).nextBefore = hook.nextBefore
           /\ WithEcho(m).visit = hook.visit /\ WithEcho(m).mounted = hook.mounted
           /\ WithEcho(m).upTo = hook.upTo /\ WithEcho(m).overlapped = hook.overlapped
           /\ WithEcho(m).straggled = (hook.straggled \/ m <= hook.upTo)
<1>. DEFINE list == Append(hook.messages, Echo(m))
            late == hook.straggled \/ m <= hook.upTo
<1>1. hook.messages \in Seq(MessageType) /\ hook.straggled \in BOOLEAN /\ hook.upTo \in Nat
  BY DEF HookType
<1>2. list \in Seq(MessageType)
  BY <1>1, EchoTypeOK, AppendProperties
<1>3. late \in BOOLEAN
  BY <1>1
<1>4. WithEcho(m) = [hook EXCEPT !.messages = list, !.straggled = late]
  BY DEF WithEcho, Echo
<1>. HIDE DEF list, late
<1>5. /\ WithEcho(m) \in HookType /\ WithEcho(m).messages = list /\ WithEcho(m).straggled = late
      /\ WithEcho(m).hasMore = hook.hasMore /\ WithEcho(m).nextBefore = hook.nextBefore
      /\ WithEcho(m).visit = hook.visit /\ WithEcho(m).mounted = hook.mounted
      /\ WithEcho(m).upTo = hook.upTo /\ WithEcho(m).overlapped = hook.overlapped
  BY <1>2, <1>3, <1>4 DEF HookType
<1>. QED  BY <1>5 DEF list, late

\* The list with a page, whether it replaces the list or is put in front of it.
LEMMA WithPageTypeOK ==
    ASSUME hook \in HookType, NEW f \in FetchType
    PROVE  /\ WithPage(f) \in HookType
           /\ WithPage(f).messages = IF f.before = 0 THEN AsMessages(f.page, FALSE)
                                                     ELSE AsMessages(f.page, TRUE) \o hook.messages
           /\ WithPage(f).hasMore = f.page.has_more /\ WithPage(f).nextBefore = f.page.next_before
           /\ WithPage(f).upTo = IF f.before = 0 THEN Newest(f.page) ELSE hook.upTo
           /\ WithPage(f).visit = hook.visit /\ WithPage(f).mounted = hook.mounted
           /\ WithPage(f).overlapped = hook.overlapped
           /\ f.before # 0 => WithPage(f).straggled = hook.straggled
           /\ WithPage(f).loadingHistory = hook.loadingHistory
           /\ WithPage(f).loadingOlder = hook.loadingOlder
<1>. DEFINE page == f.page
            front == AsMessages(page, TRUE) \o hook.messages
            first == AsMessages(page, FALSE)
            more == page.has_more
            cursor == page.next_before
            top == Newest(page)
<1>1. page \in PageType /\ hook.messages \in Seq(MessageType)
  BY DEF FetchType, HookType
<1>2. more \in BOOLEAN /\ cursor \in Nat /\ page.ids \in Seq(Nat)
  BY <1>1 DEF PageType
<1>3. first \in Seq(MessageType) /\ front \in Seq(MessageType)
  BY <1>1, AsMessagesTypeOK, ConcatProperties
<1>4. top \in Nat
  <2>1. CASE page.ids = <<>>
    BY <2>1 DEF Newest
  <2>2. CASE page.ids # <<>>
    <3>1. Len(page.ids) \in 1..Len(page.ids) /\ DOMAIN page.ids = 1..Len(page.ids)
      BY <1>2, <2>2, EmptySeq, LenProperties
    <3>2. page.ids[Len(page.ids)] \in Nat
      BY <1>2, <3>1, ElementOfSeq
    <3>. QED  BY <2>2, <3>2 DEF Newest, Last
  <2>. QED  BY <2>1, <2>2
<1>5. CASE f.before = 0
  <2>1. WithPage(f) = [hook EXCEPT !.messages = first, !.hasMore = more, !.nextBefore = cursor,
                                   !.upTo = top, !.straggled = FALSE]
    BY <1>5 DEF WithPage, Newest
  <2>. HIDE DEF first, more, cursor, top
  <2>2. /\ WithPage(f).messages = first
        /\ WithPage(f).hasMore = more /\ WithPage(f).nextBefore = cursor /\ WithPage(f).upTo = top
        /\ WithPage(f).visit = hook.visit /\ WithPage(f).mounted = hook.mounted
        /\ WithPage(f).overlapped = hook.overlapped
        /\ WithPage(f).loadingHistory = hook.loadingHistory
        /\ WithPage(f).loadingOlder = hook.loadingOlder
    BY <2>1 DEF HookType
  <2>3. WithPage(f) \in HookType
    BY <1>2, <1>3, <1>4, <2>1 DEF HookType
  <2>. QED  BY <1>5, <2>2, <2>3 DEF first, more, cursor, top
<1>6. CASE f.before # 0
  <2>1. WithPage(f) = [hook EXCEPT !.messages = front, !.hasMore = more, !.nextBefore = cursor]
    BY <1>6 DEF WithPage
  <2>. HIDE DEF front, more, cursor
  <2>2. /\ WithPage(f).messages = front
        /\ WithPage(f).hasMore = more /\ WithPage(f).nextBefore = cursor
        /\ WithPage(f).upTo = hook.upTo /\ WithPage(f).straggled = hook.straggled
        /\ WithPage(f).visit = hook.visit /\ WithPage(f).mounted = hook.mounted
        /\ WithPage(f).overlapped = hook.overlapped
        /\ WithPage(f).loadingHistory = hook.loadingHistory
        /\ WithPage(f).loadingOlder = hook.loadingOlder
    BY <2>1 DEF HookType
  <2>3. WithPage(f) \in HookType
    BY <1>2, <1>3, <2>1 DEF HookType
  <2>. QED  BY <1>6, <2>2, <2>3 DEF front, more, cursor
<1>. QED  BY <1>5, <1>6

LEMMA SettledTypeOK ==
    ASSUME hook \in HookType, NEW h \in HookType, NEW f \in FetchType
    PROVE  /\ Settled(f, h) \in HookType
           /\ ~hook.mounted \/ f.visit # hook.visit => Settled(f, h) = hook
           /\ hook.mounted /\ f.visit = hook.visit =>
                 /\ Settled(f, h).messages = h.messages /\ Settled(f, h).hasMore = h.hasMore
                 /\ Settled(f, h).nextBefore = h.nextBefore /\ Settled(f, h).upTo = h.upTo
                 /\ Settled(f, h).visit = h.visit /\ Settled(f, h).mounted = h.mounted
                 /\ Settled(f, h).overlapped = h.overlapped
                 /\ Settled(f, h).straggled = h.straggled
                 /\ f.before # 0 => Settled(f, h).loadingHistory = h.loadingHistory
                 /\ f.before = 0 => Settled(f, h).loadingOlder = h.loadingOlder
<1>1. CASE ~hook.mounted \/ f.visit # hook.visit
  BY <1>1 DEF Settled
<1>2. CASE hook.mounted /\ f.visit = hook.visit /\ f.before = 0
  <2>1. Settled(f, h) = [h EXCEPT !.loadingHistory = FALSE]
    BY <1>2 DEF Settled
  <2>. QED  BY <1>2, <2>1 DEF HookType
<1>3. CASE hook.mounted /\ f.visit = hook.visit /\ f.before # 0
  <2>1. Settled(f, h) = [h EXCEPT !.loadingOlder = FALSE]
    BY <1>3 DEF Settled
  <2>. QED  BY <1>3, <2>1 DEF HookType
<1>. QED  BY <1>1, <1>2, <1>3

LEMMA PageArrives ==
    ASSUME hook \in HookType, NEW f \in FetchType, f.answered, UNCHANGED server,
           hook' = Settled(f, WithPage(f))
    PROVE  /\ hook' \in HookType
           /\ ~hook.mounted \/ f.visit # hook.visit => hook' = hook
           /\ hook.mounted /\ f.visit = hook.visit =>
                 /\ PageListed(f)
                 /\ f.before # 0 => hook'.loadingHistory = hook.loadingHistory
                 /\ f.before = 0 => hook'.loadingOlder = hook.loadingOlder
<1>. DEFINE h == WithPage(f)
<1>1. h \in HookType
  BY WithPageTypeOK
<1>2. hook' = Settled(f, h)
  OBVIOUS
<1>. HIDE DEF h
<1>3. hook' \in HookType /\ (~hook.mounted \/ f.visit # hook.visit => hook' = hook)
  BY <1>1, <1>2, SettledTypeOK
<1>4. ASSUME hook.mounted, f.visit = hook.visit
      PROVE  /\ PageListed(f)
             /\ f.before # 0 => hook'.loadingHistory = hook.loadingHistory
             /\ f.before = 0 => hook'.loadingOlder = hook.loadingOlder
  <2>1. /\ hook'.messages = h.messages /\ hook'.hasMore = h.hasMore
        /\ hook'.nextBefore = h.nextBefore /\ hook'.upTo = h.upTo
        /\ hook'.visit = h.visit /\ hook'.mounted = h.mounted
        /\ hook'.overlapped = h.overlapped /\ hook'.straggled = h.straggled
        /\ f.before # 0 => hook'.loadingHistory = h.loadingHistory
        /\ f.before = 0 => hook'.loadingOlder = h.loadingOlder
    BY <1>1, <1>2, <1>4, SettledTypeOK
  <2>2. /\ h.messages = IF f.before = 0 THEN AsMessages(f.page, FALSE)
                                        ELSE AsMessages(f.page, TRUE) \o hook.messages
        /\ h.hasMore = f.page.has_more /\ h.nextBefore = f.page.next_before
        /\ h.upTo = IF f.before = 0 THEN Newest(f.page) ELSE hook.upTo
        /\ h.visit = hook.visit /\ h.mounted = hook.mounted
        /\ h.overlapped = hook.overlapped
        /\ f.before # 0 => h.straggled = hook.straggled
        /\ h.loadingHistory = hook.loadingHistory /\ h.loadingOlder = hook.loadingOlder
    BY WithPageTypeOK DEF h
  <2>. QED  BY <1>4, <2>1, <2>2 DEF PageListed
<1>. QED  BY <1>3, <1>4

LEMMA OnReadTypeOK ==
    ASSUME hook \in HookType, OnRead
    PROVE  hook' \in HookType /\ SameList
<1>. DEFINE list == [i \in DOMAIN hook.messages |->
                        [hook.messages[i] EXCEPT !.read = (Sender(hook.messages[i].id) = "me")]]
            n == Len(hook.messages)
<1>1. /\ hook.messages \in Seq(MessageType) /\ n \in Nat /\ DOMAIN hook.messages = 1..n
      /\ \A i \in 1..n : hook.messages[i] \in MessageType
  <2>1. hook.messages \in Seq(MessageType)
    BY DEF HookType
  <2>. QED  BY <2>1, LenProperties, ElementOfSeq
<1>2. ASSUME NEW i \in 1..n PROVE list[i] \in MessageType /\ list[i].id = hook.messages[i].id
  <2>. DEFINE x == hook.messages[i]
  <2>1. x \in MessageType /\ list[i] = [x EXCEPT !.read = (Sender(x.id) = "me")]
    BY <1>1
  <2>. HIDE DEF x, list
  <2>2. (Sender(x.id) = "me") \in BOOLEAN
    OBVIOUS
  <2>3. list[i] \in MessageType /\ list[i].id = x.id
    BY <2>1, <2>2 DEF MessageType
  <2>. QED  BY <2>3 DEF x
<1>3. list \in [1..n -> MessageType]
  BY <1>1, <1>2
<1>4. list \in Seq(MessageType) /\ Len(list) = n
  BY <1>1, <1>3, FunctionIsSeq
<1>5. hook' = [hook EXCEPT !.messages = list]
  BY DEF OnRead
<1>. HIDE DEF list
<1>6. hook' \in HookType /\ hook'.messages = list /\ SameCursor
  BY <1>4, <1>5 DEF HookType, SameCursor
<1>. QED  BY <1>2, <1>4, <1>6 DEF SameList

LEMMA FrameHandled ==
    ASSUME ChatTypeOK, HandleFrame
    PROVE  hook' \in HookType /\ (SameList \/ EchoListed)
<1>1. hook \in HookType /\ ws \in WsType /\ hook.messages \in Seq(MessageType)
  BY DEF ChatTypeOK, HookType
<1>2. ASSUME hook' = hook PROVE hook' \in HookType /\ SameList
  BY <1>1, <1>2 DEF SameList, SameCursor
<1>. DEFINE frame == Head(ws.pipe)
<1>3. ws.pipe \in Seq(FrameType) /\ ws.pipe # <<>>
  BY <1>1 DEF HandleFrame, WsType
<1>4. frame \in FrameType
  BY <1>3, HeadTailProperties
<1>5. frame.id \in Nat
  BY <1>4 DEF FrameType
<1>6. \/ frame.type = "message.new" /\ OnMessageNew(frame)
      \/ OnTyping(frame) \/ OnRead \/ hook' = hook
  BY DEF HandleFrame
<1>. HIDE DEF frame
<1>7. CASE frame.type = "message.new" /\ OnMessageNew(frame) /\ frame.id \notin Shown
  <2>1. hook' = WithEcho(frame.id)
    BY <1>7 DEF OnMessageNew
  <2>2. /\ hook' \in HookType
        /\ hook'.messages = Append(hook.messages, Echo(frame.id))
        /\ hook'.hasMore = hook.hasMore /\ hook'.nextBefore = hook.nextBefore
        /\ hook'.visit = hook.visit /\ hook'.mounted = hook.mounted
        /\ hook'.upTo = hook.upTo /\ hook'.overlapped = hook.overlapped
        /\ hook'.straggled = (hook.straggled \/ frame.id <= hook.upTo)
    BY <1>1, <1>5, <1>7, <2>1, WithEchoTypeOK
  <2>. QED  BY <1>7, <2>2 DEF EchoListed, SameCursor, frame, IsNew
<1>8. CASE OnMessageNew(frame) /\ frame.id \in Shown
  BY <1>2, <1>8 DEF OnMessageNew
<1>9. CASE OnTyping(frame)
  <2>1. hook' \in HookType /\ hook'.messages = hook.messages /\ SameCursor
    BY <1>1, <1>9 DEF OnTyping, HookType, SameCursor
  <2>. QED  BY <2>1 DEF SameList
<1>. QED  BY <1>1, <1>2, <1>6, <1>7, <1>8, <1>9, OnReadTypeOK

LEMMA HookStep ==
    ASSUME ChatTypeOK, [Next]_vars
    PROVE  /\ hook' \in HookType
           /\ \/ Emptied \/ SameList \/ EchoListed
              \/ \E i \in DOMAIN fetches : PageListed(fetches[i]) /\ fetches' = RemoveAt(fetches, i)
<1>. DEFINE Goal == /\ hook' \in HookType
                    /\ \/ Emptied \/ SameList \/ EchoListed
                       \/ \E i \in DOMAIN fetches :
                             PageListed(fetches[i]) /\ fetches' = RemoveAt(fetches, i)
<1>1. /\ hook \in HookType /\ fetches \in Seq(FetchType)
      /\ hook.messages \in Seq(MessageType) /\ hook.visit \in Nat /\ hook.nextBefore \in Nat
  BY DEF ChatTypeOK, HookType
<1>2. ASSUME hook' \in HookType, hook'.messages = hook.messages, SameCursor PROVE Goal
  BY <1>2 DEF SameList
<1>3. CASE UNCHANGED hook
  BY <1>1, <1>2, <1>3 DEF SameCursor
<1>4. CASE OpenThread
  <2>. DEFINE u == Unmounted(hook.visit + 1)
              h == [u EXCEPT !.mounted = TRUE]
  <2>1. /\ u \in HookType /\ u.messages = <<>> /\ u.nextBefore = 0 /\ ~u.hasMore
        /\ u.visit = hook.visit + 1 /\ u.upTo = 0
    BY <1>1, UnmountedTypeOK
  <2>. HIDE DEF u
  <2>2. /\ h \in HookType /\ h.messages = <<>> /\ h.nextBefore = 0 /\ ~h.hasMore
        /\ h.visit = hook.visit + 1 /\ h.upTo = 0
    BY <2>1 DEF HookType
  <2>3. Ask(h, 0)
    BY <1>4 DEF OpenThread, u
  <2>. HIDE DEF h
  <2>. QED  BY <1>4, <2>2, <2>3, HookAsks DEF Emptied
<1>5. CASE LeaveThread
  <2>1. hook' = Unmounted(hook.visit)
    BY <1>5 DEF LeaveThread
  <2>. QED  BY <1>1, <1>5, <2>1, UnmountedTypeOK DEF Emptied
<1>6. CASE OnOpen \/ OnClose \/ TypingTimeout
  <2>1. \/ hook' = [hook EXCEPT !.status = "open"]
        \/ hook' = [hook EXCEPT !.status = "closed", !.reconnect = TRUE]
        \/ hook' = [hook EXCEPT !.typingFromOther = FALSE, !.typingTimer = FALSE]
    BY <1>1, <1>6 DEF OnOpen, OnClose, TypingTimeout
  <2>2. hook' \in HookType /\ hook'.messages = hook.messages /\ SameCursor
    BY <1>1, <2>1 DEF HookType, SameCursor
  <2>. QED  BY <1>2, <2>2
<1>7. CASE Reconnect
  <2>. DEFINE h == [hook EXCEPT !.reconnect = FALSE, !.status = "connecting"]
  <2>1. /\ h \in HookType /\ h.messages = hook.messages /\ h.nextBefore = hook.nextBefore
        /\ h.hasMore = hook.hasMore /\ h.visit = hook.visit /\ h.mounted = hook.mounted
        /\ h.overlapped = hook.overlapped /\ h.straggled = hook.straggled /\ h.upTo = hook.upTo
    BY <1>1 DEF HookType
  <2>2. Ask(h, 0)
    BY <1>7 DEF Reconnect
  <2>. HIDE DEF h
  <2>. QED  BY <1>2, <2>1, <2>2, HookAsks DEF SameCursor
<1>8. CASE LoadOlder
  BY <1>1, <1>2, <1>8, HookAsks DEF LoadOlder, SameCursor
<1>9. CASE HistoryFails
  <2>1. PICK i \in DOMAIN fetches : hook' = Settled(fetches[i], hook)
    BY <1>9 DEF HistoryFails
  <2>2. \/ hook' = hook \/ hook' = [hook EXCEPT !.loadingHistory = FALSE]
        \/ hook' = [hook EXCEPT !.loadingOlder = FALSE]
    BY <2>1 DEF Settled
  <2>. QED  BY <1>1, <1>2, <2>2 DEF HookType, SameCursor
<1>10. CASE HistoryArrives
  <2>1. PICK i \in DOMAIN fetches :
            /\ fetches[i].answered /\ hook' = Settled(fetches[i], WithPage(fetches[i]))
            /\ fetches' = RemoveAt(fetches, i) /\ UNCHANGED server
    BY <1>10 DEF HistoryArrives
  <2>2. fetches[i] \in FetchType
    BY <1>1
  <2>3. /\ hook' \in HookType
        /\ ~hook.mounted \/ fetches[i].visit # hook.visit => hook' = hook
        /\ hook.mounted /\ fetches[i].visit = hook.visit => PageListed(fetches[i])
    BY <1>1, <2>1, <2>2, PageArrives
  <2>. QED  BY <1>3, <2>1, <2>3
<1>11. CASE HandleFrame
  BY <1>11, FrameHandled
<1>12. \/ UNCHANGED hook \/ OpenThread \/ LeaveThread \/ OnOpen \/ OnClose \/ TypingTimeout
       \/ Reconnect \/ LoadOlder \/ HistoryFails \/ HistoryArrives \/ HandleFrame
  BY DEF Next, ServerStep, BrowserStep, Environment, vars, FinishHandler, Receive, Handshake,
         AnswerHistory, AnswerPost, PeerSend, PeerRead, PeerType, Drop, TokenExpires, FailPost, Submit
<1>. QED  BY <1>3, <1>4, <1>5, <1>6, <1>7, <1>8, <1>9, <1>10, <1>11, <1>12

\* A history request is made, answered, or done with.
Mine(f) == hook.mounted /\ f.visit = hook.visit

Asked(before) == fetches' = Append(fetches, Request(hook'.visit, before)) /\ UNCHANGED server

AskedAgain ==
    /\ Asked(0) /\ SameCursor /\ hook'.loadingHistory /\ hook'.loadingOlder = hook.loadingOlder
    /\ FirstPageAsked(hook.visit) => hook'.overlapped

AskedOlder ==
    /\ Asked(hook.nextBefore) /\ SameCursor /\ hook.mounted /\ hook.hasMore
    /\ ~hook.loadingHistory /\ ~hook.loadingOlder
    /\ hook'.loadingOlder /\ hook'.loadingHistory = hook.loadingHistory

AnsweredAt(i) ==
    /\ ~fetches[i].answered
    /\ fetches' = [fetches EXCEPT ![i].answered = TRUE, ![i].page = PageBefore(fetches[i].before)]
    /\ UNCHANGED <<server, hook>>

DoneWith(i) ==
    /\ fetches' = RemoveAt(fetches, i)
    /\ SameCursor \/ PageListed(fetches[i])
    /\ ~Mine(fetches[i]) \/ fetches[i].before # 0 => hook'.loadingHistory = hook.loadingHistory
    /\ ~Mine(fetches[i]) \/ fetches[i].before = 0 => hook'.loadingOlder = hook.loadingOlder

Untouched ==
    /\ UNCHANGED fetches /\ SameCursor
    /\ hook'.loadingHistory = hook.loadingHistory /\ hook'.loadingOlder = hook.loadingOlder

LEMMA AskFlags ==
    ASSUME NEW h \in HookType, NEW before \in Nat, Ask(h, before), UNCHANGED server
    PROVE  /\ Asked(before)
           /\ hook'.loadingHistory = (h.loadingHistory \/ before = 0)
           /\ hook'.loadingOlder = (h.loadingOlder \/ before # 0)
           /\ before = 0 /\ FirstPageAsked(h.visit) => hook'.overlapped
<1>1. /\ hook'.loadingHistory = (h.loadingHistory \/ before = 0)
      /\ hook'.loadingOlder = (h.loadingOlder \/ before # 0)
      /\ before = 0 /\ FirstPageAsked(h.visit) => hook'.overlapped
  BY DEF Ask, HookType
<1>2. hook'.visit = h.visit
  BY HookAsks
<1>3. Asked(before)
  BY <1>2 DEF Ask, Asked, Request
<1>. QED  BY <1>1, <1>3

LEMMA FrameKeepsFlags ==
    ASSUME ChatTypeOK, HandleFrame
    PROVE  Untouched
<1>1. hook \in HookType
  BY DEF ChatTypeOK
<1>2. SameCursor /\ UNCHANGED fetches
  BY FrameHandled DEF SameList, EchoListed, HandleFrame
<1>3. hook'.loadingHistory = hook.loadingHistory /\ hook'.loadingOlder = hook.loadingOlder
  BY <1>1 DEF HandleFrame, OnMessageNew, WithEcho, OnTyping, OnRead, HookType
<1>. QED  BY <1>2, <1>3 DEF Untouched

LEMMA FetchesStep ==
    ASSUME ChatTypeOK, [Next]_vars
    PROVE  \/ OpenThread /\ Asked(0) /\ hook'.loadingHistory
           \/ LeaveThread \/ AskedAgain \/ AskedOlder \/ Untouched
           \/ \E i \in DOMAIN fetches : AnsweredAt(i) \/ DoneWith(i)
<1>1. /\ hook \in HookType /\ fetches \in Seq(FetchType)
      /\ hook.visit \in Nat /\ hook.nextBefore \in Nat
  BY DEF ChatTypeOK, HookType
<1>2. ASSUME OpenThread PROVE Asked(0) /\ hook'.loadingHistory
  <2>. DEFINE u == Unmounted(hook.visit + 1)
              h == [u EXCEPT !.mounted = TRUE]
  <2>1. u \in HookType
    BY <1>1, UnmountedTypeOK
  <2>2. Ask(h, 0) /\ UNCHANGED server
    BY <1>2 DEF OpenThread, server
  <2>. HIDE DEF u
  <2>3. h \in HookType
    BY <2>1 DEF HookType
  <2>. HIDE DEF h
  <2>. QED  BY <2>2, <2>3, AskFlags
<1>3. ASSUME Reconnect PROVE AskedAgain
  <2>. DEFINE h == [hook EXCEPT !.reconnect = FALSE, !.status = "connecting"]
  <2>1. /\ h \in HookType /\ h.messages = hook.messages /\ h.nextBefore = hook.nextBefore
        /\ h.hasMore = hook.hasMore /\ h.visit = hook.visit /\ h.mounted = hook.mounted
        /\ h.overlapped = hook.overlapped /\ h.straggled = hook.straggled /\ h.upTo = hook.upTo
        /\ h.loadingOlder = hook.loadingOlder
    BY <1>1 DEF HookType
  <2>2. Ask(h, 0) /\ UNCHANGED server
    BY <1>3 DEF Reconnect, server
  <2>. HIDE DEF h
  <2>3. SameCursor
    BY <2>1, <2>2, HookAsks DEF SameCursor
  <2>4. /\ Asked(0) /\ hook'.loadingHistory = (h.loadingHistory \/ 0 = 0)
        /\ hook'.loadingOlder = (h.loadingOlder \/ 0 # 0)
        /\ FirstPageAsked(h.visit) => hook'.overlapped
    BY <2>1, <2>2, AskFlags
  <2>5. h.loadingOlder \in BOOLEAN
    BY <2>1 DEF HookType
  <2>. QED  BY <2>1, <2>3, <2>4, <2>5 DEF AskedAgain
<1>4. ASSUME LoadOlder, hook.nextBefore # 0 PROVE AskedOlder
  <2>1. Ask(hook, hook.nextBefore) /\ UNCHANGED server /\ hook.mounted /\ hook.hasMore
        /\ ~hook.loadingOlder /\ ~hook.loadingHistory
    BY <1>4 DEF LoadOlder, server, View
  <2>2. SameCursor
    BY <1>1, <2>1, HookAsks DEF SameCursor
  <2>3. /\ Asked(hook.nextBefore)
        /\ hook'.loadingHistory = (hook.loadingHistory \/ hook.nextBefore = 0)
        /\ hook'.loadingOlder = (hook.loadingOlder \/ hook.nextBefore # 0)
    BY <1>1, <2>1, AskFlags
  <2>4. hook.loadingHistory \in BOOLEAN
    BY <1>1 DEF HookType
  <2>. QED  BY <1>4, <2>1, <2>2, <2>3, <2>4 DEF AskedOlder
<1>5. ASSUME LoadOlder, hook.nextBefore = 0 PROVE AskedAgain
  <2>1. Ask(hook, 0) /\ UNCHANGED server
    BY <1>5 DEF LoadOlder, server
  <2>2. SameCursor
    BY <1>1, <2>1, HookAsks DEF SameCursor
  <2>3. /\ Asked(0) /\ hook'.loadingHistory = (hook.loadingHistory \/ 0 = 0)
        /\ hook'.loadingOlder = (hook.loadingOlder \/ 0 # 0)
        /\ FirstPageAsked(hook.visit) => hook'.overlapped
    BY <1>1, <2>1, AskFlags
  <2>4. hook.loadingOlder \in BOOLEAN
    BY <1>1 DEF HookType
  <2>. QED  BY <2>2, <2>3, <2>4 DEF AskedAgain
<1>6. ASSUME AnswerHistory PROVE \E i \in DOMAIN fetches : AnsweredAt(i)
  BY <1>6 DEF AnswerHistory, AnsweredAt, server
<1>7. ASSUME HistoryArrives PROVE \E i \in DOMAIN fetches : DoneWith(i)
  <2>1. PICK i \in DOMAIN fetches :
            /\ fetches[i].answered /\ hook' = Settled(fetches[i], WithPage(fetches[i]))
            /\ fetches' = RemoveAt(fetches, i) /\ UNCHANGED server
    BY <1>7 DEF HistoryArrives
  <2>2. fetches[i] \in FetchType
    BY <1>1
  <2>3. /\ ~hook.mounted \/ fetches[i].visit # hook.visit => hook' = hook
        /\ hook.mounted /\ fetches[i].visit = hook.visit =>
              /\ PageListed(fetches[i])
              /\ fetches[i].before # 0 => hook'.loadingHistory = hook.loadingHistory
              /\ fetches[i].before = 0 => hook'.loadingOlder = hook.loadingOlder
    BY <1>1, <2>1, <2>2, PageArrives
  <2>. QED  BY <2>1, <2>3 DEF DoneWith, Mine, SameCursor
<1>8. ASSUME HistoryFails PROVE \E i \in DOMAIN fetches : DoneWith(i)
  <2>1. PICK i \in DOMAIN fetches :
            hook' = Settled(fetches[i], hook) /\ fetches' = RemoveAt(fetches, i)
    BY <1>8 DEF HistoryFails
  <2>2. fetches[i] \in FetchType
    BY <1>1
  <2>3. /\ ~hook.mounted \/ fetches[i].visit # hook.visit => hook' = hook
        /\ hook.mounted /\ fetches[i].visit = hook.visit =>
              /\ SameCursor
              /\ fetches[i].before # 0 => hook'.loadingHistory = hook.loadingHistory
              /\ fetches[i].before = 0 => hook'.loadingOlder = hook.loadingOlder
    BY <1>1, <2>1, <2>2, SettledTypeOK DEF SameCursor
  <2>. QED  BY <2>1, <2>3 DEF DoneWith, Mine, SameCursor
<1>9. ASSUME OnOpen \/ OnClose \/ TypingTimeout PROVE Untouched
  BY <1>1, <1>9 DEF OnOpen, OnClose, TypingTimeout, HookType, SameCursor, Untouched
<1>10. ASSUME UNCHANGED <<hook, fetches>> PROVE Untouched
  BY <1>10 DEF Untouched, SameCursor
<1>. QED
  BY <1>2, <1>3, <1>4, <1>5, <1>6, <1>7, <1>8, <1>9, <1>10, FrameKeepsFlags
     DEF Next, ServerStep, BrowserStep, Environment, vars, FinishHandler, Receive, Handshake,
         AnswerPost, PeerSend, PeerRead, PeerType, Drop, TokenExpires, FailPost, Submit

-----------------------------------------------------------------------------
(* The requests                                                            *)

\* Where the list begins: at the cursor of the next older page, or with the thread.
Reach == IF hook.hasMore THEN hook.nextBefore ELSE 1

\* While no two first pages of a mount overlap, the spinner is up as long as the first page is
\* on its way, so that an older page is asked for from where the list begins, and a first page
\* answered since then does not begin before that.
RequestsFit ==
    \A i \in DOMAIN fetches : Mine(fetches[i]) =>
        /\ fetches[i].before = 0 /\ ~hook.overlapped =>
              /\ hook.loadingHistory
              /\ \A j \in DOMAIN fetches : Mine(fetches[j]) /\ fetches[j].before = 0 => i = j
        /\ fetches[i].before # 0 =>
              /\ hook.loadingOlder
              /\ \A j \in DOMAIN fetches : Mine(fetches[j]) /\ fetches[j].before # 0 => i = j
              /\ ~hook.overlapped =>
                    /\ fetches[i].before <= Reach
                    /\ \A j \in DOMAIN fetches :
                          Mine(fetches[j]) /\ fetches[j].before = 0 /\ fetches[j].answered
                             => fetches[i].before <= First(fetches[j].page)

LEMMA FetchTypes ==
    ASSUME ChatTypeOK
    PROVE  /\ fetches \in Seq(FetchType) /\ Len(fetches) \in Nat /\ DOMAIN fetches = 1..Len(fetches)
           /\ \A i \in 1..Len(fetches) :
                 /\ fetches[i] \in FetchType /\ fetches[i].page \in PageType
                 /\ fetches[i].visit \in Nat /\ fetches[i].before \in Nat
           /\ hook.nextBefore \in Nat /\ hook.visit \in Nat /\ hook.upTo \in Nat
           /\ hook.hasMore \in BOOLEAN /\ hook.mounted \in BOOLEAN
           /\ Len(origin) \in Nat /\ PageSize \in Nat \ {0}
<1>1. hook \in HookType /\ fetches \in Seq(FetchType) /\ origin \in Seq(Connections)
  BY DEF ChatTypeOK
<1>2. /\ hook.nextBefore \in Nat /\ hook.visit \in Nat /\ hook.upTo \in Nat
      /\ hook.hasMore \in BOOLEAN /\ hook.mounted \in BOOLEAN
  BY <1>1 DEF HookType
<1>3. \A i \in 1..Len(fetches) : fetches[i] \in FetchType
  BY <1>1, ElementOfSeq
<1>4. \A i \in 1..Len(fetches) :
          fetches[i].page \in PageType /\ fetches[i].visit \in Nat /\ fetches[i].before \in Nat
  BY <1>3 DEF FetchType
<1>5. Len(fetches) \in Nat /\ DOMAIN fetches = 1..Len(fetches) /\ Len(origin) \in Nat
  BY <1>1, LenProperties
<1>. QED  BY <1>1, <1>2, <1>3, <1>4, <1>5, ChatAssumption

\* The requests after a new one, ...
LEMMA AskedFetches ==
    ASSUME ChatTypeOK, NEW before \in Nat, hook' \in HookType, Asked(before)
    PROVE  /\ fetches' \in Seq(FetchType)
           /\ DOMAIN fetches' = 1..(Len(fetches) + 1)
           /\ \A i \in 1..Len(fetches) : fetches'[i] = fetches[i]
           /\ fetches'[Len(fetches) + 1].visit = hook'.visit
           /\ fetches'[Len(fetches) + 1].before = before
           /\ ~fetches'[Len(fetches) + 1].answered
<1>1. hook'.visit \in Nat
  BY DEF HookType
<1>. DEFINE f == Request(hook'.visit, before)
<1>2. f \in FetchType /\ f.visit = hook'.visit /\ f.before = before /\ ~f.answered
  BY <1>1, RequestTypeOK
<1>3. fetches' = Append(fetches, f)
  BY DEF Asked
<1>. HIDE DEF f
<1>4. /\ fetches' \in Seq(FetchType)
      /\ DOMAIN fetches' = 1..(Len(fetches) + 1)
      /\ \A i \in 1..Len(fetches) : fetches'[i] = fetches[i]
      /\ fetches'[Len(fetches) + 1] = f
  BY <1>2, <1>3, FetchTypes, AppendProperties
<1>. QED  BY <1>2, <1>4

\* ... after an answer, ...
LEMMA AnsweredFetches ==
    ASSUME ChatTypeOK, PagesFit, NEW i \in DOMAIN fetches, AnsweredAt(i)
    PROVE  /\ fetches' \in Seq(FetchType) /\ DOMAIN fetches' = DOMAIN fetches
           /\ \A j \in DOMAIN fetches :
                 fetches'[j].visit = fetches[j].visit /\ fetches'[j].before = fetches[j].before
           /\ \A j \in DOMAIN fetches : j # i => fetches'[j] = fetches[j]
           /\ fetches'[i].page = PageBefore(fetches[i].before)
           /\ FetchFits(fetches'[i], hook.visit, Len(origin))
<1>. DEFINE f == fetches[i]
            page == PageBefore(f.before)
            g == [f EXCEPT !.answered = TRUE, !.page = page]
<1>1. f \in FetchType /\ FetchFits(f, hook.visit, Len(origin))
  BY FetchTypes DEF PagesFit
<1>2. fetches' = [fetches EXCEPT ![i] = g]
  BY DEF AnsweredAt
<1>. HIDE DEF f
<1>3. f.before \in Nat /\ f.visit <= hook.visit /\ f.visit \in Nat /\ f.before <= Len(origin)
  <2>1. f.before \in Nat /\ f.visit \in Nat
    BY <1>1 DEF FetchType
  <2>2. f.visit <= hook.visit /\ (f.before # 0 => f.before + PageSize <= Len(origin) + 1)
    BY <1>1 DEF FetchFits
  <2>. QED  BY <2>1, <2>2, FetchTypes
<1>4. page \in PageType /\ IsPage(page, f.before, Len(origin))
  <2>1. f.before \in 0..Len(origin)
    BY <1>3, FetchTypes
  <2>. QED  BY <2>1, PageBeforeIsPage DEF ChatTypeOK
<1>. HIDE DEF page
<1>5. g \in FetchType /\ g.before = f.before /\ g.visit = f.visit /\ g.answered /\ g.page = page
  BY <1>1, <1>4 DEF FetchType
<1>. HIDE DEF g
<1>6. FetchFits(g, hook.visit, Len(origin))
  <2>1. f.before # 0 => f.before + PageSize <= Len(origin) + 1
    BY <1>1 DEF FetchFits
  <2>. QED  BY <1>3, <1>4, <1>5, <2>1 DEF FetchFits
<1>7. /\ fetches' \in Seq(FetchType) /\ DOMAIN fetches' = DOMAIN fetches
      /\ \A j \in DOMAIN fetches : fetches'[j] = IF j = i THEN g ELSE fetches[j]
  BY <1>2, <1>5, FetchTypes, ExceptSeq
<1>. QED  BY <1>5, <1>6, <1>7 DEF f, page

\* ... and after one is done with.
LEMMA LeftFetches ==
    ASSUME ChatTypeOK, NEW i \in DOMAIN fetches, fetches' = RemoveAt(fetches, i)
    PROVE  /\ fetches' \in Seq(FetchType)
           /\ \E place \in [DOMAIN fetches' -> DOMAIN fetches] :
                 /\ \A j \in DOMAIN fetches' : fetches'[j] = fetches[place[j]] /\ place[j] # i
                 /\ \A j, k \in DOMAIN fetches' : place[j] = place[k] => j = k
<1>1. fetches \in Seq(FetchType)
  BY FetchTypes
<1>2. fetches' \in Seq(FetchType)
  BY <1>1, RemoveAtProperties
<1>3. PICK place \in [DOMAIN RemoveAt(fetches, i) -> DOMAIN fetches] :
            /\ \A j \in DOMAIN RemoveAt(fetches, i) :
                  RemoveAt(fetches, i)[j] = fetches[place[j]] /\ place[j] # i
            /\ \A j, k \in DOMAIN RemoveAt(fetches, i) : place[j] = place[k] => j = k
  BY <1>1, RemoveAtKeeps, Zenon
<1>. QED  BY <1>2, <1>3

LEMMA VisitStep ==
    ASSUME ChatTypeOK, [Next]_vars
    PROVE  /\ hook' \in HookType /\ hook'.visit \in Nat /\ hook.visit <= hook'.visit
           /\ Len(origin') \in Nat /\ Len(origin) <= Len(origin')
<1>1. hook' \in HookType /\ (hook'.visit = hook.visit \/ hook'.visit = hook.visit + 1)
  BY HookStep DEF Emptied, SameList, SameCursor, EchoListed, PageListed
<1>2. origin' \in Seq(Connections) /\ hook.visit \in Nat
  BY ServerGrows, FetchTypes
<1>. QED  BY <1>1, <1>2, ServerGrows DEF HookType

LEMMA FetchesFit ==
    ASSUME ChatTypeOK, PagesFit, CursorFits, [Next]_vars
    PROVE  fetches' \in Seq(FetchType) /\ PagesFit'
<1>. DEFINE Goal == fetches' \in Seq(FetchType) /\ PagesFit'
<1>1. /\ fetches \in Seq(FetchType) /\ DOMAIN fetches = 1..Len(fetches) /\ Len(fetches) \in Nat
      /\ hook.visit \in Nat /\ hook.nextBefore \in Nat /\ Len(origin) \in Nat /\ PageSize \in Nat
  BY FetchTypes
<1>2. /\ hook' \in HookType /\ hook'.visit \in Nat /\ hook.visit <= hook'.visit
      /\ Len(origin') \in Nat /\ Len(origin) <= Len(origin')
  BY VisitStep
<1>3. \A i \in 1..Len(fetches) : FetchFits(fetches[i], hook'.visit, Len(origin'))
  BY <1>1, <1>2, FetchTypes, FetchStillFits DEF PagesFit
<1>4. ASSUME NEW before \in Nat, before # 0 => before + PageSize <= Len(origin) + 1, Asked(before)
      PROVE  Goal
  <2>1. FetchFits(fetches'[Len(fetches) + 1], hook'.visit, Len(origin'))
    <3>1. before # 0 => before + PageSize <= Len(origin') + 1
      BY <1>1, <1>2, <1>4
    <3>. QED  BY <1>2, <1>4, <3>1, AskedFetches DEF FetchFits
  <2>2. \A i \in 1..(Len(fetches) + 1) : i \in 1..Len(fetches) \/ i = Len(fetches) + 1
    BY <1>1
  <2>3. \A i \in DOMAIN fetches' : FetchFits(fetches'[i], hook'.visit, Len(origin'))
    BY <1>2, <1>3, <1>4, <2>1, <2>2, AskedFetches
  <2>. QED  BY <1>2, <1>4, <2>3, AskedFetches, PagesFitNext
<1>5. ASSUME NEW i \in DOMAIN fetches, AnsweredAt(i) PROVE Goal
  <2>1. Len(origin') = Len(origin) /\ hook' = hook
    BY <1>5 DEF AnsweredAt, server
  <2>2. \A j \in DOMAIN fetches' : FetchFits(fetches'[j], hook'.visit, Len(origin'))
    BY <1>1, <1>3, <1>5, <2>1, AnsweredFetches
  <2>. QED  BY <1>5, <2>2, AnsweredFetches, PagesFitNext
<1>6. ASSUME NEW i \in DOMAIN fetches, DoneWith(i) PROVE Goal
  <2>1. fetches' = RemoveAt(fetches, i)
    BY <1>6 DEF DoneWith
  <2>2. \A j \in DOMAIN fetches' : \E k \in DOMAIN fetches : fetches'[j] = fetches[k]
    BY <2>1, LeftFetches
  <2>3. \A j \in DOMAIN fetches' : FetchFits(fetches'[j], hook'.visit, Len(origin'))
    BY <1>1, <1>3, <2>2
  <2>. QED  BY <2>1, <2>3, LeftFetches, PagesFitNext
<1>7. ASSUME UNCHANGED fetches PROVE Goal
  BY <1>1, <1>3, <1>7, PagesFitNext
<1>8. hook.nextBefore # 0 => hook.nextBefore + PageSize <= Len(origin) + 1
  BY DEF CursorFits
<1>. HIDE DEF Goal
<1>9. ASSUME OpenThread \/ AskedAgain, Asked(0) PROVE Goal
  <2>1. 0 \in Nat
    OBVIOUS
  <2>. QED  BY <1>4, <1>9, <2>1
<1>10. ASSUME AskedOlder PROVE Goal
  BY <1>1, <1>4, <1>8, <1>10 DEF AskedOlder
<1>11. ASSUME LeaveThread \/ Untouched PROVE Goal
  BY <1>7, <1>11 DEF LeaveThread, Untouched
<1>12. Goal
  BY <1>5, <1>6, <1>9, <1>10, <1>11, FetchesStep DEF AskedAgain
<1>. QED  BY <1>12 DEF Goal

LEMMA FetchesBounded ==
    ASSUME ChatTypeOK, [Next]_vars
    PROVE  Len(fetches') <= MaxAsks
<1>1. fetches \in Seq(FetchType) /\ Len(fetches) \in Nat /\ Len(fetches) <= MaxAsks /\ MaxAsks \in Nat
  BY ChatAssumption DEF ChatTypeOK
<1>2. CASE OpenThread \/ Reconnect \/ LoadOlder
  BY <1>1, <1>2 DEF OpenThread, Reconnect, LoadOlder, Ask
<1>3. CASE UNCHANGED fetches
  BY <1>1, <1>3
<1>4. CASE AnswerHistory
  BY <1>1, <1>4 DEF AnswerHistory
<1>5. CASE HistoryArrives \/ HistoryFails
  <2>1. PICK i \in DOMAIN fetches : fetches' = RemoveAt(fetches, i)
    BY <1>5 DEF HistoryArrives, HistoryFails
  <2>2. Len(fetches') = Len(fetches) - 1
    BY <1>1, <2>1, RemoveAtProperties
  <2>. QED  BY <1>1, <2>2
<1>. QED
  BY <1>2, <1>3, <1>4, <1>5
     DEF Next, ServerStep, BrowserStep, Environment, vars, FinishHandler, Receive, Handshake,
         AnswerPost, OnOpen, OnClose, HandleFrame, TypingTimeout, PeerSend, PeerRead, PeerType, Drop,
         TokenExpires, FailPost, LeaveThread, Submit

LEMMA CursorStep ==
    ASSUME ChatTypeOK, PagesFit, CursorFits, [Next]_vars
    PROVE  CursorFits'
<1>1. /\ Len(origin) \in Nat /\ Len(origin') \in Nat /\ Len(origin) <= Len(origin')
      /\ PageSize \in Nat /\ hook.nextBefore \in Nat
  BY FetchTypes, VisitStep
<1>2. CASE SameCursor
  BY <1>1, <1>2 DEF CursorFits, SameCursor
<1>3. CASE Emptied
  BY <1>3 DEF CursorFits, Emptied
<1>4. ASSUME NEW i \in DOMAIN fetches, PageListed(fetches[i]) PROVE CursorFits'
  <2>. DEFINE f == fetches[i]
  <2>1. FetchFits(f, hook.visit, Len(origin)) /\ f.answered
    BY <1>4 DEF PagesFit, PageListed
  <2>2. f.page.has_more \in BOOLEAN /\ f.page.next_before \in Nat
    BY FetchTypes DEF PageType
  <2>3. hook'.hasMore = f.page.has_more /\ hook'.nextBefore = f.page.next_before
    BY <1>4 DEF PageListed
  <2>. HIDE DEF f
  <2>4. /\ f.page.has_more =>
              f.page.next_before > 0 /\ f.page.next_before + PageSize <= Len(origin) + 1
        /\ ~f.page.has_more => f.page.next_before = 0
    BY <2>1 DEF FetchFits, IsPage
  <2>5. Len(origin') = Len(origin)
    BY <1>4 DEF PageListed, server
  <2>. QED  BY <1>1, <2>2, <2>3, <2>4, <2>5 DEF CursorFits
<1>. QED  BY <1>2, <1>3, <1>4, HookStep DEF SameList, EchoListed

\* The parts of RequestsFit, request by request.
FirstFits(i) ==
    /\ hook.loadingHistory
    /\ \A j \in DOMAIN fetches : Mine(fetches[j]) /\ fetches[j].before = 0 => i = j

OlderAlone(i) ==
    /\ hook.loadingOlder
    /\ \A j \in DOMAIN fetches : Mine(fetches[j]) /\ fetches[j].before # 0 => i = j

OlderFits(before) ==
    /\ before <= Reach
    /\ \A j \in DOMAIN fetches :
          Mine(fetches[j]) /\ fetches[j].before = 0 /\ fetches[j].answered
             => before <= First(fetches[j].page)

LEMMA RequestsParts ==
    RequestsFit <=>
        \A i \in DOMAIN fetches : Mine(fetches[i]) =>
            /\ fetches[i].before = 0 /\ ~hook.overlapped => FirstFits(i)
            /\ fetches[i].before # 0 => OlderAlone(i) /\ (~hook.overlapped => OlderFits(fetches[i].before))
BY DEF RequestsFit, FirstFits, OlderAlone, OlderFits

LEMMA RequestsNext ==
    ASSUME \A i \in DOMAIN fetches' : hook'.mounted /\ fetches'[i].visit = hook'.visit =>
              /\ fetches'[i].before = 0 /\ ~hook'.overlapped => FirstFits(i)'
              /\ fetches'[i].before # 0 =>
                    OlderAlone(i)' /\ (~hook'.overlapped => OlderFits(fetches[i].before)')
    PROVE  RequestsFit'
BY DEF RequestsFit, FirstFits, OlderAlone, OlderFits, Mine

LEMMA AskedAgainFits ==
    ASSUME ChatTypeOK, RequestsFit, hook' \in HookType, AskedAgain
    PROVE  RequestsFit'
<1>. DEFINE n == Len(fetches)
<1>1. /\ DOMAIN fetches' = 1..(n + 1) /\ DOMAIN fetches = 1..n /\ n \in Nat
      /\ \A i \in 1..n : fetches'[i] = fetches[i]
      /\ fetches'[n + 1].visit = hook'.visit
      /\ fetches'[n + 1].before = 0 /\ ~fetches'[n + 1].answered
  <2>1. 0 \in Nat /\ Asked(0)
    BY DEF AskedAgain
  <2>. QED  BY <2>1, AskedFetches, FetchTypes
<1>2. /\ hook'.mounted = hook.mounted /\ hook'.visit = hook.visit /\ Reach' = Reach
      /\ (hook.overlapped => hook'.overlapped)
      /\ hook'.loadingHistory /\ hook'.loadingOlder = hook.loadingOlder
  BY DEF AskedAgain, SameCursor, Reach
<1>3. ~hook'.overlapped =>
          \A i \in 1..n : fetches[i].visit = hook.visit => fetches[i].before # 0
  BY <1>1 DEF AskedAgain, FirstPageAsked, ToSet
<1>. HIDE DEF n
<1>4. \A i \in 1..(n + 1) : i \in 1..n \/ i = n + 1
  BY <1>1
<1>5. ASSUME NEW i \in 1..(n + 1), hook.mounted, fetches'[i].visit = hook.visit,
             fetches'[i].before = 0, ~hook'.overlapped
      PROVE  FirstFits(i)'
  BY <1>1, <1>2, <1>3, <1>4, <1>5 DEF FirstFits, Mine
<1>6. ASSUME NEW i \in 1..(n + 1), hook.mounted, fetches'[i].visit = hook.visit,
             fetches'[i].before # 0
      PROVE  OlderAlone(i)'
  <2>1. i \in 1..n /\ fetches'[i] = fetches[i]
    BY <1>1, <1>4, <1>6
  <2>2. OlderAlone(i)
    BY <1>1, <1>6, <2>1, RequestsParts DEF Mine
  <2>. QED  BY <1>1, <1>2, <1>4, <2>2 DEF OlderAlone, Mine
<1>7. ASSUME NEW i \in 1..(n + 1), hook.mounted, fetches'[i].visit = hook.visit,
             fetches'[i].before # 0, ~hook'.overlapped
      PROVE  OlderFits(fetches[i].before)'
  <2>1. i \in 1..n /\ fetches'[i] = fetches[i]
    BY <1>1, <1>4, <1>7
  <2>2. fetches[i].before <= Reach
    BY <1>1, <1>2, <1>7, <2>1 DEF RequestsFit, Mine
  <2>3. \A j \in DOMAIN fetches' :
            fetches'[j].visit = hook.visit /\ fetches'[j].before = 0 => ~fetches'[j].answered
    BY <1>1, <1>3, <1>4, <1>7
  <2>. QED  BY <1>2, <2>1, <2>2, <2>3 DEF OlderFits, Mine
<1>. QED  BY <1>1, <1>2, <1>5, <1>6, <1>7, RequestsNext

LEMMA AskedOlderFits ==
    ASSUME ChatTypeOK, CursorFits, RequestsFit, hook' \in HookType, AskedOlder
    PROVE  RequestsFit'
<1>. DEFINE n == Len(fetches)
<1>1. hook.nextBefore \in Nat /\ hook.nextBefore # 0 /\ Asked(hook.nextBefore)
  BY FetchTypes DEF AskedOlder, CursorFits
<1>2. /\ DOMAIN fetches' = 1..(n + 1) /\ DOMAIN fetches = 1..n /\ n \in Nat
      /\ \A i \in 1..n : fetches'[i] = fetches[i]
      /\ fetches'[n + 1].visit = hook'.visit
      /\ fetches'[n + 1].before = hook.nextBefore
  BY <1>1, AskedFetches, FetchTypes
<1>3. /\ hook'.mounted = hook.mounted /\ hook'.visit = hook.visit
      /\ Reach' = hook.nextBefore /\ hook.mounted
      /\ (hook.overlapped => hook'.overlapped)
      /\ ~hook.loadingHistory /\ ~hook.loadingOlder
      /\ hook'.loadingHistory = hook.loadingHistory /\ hook'.loadingOlder
  BY DEF AskedOlder, SameCursor, Reach
<1>4. \A i \in 1..n : fetches[i].visit = hook.visit => fetches[i].before = 0
  BY <1>2, <1>3 DEF RequestsFit, Mine
<1>5. ~hook'.overlapped => \A i \in 1..n : fetches[i].visit # hook.visit
  BY <1>2, <1>3, <1>4 DEF RequestsFit, Mine
<1>. HIDE DEF n
<1>6. \A i \in 1..(n + 1) : i \in 1..n \/ i = n + 1
  BY <1>2
<1>7. ASSUME NEW i \in 1..(n + 1), fetches'[i].visit = hook.visit,
             fetches'[i].before = 0, ~hook'.overlapped
      PROVE  FALSE
  BY <1>1, <1>2, <1>5, <1>6, <1>7
<1>8. ASSUME NEW i \in 1..(n + 1), fetches'[i].visit = hook.visit, fetches'[i].before # 0
      PROVE  i = n + 1
  BY <1>2, <1>4, <1>6, <1>8
<1>9. ASSUME NEW i \in 1..(n + 1), fetches'[i].visit = hook.visit, fetches'[i].before # 0
      PROVE  OlderAlone(i)'
  BY <1>2, <1>3, <1>8, <1>9 DEF OlderAlone, Mine
<1>10. ASSUME NEW i \in 1..(n + 1), fetches'[i].visit = hook.visit, fetches'[i].before # 0,
              ~hook'.overlapped
       PROVE  OlderFits(fetches[i].before)'
  <2>1. fetches'[i].before <= Reach'
    BY <1>1, <1>2, <1>3, <1>8, <1>10
  <2>. QED  BY <1>2, <1>3, <1>7, <1>10, <2>1 DEF OlderFits, Mine
<1>. QED  BY <1>2, <1>3, <1>7, <1>9, <1>10, RequestsNext

LEMMA AnsweredFits ==
    ASSUME ChatTypeOK, PagesFit, RequestsFit, NEW k \in DOMAIN fetches, AnsweredAt(k)
    PROVE  RequestsFit'
<1>1. /\ DOMAIN fetches' = DOMAIN fetches
      /\ \A j \in DOMAIN fetches :
            fetches'[j].visit = fetches[j].visit /\ fetches'[j].before = fetches[j].before
      /\ \A j \in DOMAIN fetches : j # k => fetches'[j] = fetches[j]
      /\ fetches'[k].page = PageBefore(fetches[k].before)
  BY AnsweredFetches
<1>2. hook' = hook /\ Reach' = Reach
  BY DEF AnsweredAt, Reach
<1>3. ASSUME NEW i \in DOMAIN fetches, Mine(fetches[i]), fetches[i].before # 0, ~hook.overlapped,
             fetches[k].before = 0
      PROVE  fetches[i].before <= First(fetches'[k].page)
  <2>1. /\ fetches[i].before \in Nat \ {0}
        /\ fetches[i].before + PageSize <= Len(origin) + 1
    BY <1>3, FetchTypes DEF PagesFit, FetchFits
  <2>2. origin \in Seq(Connections) /\ readAt \subseteq Stored /\ 0 \in 0..Len(origin)
    BY FetchTypes DEF ChatTypeOK
  <2>3. fetches[i].before <= First(PageBefore(0))
    BY <2>1, <2>2, PageBeforeIsPage
  <2>. QED  BY <1>1, <1>3, <2>3
<1>4. ASSUME NEW i \in DOMAIN fetches, Mine(fetches[i]), fetches[i].before = 0, ~hook.overlapped
      PROVE  FirstFits(i)'
  <2>1. FirstFits(i)
    BY <1>4, RequestsParts
  <2>. QED  BY <1>1, <1>2, <2>1 DEF FirstFits, Mine
<1>5. ASSUME NEW i \in DOMAIN fetches, Mine(fetches[i]), fetches[i].before # 0
      PROVE  OlderAlone(i)'
  <2>1. OlderAlone(i)
    BY <1>5, RequestsParts
  <2>. QED  BY <1>1, <1>2, <2>1 DEF OlderAlone, Mine
<1>6. ASSUME NEW i \in DOMAIN fetches, Mine(fetches[i]), fetches[i].before # 0, ~hook.overlapped
      PROVE  OlderFits(fetches[i].before)'
  <2>1. OlderFits(fetches[i].before)
    BY <1>6, RequestsParts
  <2>2. ASSUME NEW j \in DOMAIN fetches, Mine(fetches[j]), fetches[j].before = 0,
               fetches'[j].answered
        PROVE  fetches[i].before <= First(fetches'[j].page)
    BY <1>1, <1>3, <1>6, <2>1, <2>2 DEF OlderFits
  <2>3. fetches'[i].before <= Reach'
    BY <1>1, <1>2, <2>1 DEF OlderFits
  <2>4. ASSUME NEW j \in DOMAIN fetches', hook'.mounted, fetches'[j].visit = hook'.visit,
               fetches'[j].before = 0, fetches'[j].answered
        PROVE  fetches'[i].before <= First(fetches'[j].page)
    BY <1>1, <1>2, <2>2, <2>4 DEF Mine
  <2>. QED  BY <2>3, <2>4 DEF OlderFits, Mine, First
<1>. QED  BY <1>1, <1>2, <1>4, <1>5, <1>6, RequestsNext DEF Mine

LEMMA DoneWithFits ==
    ASSUME ChatTypeOK, RequestsFit, NEW k \in DOMAIN fetches, DoneWith(k)
    PROVE  RequestsFit'
<1>1. PICK place \in [DOMAIN fetches' -> DOMAIN fetches] :
            /\ \A j \in DOMAIN fetches' : fetches'[j] = fetches[place[j]] /\ place[j] # k
            /\ \A i, j \in DOMAIN fetches' : place[i] = place[j] => i = j
  BY LeftFetches DEF DoneWith
<1>2. \A j \in DOMAIN fetches' : place[j] \in DOMAIN fetches
  BY <1>1
<1>3. /\ hook'.mounted = hook.mounted /\ hook'.visit = hook.visit
      /\ hook.overlapped => hook'.overlapped
  BY DEF DoneWith, SameCursor, PageListed
<1>4. ASSUME NEW i \in DOMAIN fetches', hook.mounted, fetches'[i].visit = hook.visit,
             fetches'[i].before = 0, ~hook'.overlapped
      PROVE  FirstFits(i)'
  <2>1. FirstFits(place[i])
    BY <1>1, <1>2, <1>3, <1>4, RequestsParts DEF Mine
  <2>2. ~Mine(fetches[k]) \/ fetches[k].before # 0
    BY <1>1, <1>4, <2>1 DEF FirstFits
  <2>3. hook'.loadingHistory
    BY <2>1, <2>2 DEF DoneWith, FirstFits
  <2>4. ASSUME NEW j \in DOMAIN fetches', hook.mounted, fetches'[j].visit = hook.visit,
               fetches'[j].before = 0
        PROVE  i = j
    BY <1>1, <1>2, <2>1, <2>4 DEF FirstFits, Mine
  <2>. QED  BY <1>3, <2>3, <2>4 DEF FirstFits, Mine
<1>5. ASSUME NEW i \in DOMAIN fetches', hook.mounted, fetches'[i].visit = hook.visit,
             fetches'[i].before # 0
      PROVE  OlderAlone(i)' /\ ~(Mine(fetches[k]) /\ fetches[k].before # 0)
  <2>1. OlderAlone(place[i])
    BY <1>1, <1>2, <1>3, <1>5, RequestsParts DEF Mine
  <2>2. ~(Mine(fetches[k]) /\ fetches[k].before # 0)
    BY <1>1, <1>5, <2>1 DEF OlderAlone
  <2>3. hook'.loadingOlder
    BY <2>1, <2>2 DEF DoneWith, OlderAlone
  <2>4. ASSUME NEW j \in DOMAIN fetches', hook.mounted, fetches'[j].visit = hook.visit,
               fetches'[j].before # 0
        PROVE  i = j
    BY <1>1, <1>2, <2>1, <2>4 DEF OlderAlone, Mine
  <2>. QED  BY <1>3, <2>2, <2>3, <2>4 DEF OlderAlone, Mine
<1>6. ASSUME NEW i \in DOMAIN fetches', hook.mounted, fetches'[i].visit = hook.visit,
             fetches'[i].before # 0, ~hook'.overlapped
      PROVE  OlderFits(fetches[i].before)'
  <2>1. OlderFits(fetches[place[i]].before)
    BY <1>1, <1>2, <1>3, <1>6, RequestsParts DEF Mine
  <2>2. CASE SameCursor
    <3>1. Reach' = Reach
      BY <2>2 DEF SameCursor, Reach
    <3>2. fetches'[i].before <= Reach'
      BY <1>1, <2>1, <3>1 DEF OlderFits
    <3>3. ASSUME NEW j \in DOMAIN fetches', hook.mounted, fetches'[j].visit = hook.visit,
                 fetches'[j].before = 0, fetches'[j].answered
          PROVE  fetches'[i].before <= First(fetches'[j].page)
      BY <1>1, <1>2, <2>1, <3>3 DEF OlderFits, Mine
    <3>. QED  BY <1>3, <3>2, <3>3 DEF OlderFits, Mine, First
  <2>3. CASE PageListed(fetches[k])
    <3>1. Mine(fetches[k]) /\ fetches[k].answered
      BY <2>3 DEF PageListed, Mine
    <3>2. fetches[k].before = 0
      BY <1>5, <1>6, <3>1
    <3>3. fetches[place[i]].before <= First(fetches[k].page)
      BY <2>1, <3>1, <3>2 DEF OlderFits
    <3>4. Reach' = First(fetches[k].page)
      BY <2>3 DEF PageListed, Reach, First
    <3>5. fetches'[i].before <= Reach'
      BY <1>1, <3>3, <3>4
    <3>6. ASSUME NEW j \in DOMAIN fetches', hook.mounted, fetches'[j].visit = hook.visit,
                 fetches'[j].before = 0, fetches'[j].answered
          PROVE  fetches'[i].before <= First(fetches'[j].page)
      BY <1>1, <1>2, <2>1, <3>6 DEF OlderFits, Mine
    <3>. QED  BY <1>3, <3>5, <3>6 DEF OlderFits, Mine, First
  <2>. QED  BY <2>2, <2>3 DEF DoneWith
<1>. QED  BY <1>3, <1>4, <1>5, <1>6, RequestsNext

LEMMA RequestsStep ==
    ASSUME ChatTypeOK, PagesFit, CursorFits, RequestsFit, [Next]_vars
    PROVE  RequestsFit'
<1>1. hook' \in HookType
  BY HookStep
<1>2. CASE OpenThread /\ Asked(0) /\ hook'.loadingHistory
  <2>. DEFINE n == Len(fetches)
  <2>1. hook'.visit = hook.visit + 1
    <3>. DEFINE u == Unmounted(hook.visit + 1)
                h == [u EXCEPT !.mounted = TRUE]
    <3>1. u \in HookType /\ u.visit = hook.visit + 1
      BY FetchTypes, UnmountedTypeOK
    <3>2. Ask(h, 0)
      BY <1>2 DEF OpenThread
    <3>. HIDE DEF u
    <3>3. h \in HookType /\ h.visit = hook.visit + 1
      BY <3>1 DEF HookType
    <3>. HIDE DEF h
    <3>. QED  BY <3>2, <3>3, HookAsks
  <2>2. /\ DOMAIN fetches' = 1..(n + 1) /\ DOMAIN fetches = 1..n /\ n \in Nat
        /\ \A i \in 1..n : fetches'[i] = fetches[i]
        /\ fetches'[n + 1].before = 0
    BY <1>1, <1>2, AskedFetches, FetchTypes
  <2>3. \A i \in 1..n : fetches[i].visit <= hook.visit /\ fetches[i].visit \in Nat
    BY <2>2, FetchTypes DEF PagesFit, FetchFits
  <2>. HIDE DEF n
  <2>4. \A i \in 1..(n + 1) : i \in 1..n \/ i = n + 1
    BY <2>2
  <2>5. \A i \in DOMAIN fetches' : fetches'[i].visit = hook'.visit => i = n + 1
    BY <2>1, <2>2, <2>3, <2>4, FetchTypes
  <2>6. \A i \in DOMAIN fetches' : fetches'[i].visit = hook'.visit =>
            fetches'[i].before = 0 /\ FirstFits(i)'
    BY <1>2, <2>2, <2>5 DEF FirstFits, Mine
  <2>. QED  BY <2>6, RequestsNext
<1>3. CASE LeaveThread
  <2>1. ~hook'.mounted
    BY <1>3, FetchTypes, UnmountedTypeOK DEF LeaveThread
  <2>. QED  BY <2>1, RequestsNext
<1>4. CASE Untouched
  <2>1. /\ fetches' = fetches /\ hook'.mounted = hook.mounted /\ hook'.visit = hook.visit
        /\ hook'.loadingHistory = hook.loadingHistory /\ hook'.loadingOlder = hook.loadingOlder
        /\ (hook.overlapped => hook'.overlapped) /\ Reach' = Reach
    BY <1>4 DEF Untouched, SameCursor, Reach
  <2>. QED  BY <2>1 DEF RequestsFit, Mine, First
<1>. QED
  BY <1>1, <1>2, <1>3, <1>4, AskedAgainFits, AskedOlderFits, AnsweredFits, DoneWithFits, FetchesStep

-----------------------------------------------------------------------------
(* Messages on their way                                                   *)

\* A connection has one frame to broadcast at a time, and what was written through it passes
\* its consumer and the socket in the order of the rows.
WayInOrder ==
    /\ \A f \in pending : IsNew(f) => f.id \in Stored /\ origin[f.id] = f.from
    /\ \A f, g \in pending : f.from = g.from => f = g
    /\ \A i \in DOMAIN ws.pipe : IsNew(ws.pipe[i]) =>
          /\ ws.pipe[i].id \in Stored /\ origin[ws.pipe[i].id] = ws.pipe[i].from
          /\ \A j \in DOMAIN ws.pipe :
                i < j /\ IsNew(ws.pipe[j]) /\ ws.pipe[j].from = ws.pipe[i].from
                  => ws.pipe[i].id < ws.pipe[j].id
          /\ \A f \in pending : IsNew(f) /\ f.from = ws.pipe[i].from => ws.pipe[i].id < f.id

OnTheWay(m) ==
    \/ \E f \in pending : IsNew(f) /\ f.id = m
    \/ \E i \in DOMAIN ws.pipe : IsNew(ws.pipe[i]) /\ ws.pipe[i].id = m

\* The frame of a message that this step stores.
Fresh(f) ==
    /\ f.id = Len(origin) + 1 /\ Len(origin') = Len(origin) + 1
    /\ origin'[Len(origin) + 1] = f.from
    /\ \A g \in pending : g.from # f.from

LEMMA PendingStep ==
    ASSUME ChatTypeOK, [Next]_vars
    PROVE  /\ \A f \in pending' : f \in pending \/ ~IsNew(f) \/ Fresh(f)
           /\ \A f, g \in pending' : f # g /\ f.from = g.from => f \in pending /\ g \in pending
<1>. DEFINE Goal == /\ \A f \in pending' : f \in pending \/ ~IsNew(f) \/ Fresh(f)
                    /\ \A f, g \in pending' : f # g /\ f.from = g.from => f \in pending /\ g \in pending
<1>1. origin \in Seq(Connections) /\ Len(origin) \in Nat /\ up \in Seq(UpType)
  BY DEF ChatTypeOK
<1>2. ASSUME NEW c \in Connections, ~Busy(c), NEW h, h.from = c, pending' = pending \cup {h},
             ~IsNew(h) \/ Fresh(h)
      PROVE  Goal
  BY <1>2 DEF Busy
<1>3. ASSUME NEW c \in Connections, Stores(c) PROVE Goal
  <2>. DEFINE h == Frame("message.new", c, Len(origin) + 1)
  <2>1. h.from = c /\ h.id = Len(origin) + 1
    BY <1>1, FrameTypeOK
  <2>2. pending' = pending \cup {h} /\ ~Busy(c)
    BY <1>3 DEF Stores
  <2>. HIDE DEF h
  <2>3. Len(origin') = Len(origin) + 1 /\ origin'[Len(origin) + 1] = c
    BY <1>1, <1>3, AppendProperties DEF Stores
  <2>4. Fresh(h)
    BY <2>1, <2>2, <2>3 DEF Fresh, Busy
  <2>. QED  BY <1>2, <2>1, <2>2, <2>4
<1>4. ASSUME NEW c \in Connections, Reports(c) PROVE Goal
  <2>. DEFINE h == Frame("read", c, 0)
  <2>1. h.from = c /\ h.type = "read"
    BY FrameTypeOK
  <2>2. pending' = pending \cup {h} /\ ~Busy(c)
    BY <1>4 DEF Reports
  <2>. HIDE DEF h
  <2>3. ~IsNew(h)
    BY <2>1 DEF IsNew
  <2>. QED  BY <1>2, <2>1, <2>2, <2>3
<1>5. ASSUME NothingNew PROVE Goal
  BY <1>5 DEF NothingNew
<1>. QED  BY <1>1, <1>3, <1>4, <1>5, ServerDoes

\* The frames of a pipe that a step leaves were in it, or come from a consumer.
LEMMA PipeStep ==
    ASSUME ChatTypeOK, [Next]_vars
    PROVE  /\ \A i \in DOMAIN ws'.pipe : IsNew(ws'.pipe[i]) =>
                 \/ \E k \in DOMAIN ws.pipe : ws'.pipe[i] = ws.pipe[k]
                 \/ ws'.pipe[i] \in pending /\ pending' = pending \ {ws'.pipe[i]}
           /\ \A i, j \in DOMAIN ws'.pipe : i < j /\ IsNew(ws'.pipe[i]) /\ IsNew(ws'.pipe[j]) =>
                 \/ \E k, l \in DOMAIN ws.pipe :
                       k < l /\ ws'.pipe[i] = ws.pipe[k] /\ ws'.pipe[j] = ws.pipe[l]
                 \/ \E k \in DOMAIN ws.pipe :
                       ws'.pipe[i] = ws.pipe[k] /\ ws'.pipe[j] \in pending
<1>1. ws.pipe \in Seq(FrameType) /\ pending \subseteq FrameType /\ Len(ws.pipe) \in Nat
      /\ DOMAIN ws.pipe = 1..Len(ws.pipe)
  BY DEF ChatTypeOK, WsType
<1>2. CASE ws'.pipe = ws.pipe
  BY <1>2
<1>3. CASE ws'.pipe = <<>>
  BY <1>3
<1>4. CASE ws'.pipe = Tail(ws.pipe) /\ ws.pipe # <<>>
  <2>1. /\ DOMAIN Tail(ws.pipe) = 1..(Len(ws.pipe) - 1)
        /\ \A i \in 1..(Len(ws.pipe) - 1) : Tail(ws.pipe)[i] = ws.pipe[i + 1]
    BY <1>1, <1>4, HeadTailProperties
  <2>2. \A i, j \in 1..(Len(ws.pipe) - 1) : i + 1 \in DOMAIN ws.pipe /\ (i < j => i + 1 < j + 1)
    BY <1>1
  <2>3. /\ DOMAIN ws'.pipe = 1..(Len(ws.pipe) - 1)
        /\ \A i \in 1..(Len(ws.pipe) - 1) : ws'.pipe[i] = ws.pipe[i + 1]
    BY <1>4, <2>1
  <2>. QED  BY <2>2, <2>3
<1>5. ASSUME NEW frame \in FrameType, ws'.pipe = Append(ws.pipe, frame)
      PROVE  /\ DOMAIN ws'.pipe = 1..(Len(ws.pipe) + 1)
             /\ \A i \in 1..Len(ws.pipe) : ws'.pipe[i] = ws.pipe[i]
             /\ ws'.pipe[Len(ws.pipe) + 1] = frame
  BY <1>1, <1>5, AppendProperties
<1>6. CASE \E f \in pending : Passed(f)
  <2>1. PICK f \in pending : Passed(f)
    BY <1>6
  <2>2. /\ DOMAIN ws'.pipe = 1..(Len(ws.pipe) + 1)
        /\ \A i \in 1..Len(ws.pipe) : ws'.pipe[i] = ws.pipe[i]
        /\ ws'.pipe[Len(ws.pipe) + 1] = f
        /\ pending' = pending \ {f}
    BY <1>1, <1>5, <2>1 DEF Passed
  <2>3. \A i \in 1..(Len(ws.pipe) + 1) : i \in 1..Len(ws.pipe) \/ i = Len(ws.pipe) + 1
    BY <1>1
  <2>4. \A i, j \in 1..(Len(ws.pipe) + 1) : i < j => i \in 1..Len(ws.pipe)
    BY <1>1
  <2>5. ASSUME NEW i \in DOMAIN ws'.pipe
        PROVE  \/ \E k \in DOMAIN ws.pipe : ws'.pipe[i] = ws.pipe[k]
               \/ ws'.pipe[i] \in pending /\ pending' = pending \ {ws'.pipe[i]}
    BY <1>1, <2>2, <2>3
  <2>6. ASSUME NEW i \in DOMAIN ws'.pipe, NEW j \in DOMAIN ws'.pipe, i < j
        PROVE  \/ \E k, l \in DOMAIN ws.pipe :
                     k < l /\ ws'.pipe[i] = ws.pipe[k] /\ ws'.pipe[j] = ws.pipe[l]
               \/ \E k \in DOMAIN ws.pipe : ws'.pipe[i] = ws.pipe[k] /\ ws'.pipe[j] \in pending
    <3>1. i \in DOMAIN ws.pipe /\ ws'.pipe[i] = ws.pipe[i]
      BY <1>1, <2>2, <2>4, <2>6
    <3>2. CASE j \in 1..Len(ws.pipe)
      BY <1>1, <2>2, <2>6, <3>1, <3>2
    <3>3. CASE j = Len(ws.pipe) + 1
      BY <2>2, <3>1, <3>3
    <3>. QED  BY <2>2, <2>3, <3>2, <3>3
  <2>. QED  BY <2>5, <2>6
<1>7. CASE \E f \in FrameType : f.type = "typing" /\ ws'.pipe = Append(ws.pipe, f)
  <2>1. PICK f \in FrameType : f.type = "typing" /\ ws'.pipe = Append(ws.pipe, f)
    BY <1>7
  <2>2. /\ DOMAIN ws'.pipe = 1..(Len(ws.pipe) + 1)
        /\ \A i \in 1..Len(ws.pipe) : ws'.pipe[i] = ws.pipe[i]
        /\ ~IsNew(ws'.pipe[Len(ws.pipe) + 1])
    BY <1>5, <2>1 DEF IsNew
  <2>3. \A i \in 1..(Len(ws.pipe) + 1) : i \in 1..Len(ws.pipe) \/ i = Len(ws.pipe) + 1
    BY <1>1
  <2>. QED  BY <1>1, <2>2, <2>3
<1>. QED  BY <1>2, <1>3, <1>4, <1>6, <1>7, SocketStep

LEMMA WayTypes ==
    ASSUME ChatTypeOK
    PROVE  /\ Len(origin) \in Nat /\ Stored = 1..Len(origin)
           /\ \A m \in Stored : m \in Nat /\ m <= Len(origin)
<1>1. Len(origin) \in Nat
  BY DEF ChatTypeOK
<1>. QED  BY <1>1 DEF Stored

LEMMA WayStep ==
    ASSUME ChatTypeOK, WayInOrder, [Next]_vars
    PROVE  WayInOrder'
<1>1. Len(origin) \in Nat /\ \A m \in Stored : m \in Nat /\ m <= Len(origin)
  BY WayTypes
<1>2. \A m \in Stored : m \in Stored' /\ origin'[m] = origin[m]
  BY ServerGrows
<1>3. \A f \in pending : IsNew(f) => f.id \in Stored /\ origin[f.id] = f.from
  BY DEF WayInOrder
<1>4. \A f \in pending' : f \in pending \/ ~IsNew(f) \/ Fresh(f)
  BY PendingStep
<1>5. ASSUME NEW f \in pending', IsNew(f) PROVE f.id \in Stored' /\ origin'[f.id] = f.from
  <2>1. CASE f \in pending
    BY <1>2, <1>3, <1>5, <2>1
  <2>2. CASE Fresh(f)
    BY <1>1, <2>2 DEF Fresh, Stored
  <2>. QED  BY <1>4, <1>5, <2>1, <2>2
<1>6. ASSUME NEW f \in pending', NEW g \in pending', f.from = g.from PROVE f = g
  BY <1>6, PendingStep DEF WayInOrder
<1>7. ASSUME NEW i \in DOMAIN ws'.pipe, IsNew(ws'.pipe[i])
      PROVE  ws'.pipe[i].id \in Stored /\ origin[ws'.pipe[i].id] = ws'.pipe[i].from
  BY <1>3, <1>7, PipeStep DEF WayInOrder
<1>8. ASSUME NEW i \in DOMAIN ws'.pipe, IsNew(ws'.pipe[i]),
             NEW f \in pending', IsNew(f), f.from = ws'.pipe[i].from
      PROVE  ws'.pipe[i].id < f.id
  <2>1. CASE f \in pending
    <3>1. CASE \E k \in DOMAIN ws.pipe : ws'.pipe[i] = ws.pipe[k]
      BY <1>8, <2>1, <3>1 DEF WayInOrder
    <3>2. CASE ws'.pipe[i] \in pending /\ pending' = pending \ {ws'.pipe[i]}
      <4>1. f = ws'.pipe[i]
        BY <1>8, <2>1, <3>2 DEF WayInOrder
      <4>. QED  BY <3>2, <4>1
    <3>. QED  BY <1>8, <3>1, <3>2, PipeStep
  <2>2. CASE Fresh(f)
    <3>1. ws'.pipe[i].id <= Len(origin) /\ ws'.pipe[i].id \in Nat
      BY <1>1, <1>7, <1>8
    <3>. QED  BY <1>1, <2>2, <3>1 DEF Fresh
  <2>. QED  BY <1>4, <1>8, <2>1, <2>2
<1>9. ASSUME NEW i \in DOMAIN ws'.pipe, NEW j \in DOMAIN ws'.pipe, i < j,
             IsNew(ws'.pipe[i]), IsNew(ws'.pipe[j]), ws'.pipe[j].from = ws'.pipe[i].from
      PROVE  ws'.pipe[i].id < ws'.pipe[j].id
  BY <1>9, PipeStep DEF WayInOrder
<1>10. \A i \in DOMAIN ws'.pipe : IsNew(ws'.pipe[i]) =>
          ws'.pipe[i].id \in Stored' /\ origin'[ws'.pipe[i].id] = ws'.pipe[i].from
  BY <1>2, <1>7
<1>. QED  BY <1>5, <1>6, <1>8, <1>9, <1>10 DEF WayInOrder, IsNew

\* Nothing gets under way but what has just been stored.
LEMMA UnderWayStep ==
    ASSUME ChatTypeOK, [Next]_vars, NEW m, OnTheWay(m)'
    PROVE  OnTheWay(m) \/ (m = Len(origin) + 1 /\ Len(origin') = Len(origin) + 1)
<1>1. ASSUME NEW f \in pending', IsNew(f), f.id = m
      PROVE  OnTheWay(m) \/ (m = Len(origin) + 1 /\ Len(origin') = Len(origin) + 1)
  BY <1>1, PendingStep DEF OnTheWay, Fresh
<1>2. ASSUME NEW i \in DOMAIN ws'.pipe, IsNew(ws'.pipe[i]), ws'.pipe[i].id = m
      PROVE  OnTheWay(m)
  BY <1>2, PipeStep DEF OnTheWay
<1>. QED  BY <1>1, <1>2 DEF OnTheWay, IsNew

LEMMA UnderWayIsStored ==
    ASSUME WayInOrder, NEW m, OnTheWay(m)
    PROVE  m \in Stored
BY DEF WayInOrder, OnTheWay

\* The echo that is handled is stored, and its connection has nothing older behind it.
LEMMA EchoIsFirst ==
    ASSUME ChatTypeOK, WayInOrder, [Next]_vars, HandleFrame, IsNew(Head(ws.pipe))
    PROVE  /\ Head(ws.pipe).id \in Stored /\ OnTheWay(Head(ws.pipe).id)
           /\ \A m \in Stored :
                 OnTheWay(m)' /\ origin[m] = origin[Head(ws.pipe).id] => Head(ws.pipe).id < m
<1>1. /\ ws \in WsType /\ ws.pipe \in Seq(FrameType) /\ ws.pipe # <<>> /\ Len(ws.pipe) \in Nat
      /\ DOMAIN ws.pipe = 1..Len(ws.pipe)
  BY DEF ChatTypeOK, WsType, HandleFrame
<1>2. 1 \in DOMAIN ws.pipe /\ ws.pipe[1] = Head(ws.pipe)
  BY <1>1
<1>3. /\ ws.pipe[1].id \in Stored /\ origin[ws.pipe[1].id] = ws.pipe[1].from
      /\ \A j \in DOMAIN ws.pipe :
            1 < j /\ IsNew(ws.pipe[j]) /\ ws.pipe[j].from = ws.pipe[1].from => ws.pipe[1].id < ws.pipe[j].id
      /\ \A f \in pending : IsNew(f) /\ f.from = ws.pipe[1].from => ws.pipe[1].id < f.id
  BY <1>2 DEF WayInOrder
<1>4. OnTheWay(ws.pipe[1].id)
  BY <1>2 DEF OnTheWay
<1>5. pending' = pending /\ ws'.pipe = Tail(ws.pipe)
  <2>1. ws' = [ws EXCEPT !.pipe = Tail(ws.pipe)]
    BY DEF HandleFrame
  <2>. QED  BY <1>1, <2>1 DEF HandleFrame, server, WsType
<1>6. /\ DOMAIN Tail(ws.pipe) = 1..(Len(ws.pipe) - 1)
      /\ \A i \in 1..(Len(ws.pipe) - 1) :
            Tail(ws.pipe)[i] = ws.pipe[i + 1] /\ i + 1 \in DOMAIN ws.pipe /\ 1 < i + 1
  BY <1>1, HeadTailProperties
<1>7. ASSUME NEW m \in Stored, OnTheWay(m)', origin[m] = origin[ws.pipe[1].id]
      PROVE  ws.pipe[1].id < m
  <2>1. CASE \E f \in pending : IsNew(f) /\ f.id = m
    BY <1>3, <1>7, <2>1 DEF WayInOrder
  <2>2. CASE \E i \in DOMAIN Tail(ws.pipe) : IsNew(Tail(ws.pipe)[i]) /\ Tail(ws.pipe)[i].id = m
    <3>1. PICK j \in DOMAIN ws.pipe : 1 < j /\ IsNew(ws.pipe[j]) /\ ws.pipe[j].id = m
      BY <1>6, <2>2
    <3>2. origin[m] = ws.pipe[j].from
      BY <3>1 DEF WayInOrder
    <3>. QED  BY <1>3, <1>7, <3>1, <3>2
  <2>3. \/ \E f \in pending' : IsNew(f) /\ f.id = m
        \/ \E i \in DOMAIN ws'.pipe : IsNew(ws'.pipe[i]) /\ ws'.pipe[i].id = m
    BY <1>7 DEF OnTheWay, IsNew
  <2>. QED  BY <1>5, <2>1, <2>2, <2>3
<1>. QED  BY <1>2, <1>3, <1>4, <1>7

-----------------------------------------------------------------------------
(* The list                                                                *)

\* What is on its way through the connection that brought x is newer than x.
Ahead(x) == \A m \in Stored : OnTheWay(m) /\ origin[m] = origin[x] => x < m

FitsAt(x) == x >= Reach /\ (x > hook.upTo => Ahead(x))

\* The list starts at its reach; behind what its first page found there are echoes only, and
\* what is still on its way comes behind all that its connection has there.
ListFits ==
    ~hook.overlapped =>
        /\ Reach <= hook.upTo + 1
        /\ ~hook.straggled => \A x \in Shown : FitsAt(x)

LEMMA ListTypes ==
    ASSUME ChatTypeOK
    PROVE  /\ hook.messages \in Seq(MessageType) /\ Len(hook.messages) \in Nat
           /\ DOMAIN hook.messages = 1..Len(hook.messages)
           /\ \A i \in 1..Len(hook.messages) :
                 hook.messages[i].id \in Stored /\ hook.messages[i].id \in Shown
           /\ Shown = {hook.messages[i].id : i \in 1..Len(hook.messages)}
           /\ Reach \in Nat /\ hook.upTo \in Nat
<1>1. hook \in HookType /\ Shown \subseteq Stored
  BY DEF ChatTypeOK
<1>2. hook.messages \in Seq(MessageType) /\ hook.nextBefore \in Nat /\ hook.upTo \in Nat
  BY <1>1 DEF HookType
<1>3. Len(hook.messages) \in Nat /\ DOMAIN hook.messages = 1..Len(hook.messages)
  BY <1>2, LenProperties
<1>4. \A i \in 1..Len(hook.messages) : hook.messages[i].id \in Shown
  BY <1>3 DEF Shown
<1>5. Shown = {hook.messages[i].id : i \in 1..Len(hook.messages)}
  BY <1>3 DEF Shown
<1>. QED  BY <1>1, <1>2, <1>3, <1>4, <1>5 DEF Reach

LEMMA ShownNext ==
    ASSUME ChatTypeOK, [Next]_vars
    PROVE  /\ hook'.messages \in Seq(MessageType) /\ Len(hook'.messages) \in Nat
           /\ DOMAIN hook'.messages = 1..Len(hook'.messages)
           /\ Shown' = {hook'.messages[i].id : i \in 1..Len(hook'.messages)}
<1>1. hook'.messages \in Seq(MessageType)
  BY HookStep DEF HookType
<1>2. Len(hook'.messages) \in Nat /\ DOMAIN hook'.messages = 1..Len(hook'.messages)
  BY <1>1, LenProperties
<1>. QED  BY <1>1, <1>2 DEF Shown

LEMMA AheadStays ==
    ASSUME ChatTypeOK, WayInOrder, [Next]_vars, NEW x \in Stored, Ahead(x)
    PROVE  Ahead(x)'
<1>1. x \in Nat /\ x <= Len(origin) /\ Len(origin) \in Nat
  BY WayTypes
<1>2. ASSUME NEW m \in Stored', OnTheWay(m)', origin'[m] = origin'[x] PROVE x < m
  <2>1. CASE OnTheWay(m)
    <3>1. m \in Stored
      BY <2>1, UnderWayIsStored
    <3>2. origin[m] = origin[x]
      BY <1>2, <3>1, ServerGrows
    <3>. QED  BY <2>1, <3>1, <3>2 DEF Ahead
  <2>2. CASE m = Len(origin) + 1
    BY <1>1, <2>2
  <2>. QED  BY <1>2, <2>1, <2>2, UnderWayStep
<1>. QED  BY <1>2 DEF Ahead

LEMMA FitsStays ==
    ASSUME ChatTypeOK, WayInOrder, [Next]_vars, SameCursor, NEW x \in Stored, FitsAt(x)
    PROVE  FitsAt(x)'
<1>1. Reach' = Reach /\ hook'.upTo = hook.upTo
  BY DEF SameCursor, Reach
<1>2. x > hook.upTo => Ahead(x)'
  BY AheadStays DEF FitsAt
<1>. QED  BY <1>1, <1>2 DEF FitsAt

ListGoal == Shown \subseteq Stored /\ ListFits /\ ListedOnceInOrder

Order(list, rows) ==
    \A i, j \in DOMAIN list : i < j /\ rows[list[i].id] = rows[list[j].id] => list[i].id < list[j].id

LEMMA OrderIs ==
    ListedOnceInOrder <=> (~hook.overlapped /\ ~hook.straggled => Order(hook.messages, origin))
BY DEF ListedOnceInOrder, Order

LEMMA OrderNext ==
    ASSUME ~hook'.overlapped /\ ~hook'.straggled => Order(hook'.messages, origin')
    PROVE  ListedOnceInOrder'
BY DEF ListedOnceInOrder, Order

LEMMA SameListStep ==
    ASSUME ChatTypeOK, WayInOrder, ListFits, ListedOnceInOrder, [Next]_vars, SameList
    PROVE  ListGoal'
<1>. DEFINE n == Len(hook.messages)
<1>1. /\ n \in Nat /\ DOMAIN hook.messages = 1..n /\ DOMAIN hook'.messages = 1..n
      /\ \A i \in 1..n :
            hook'.messages[i].id = hook.messages[i].id /\ hook.messages[i].id \in Stored
      /\ Len(hook'.messages) = n
  BY ListTypes, ShownNext DEF SameList
<1>2. /\ SameCursor /\ Reach' = Reach /\ hook'.upTo = hook.upTo
      /\ (hook.overlapped => hook'.overlapped) /\ (hook.straggled => hook'.straggled)
  BY DEF SameList, SameCursor, Reach
<1>3. Shown' = Shown
  <2>1. Shown = {hook.messages[i].id : i \in 1..n}
    BY <1>1 DEF Shown
  <2>2. Shown' = {hook'.messages[i].id : i \in 1..n}
    BY <1>1 DEF Shown
  <2>. HIDE DEF n
  <2>. QED  BY <1>1, <2>1, <2>2
<1>4. \A m \in Stored : m \in Stored' /\ origin'[m] = origin[m]
  BY ServerGrows
<1>5. Shown \subseteq Stored
  BY DEF ChatTypeOK
<1>6. \A x \in Shown : FitsAt(x) => FitsAt(x)'
  BY <1>2, <1>5, FitsStays
<1>7. ListFits'
  BY <1>2, <1>3, <1>6 DEF ListFits
<1>. HIDE DEF n
<1>8. ASSUME ~hook'.overlapped, ~hook'.straggled PROVE Order(hook'.messages, origin')
  <2>1. Order(hook.messages, origin)
    BY <1>2, <1>8, OrderIs
  <2>. QED  BY <1>1, <1>4, <2>1 DEF Order
<1>9. ListedOnceInOrder'
  BY <1>8, OrderNext
<1>. QED  BY <1>3, <1>4, <1>5, <1>7, <1>9 DEF ListGoal

LEMMA EchoStep ==
    ASSUME ChatTypeOK, WayInOrder, ListFits, ListedOnceInOrder, [Next]_vars, EchoListed
    PROVE  ListGoal'
<1>. DEFINE n == Len(hook.messages)
<1>. PICK e : e = Head(ws.pipe).id
  OBVIOUS
<1>1. /\ e \in Stored /\ e \notin Shown
      /\ \A m \in Stored : OnTheWay(m)' /\ origin[m] = origin[e] => e < m
  BY EchoIsFirst DEF EchoListed
<1>2. OnTheWay(e)
  BY EchoIsFirst DEF EchoListed
<1>3. /\ SameCursor /\ Reach' = Reach /\ hook'.upTo = hook.upTo
      /\ (hook.overlapped => hook'.overlapped) /\ (hook.straggled => hook'.straggled)
      /\ e <= hook.upTo => hook'.straggled
      /\ origin' = origin /\ Stored' = Stored
  BY DEF EchoListed, SameCursor, Reach, HandleFrame, server, Stored
<1>4. hook'.messages = Append(hook.messages, Echo(e))
  BY DEF EchoListed
<1>5. /\ n \in Nat /\ hook.messages \in Seq(MessageType) /\ e \in Nat
      /\ hook.upTo \in Nat /\ Reach \in Nat /\ DOMAIN hook.messages = 1..n
      /\ \A i \in 1..n : hook.messages[i].id \in Stored /\ hook.messages[i].id \in Shown
      /\ \A m \in Stored : m \in Nat
  BY <1>1, ListTypes, WayTypes
<1>6. /\ DOMAIN hook'.messages = 1..(n + 1)
      /\ \A i \in 1..n : hook'.messages[i] = hook.messages[i]
      /\ hook'.messages[n + 1].id = e
  BY <1>4, <1>5, EchoTypeOK, AppendProperties
<1>. HIDE DEF n
<1>7. \A i \in 1..(n + 1) : i \in 1..n \/ i = n + 1
  BY <1>5
<1>8. \A x \in Shown' : x \in Shown \/ x = e
  BY <1>5, <1>6, <1>7, ShownNext
<1>9. Shown' \subseteq Stored'
  BY <1>1, <1>3, <1>8 DEF ChatTypeOK
<1>10. ASSUME ~hook'.overlapped, ~hook'.straggled
       PROVE  e > hook.upTo /\ FitsAt(e)' /\ \A x \in Shown : FitsAt(x)
  <2>1. Reach <= hook.upTo + 1 /\ \A x \in Shown : FitsAt(x)
    BY <1>3, <1>10 DEF ListFits
  <2>2. e > hook.upTo /\ e >= Reach
    BY <1>3, <1>5, <1>10, <2>1
  <2>3. Ahead(e)'
    BY <1>1, <1>3 DEF Ahead
  <2>. QED  BY <1>3, <2>1, <2>2, <2>3 DEF FitsAt
<1>11. ListFits'
  <2>1. ~hook'.overlapped => Reach' <= hook'.upTo + 1
    BY <1>3 DEF ListFits
  <2>2. ASSUME ~hook'.overlapped, ~hook'.straggled, NEW x \in Shown' PROVE FitsAt(x)'
    <3>1. CASE x = e
      BY <1>10, <2>2, <3>1
    <3>2. CASE x \in Shown
      <4>1. x \in Stored /\ FitsAt(x)
        BY <1>10, <2>2, <3>2 DEF ChatTypeOK
      <4>. QED  BY <1>3, <4>1, FitsStays
    <3>. QED  BY <1>8, <2>2, <3>1, <3>2
  <2>. QED  BY <2>1, <2>2 DEF ListFits
<1>12. ASSUME ~hook'.overlapped, ~hook'.straggled PROVE Order(hook'.messages, origin')
  <2>. SUFFICES ASSUME NEW i \in 1..(n + 1), NEW j \in 1..(n + 1), i < j,
                       origin[hook'.messages[i].id] = origin[hook'.messages[j].id]
                PROVE  hook'.messages[i].id < hook'.messages[j].id
    BY <1>3, <1>6 DEF Order
  <2>1. i \in 1..n /\ hook'.messages[i] = hook.messages[i]
    BY <1>5, <1>6
  <2>2. CASE j \in 1..n
    <3>1. Order(hook.messages, origin)
      BY <1>3, <1>12, OrderIs
    <3>. QED  BY <1>5, <1>6, <2>1, <2>2, <3>1 DEF Order
  <2>3. CASE j = n + 1
    <3>. DEFINE x == hook.messages[i].id
    <3>1. x \in Shown /\ x \in Nat /\ origin[x] = origin[e] /\ hook'.messages[j].id = e
      BY <1>5, <1>6, <2>1, <2>3
    <3>. HIDE DEF x
    <3>2. FitsAt(x) /\ e > hook.upTo
      BY <1>10, <1>12, <3>1
    <3>3. x > hook.upTo => x < e
      BY <1>1, <1>2, <3>1, <3>2 DEF FitsAt, Ahead
    <3>4. x < e
      BY <1>5, <3>1, <3>2, <3>3
    <3>. QED  BY <2>1, <3>1, <3>4 DEF x
  <2>. QED  BY <1>7, <2>2, <2>3
<1>13. ListedOnceInOrder'
  BY <1>12, OrderNext
<1>. QED  BY <1>9, <1>11, <1>13 DEF ListGoal

\* A page is listed in order.
LEMMA PageIsSorted ==
    ASSUME ChatTypeOK, NEW page \in PageType, NEW before \in Nat, NEW old \in BOOLEAN,
           IsPage(page, before, Len(origin))
    PROVE  /\ Len(page.ids) \in Nat /\ AsMessages(page, old) \in Seq(MessageType)
           /\ DOMAIN AsMessages(page, old) = 1..Len(page.ids)
           /\ Len(AsMessages(page, old)) = Len(page.ids)
           /\ \A i \in 1..Len(page.ids) :
                 /\ AsMessages(page, old)[i].id \in Stored
                 /\ AsMessages(page, old)[i].id = First(page) + i - 1
                 /\ before # 0 => AsMessages(page, old)[i].id < before
           /\ First(page) \in Nat \ {0} /\ (before # 0 => First(page) <= before)
<1>1. page.ids \in Seq(Nat) /\ page.next_before \in Nat /\ Len(page.ids) \in Nat
      /\ DOMAIN page.ids = 1..Len(page.ids)
  BY DEF PageType
<1>2. /\ Len(AsMessages(page, old)) = Len(page.ids)
      /\ AsMessages(page, old) \in Seq(MessageType)
      /\ \A i \in 1..Len(page.ids) : AsMessages(page, old)[i].id = page.ids[i]
  BY AsMessagesTypeOK
<1>3. DOMAIN AsMessages(page, old) = 1..Len(page.ids)
  BY <1>2, LenProperties
<1>4. \A i \in 1..Len(page.ids) :
          /\ page.ids[i] = First(page) + i - 1
          /\ page.ids[i] \in 1..Len(origin)
          /\ before # 0 => page.ids[i] < before
  BY <1>1 DEF IsPage
<1>5. First(page) \in Nat \ {0} /\ (before # 0 => First(page) <= before)
  BY <1>1 DEF IsPage, First
<1>. QED  BY <1>1, <1>2, <1>3, <1>4, <1>5 DEF Stored

LEMMA NewestReaches ==
    ASSUME NEW page \in PageType, NEW stored \in Nat, IsPage(page, 0, stored)
    PROVE  /\ Newest(page) \in Nat /\ First(page) <= Newest(page) + 1
           /\ \A i \in 1..Len(page.ids) : page.ids[i] <= Newest(page)
<1>. DEFINE n == Len(page.ids)
<1>1. page.ids \in Seq(Nat) /\ page.next_before \in Nat /\ n \in Nat /\ DOMAIN page.ids = 1..n
  BY DEF PageType
<1>2. /\ \A i \in 1..n : page.ids[i] = First(page) + i - 1
      /\ page.ids = <<>> => First(page) = 1
      /\ First(page) \in Nat \ {0}
  <2>1. \A i \in 1..n : page.ids[i] = First(page) + i - 1
    BY <1>1 DEF IsPage
  <2>2. /\ page.has_more => page.next_before > 0 /\ page.ids # <<>> /\ First(page) = page.next_before
        /\ ~page.has_more => First(page) = 1
    BY DEF IsPage, First
  <2>. QED  BY <1>1, <2>1, <2>2
<1>3. CASE page.ids = <<>>
  BY <1>1, <1>2, <1>3 DEF Newest
<1>4. CASE page.ids # <<>>
  <2>1. n \in 1..n
    BY <1>1, <1>4, EmptySeq
  <2>2. Newest(page) = First(page) + n - 1
    BY <1>2, <1>4, <2>1 DEF Newest, Last
  <2>. HIDE DEF n
  <2>3. \A i \in 1..n : First(page) + i - 1 <= First(page) + n - 1
    BY <1>1, <1>2
  <2>4. First(page) + n - 1 \in Nat /\ First(page) <= First(page) + n - 1 + 1
    BY <1>1, <1>2, <2>1
  <2>. QED  BY <1>2, <2>2, <2>3, <2>4 DEF n
<1>. QED  BY <1>3, <1>4

LEMMA FirstPageStep ==
    ASSUME ChatTypeOK, PagesFit, [Next]_vars,
           NEW k \in DOMAIN fetches, PageListed(fetches[k]), fetches[k].before = 0
    PROVE  ListGoal'
<1>. DEFINE page == fetches[k].page
            n == Len(page.ids)
            first == First(page)
            list == AsMessages(page, FALSE)
<1>1. page \in PageType /\ Len(origin) \in Nat
  BY FetchTypes
<1>2. IsPage(page, 0, Len(origin))
  BY DEF PageListed, PagesFit, FetchFits
<1>3. /\ hook'.messages = list /\ hook'.upTo = Newest(page) /\ Reach' = first
      /\ UNCHANGED server
  BY DEF PageListed, Reach, First
<1>4. /\ n \in Nat /\ DOMAIN list = 1..n /\ first \in Nat \ {0}
      /\ \A i \in 1..n : list[i].id \in Stored /\ list[i].id = first + i - 1
  <2>1. 0 \in Nat /\ FALSE \in BOOLEAN
    OBVIOUS
  <2>. QED  BY <1>1, <1>2, <2>1, PageIsSorted
<1>5. /\ Newest(page) \in Nat /\ first <= Newest(page) + 1
      /\ \A i \in 1..n : list[i].id <= Newest(page)
  BY <1>1, <1>2, NewestReaches, AsMessagesTypeOK
<1>. HIDE DEF page, n, first, list
<1>6. Stored' = Stored
  BY <1>3 DEF server, Stored
<1>7. Shown' = {list[i].id : i \in 1..n} /\ DOMAIN hook'.messages = 1..n
  BY <1>3, <1>4, ShownNext DEF Shown
<1>8. ASSUME NEW x \in Shown' PROVE x \in Stored' /\ FitsAt(x)'
  <2>1. PICK i \in 1..n : x = list[i].id
    BY <1>7, <1>8
  <2>2. x \in Nat /\ x >= first /\ x <= Newest(page)
    BY <1>4, <1>5, <2>1
  <2>3. x >= Reach' /\ ~(x > hook'.upTo)
    BY <1>3, <1>5, <2>2
  <2>. QED  BY <1>4, <1>6, <2>1, <2>3 DEF FitsAt
<1>9. ListFits'
  BY <1>3, <1>5, <1>8 DEF ListFits
<1>10. Order(hook'.messages, origin')
  BY <1>3, <1>4 DEF Order
<1>11. ListedOnceInOrder'
  BY <1>10, OrderNext
<1>. QED  BY <1>8, <1>9, <1>11 DEF ListGoal

LEMMA OlderPageStep ==
    ASSUME ChatTypeOK, PagesFit, WayInOrder, RequestsFit, ListFits, ListedOnceInOrder, [Next]_vars,
           NEW k \in DOMAIN fetches, PageListed(fetches[k]), fetches[k].before # 0
    PROVE  ListGoal'
<1>. DEFINE page == fetches[k].page
            before == fetches[k].before
            n == Len(page.ids)
            old == Len(hook.messages)
            first == First(page)
            front == AsMessages(page, TRUE)
<1>1. page \in PageType /\ before \in Nat
  BY FetchTypes
<1>2. IsPage(page, before, Len(origin))
  BY DEF PageListed, PagesFit, FetchFits
<1>3. /\ hook'.messages = front \o hook.messages /\ Reach' = first /\ hook'.upTo = hook.upTo
      /\ UNCHANGED server /\ hook'.overlapped = hook.overlapped /\ hook'.straggled = hook.straggled
  BY DEF PageListed, Reach, First
<1>4. ~hook.overlapped => before <= Reach
  BY DEF PageListed, RequestsFit, Mine
<1>5. /\ n \in Nat /\ front \in Seq(MessageType) /\ Len(front) = n /\ first \in Nat \ {0}
      /\ first <= before
      /\ \A i \in 1..n : front[i].id \in Stored /\ front[i].id = first + i - 1 /\ front[i].id < before
  BY <1>1, <1>2, PageIsSorted
<1>6. /\ old \in Nat /\ hook.messages \in Seq(MessageType) /\ DOMAIN hook.messages = 1..old
      /\ \A i \in 1..old : hook.messages[i].id \in Stored /\ hook.messages[i].id \in Shown
      /\ Reach \in Nat /\ hook.upTo \in Nat /\ \A m \in Stored : m \in Nat
  BY ListTypes, WayTypes
<1>. HIDE DEF page, before, n, first, front
<1>7. /\ Len(hook'.messages) = n + old
      /\ \A i \in 1..(n + old) :
            hook'.messages[i] = IF i <= n THEN front[i] ELSE hook.messages[i - n]
  <2>1. /\ Len(front \o hook.messages) = Len(front) + Len(hook.messages)
        /\ \A i \in 1..(Len(front) + Len(hook.messages)) :
              (front \o hook.messages)[i] = IF i <= Len(front) THEN front[i]
                                                                ELSE hook.messages[i - Len(front)]
    BY <1>5, <1>6, ConcatProperties
  <2>. QED  BY <1>3, <1>5, <2>1
<1>. HIDE DEF old
<1>8. origin' = origin /\ Stored' = Stored
  BY <1>3 DEF server, Stored
<1>9. \A i \in 1..(n + old) :
          \/ i \in 1..n /\ hook'.messages[i].id = front[i].id
          \/ i > n /\ i - n \in 1..old /\ hook'.messages[i].id = hook.messages[i - n].id
  <2>1. \A i \in 1..(n + old) : (i <= n /\ i \in 1..n) \/ (~(i <= n) /\ i > n /\ i - n \in 1..old)
    BY <1>5, <1>6
  <2>. QED  BY <1>7, <2>1
<1>10. ASSUME NEW x \in Shown' PROVE x \in Shown \/ \E i \in 1..n : x = front[i].id
  BY <1>6, <1>7, <1>9, <1>10, ShownNext
<1>11. Shown' \subseteq Stored'
  <2>1. Shown \subseteq Stored
    BY DEF ChatTypeOK
  <2>. QED  BY <1>5, <1>8, <1>10, <2>1
<1>12. ~hook.overlapped => Reach <= hook.upTo + 1
  BY DEF ListFits
<1>13. ASSUME ~hook.overlapped, ~hook.straggled, NEW x \in Shown' PROVE FitsAt(x)'
  <2>1. CASE x \in Shown
    <3>1. x \in Stored /\ FitsAt(x)
      BY <1>13, <2>1 DEF ListFits, ChatTypeOK
    <3>2. x > hook.upTo => Ahead(x)'
      BY <3>1, AheadStays DEF FitsAt
    <3>3. x \in Nat /\ x >= Reach
      BY <1>6, <3>1 DEF FitsAt
    <3>4. x >= Reach'
      BY <1>1, <1>3, <1>4, <1>5, <1>6, <1>13, <3>3
    <3>. QED  BY <1>3, <3>2, <3>4 DEF FitsAt
  <2>2. CASE \E i \in 1..n : x = front[i].id
    <3>1. PICK i \in 1..n : x = front[i].id
      BY <2>2
    <3>2. x \in Nat /\ x >= first /\ x < before
      BY <1>5, <1>6, <3>1
    <3>3. ~(x > hook.upTo)
      BY <1>1, <1>4, <1>6, <1>12, <1>13, <3>2
    <3>. QED  BY <1>3, <3>2, <3>3 DEF FitsAt
  <2>. QED  BY <1>10, <1>13, <2>1, <2>2
<1>14. ListFits'
  <2>1. ~hook'.overlapped => Reach' <= hook'.upTo + 1
    BY <1>1, <1>3, <1>4, <1>5, <1>6, <1>12
  <2>. QED  BY <1>3, <1>13, <2>1 DEF ListFits
<1>15. ASSUME ~hook.overlapped, ~hook.straggled PROVE Order(hook'.messages, origin')
  <2>. SUFFICES ASSUME NEW i \in 1..(n + old), NEW j \in 1..(n + old), i < j,
                       origin[hook'.messages[i].id] = origin[hook'.messages[j].id]
                PROVE  hook'.messages[i].id < hook'.messages[j].id
    BY <1>7, <1>8, ShownNext DEF Order
  <2>1. CASE i \in 1..n /\ j \in 1..n /\ hook'.messages[i].id = front[i].id
             /\ hook'.messages[j].id = front[j].id
    BY <1>5, <2>1
  <2>2. CASE i \in 1..n /\ hook'.messages[i].id = front[i].id /\ j > n /\ j - n \in 1..old
             /\ hook'.messages[j].id = hook.messages[j - n].id
    <3>. DEFINE x == hook.messages[j - n].id
    <3>1. x \in Shown /\ x \in Nat
      BY <1>6, <2>2
    <3>. HIDE DEF x
    <3>2. x >= Reach
      BY <1>15, <3>1 DEF ListFits, FitsAt
    <3>3. front[i].id < before /\ front[i].id \in Nat
      BY <1>5, <1>6, <2>2
    <3>4. front[i].id < x
      BY <1>1, <1>4, <1>6, <1>15, <3>1, <3>2, <3>3
    <3>. QED  BY <2>2, <3>4 DEF x
  <2>3. CASE i > n /\ i - n \in 1..old /\ hook'.messages[i].id = hook.messages[i - n].id
             /\ j > n /\ j - n \in 1..old /\ hook'.messages[j].id = hook.messages[j - n].id
    <3>1. Order(hook.messages, origin)
      BY <1>15, OrderIs
    <3>2. i - n < j - n
      BY <1>5
    <3>. QED  BY <1>6, <2>3, <3>1, <3>2 DEF Order
  <2>4. CASE i > n /\ j \in 1..n
    BY <1>5, <2>4
  <2>. QED  BY <1>9, <2>1, <2>2, <2>3, <2>4
<1>16. ListedOnceInOrder'
  BY <1>3, <1>15, OrderNext
<1>. QED  BY <1>11, <1>14, <1>16 DEF ListGoal

LEMMA ListStep ==
    ASSUME ChatTypeOK, PagesFit, WayInOrder, RequestsFit, ListFits, ListedOnceInOrder, [Next]_vars
    PROVE  ListGoal'
<1>1. CASE Emptied
  <2>1. hook'.messages = <<>> /\ hook'.upTo = 0 /\ Reach' = 1
    BY <1>1 DEF Emptied, Reach
  <2>2. Shown' = {}
    BY <2>1, ShownNext
  <2>. QED  BY <2>1, <2>2 DEF ListGoal, ListFits, ListedOnceInOrder
<1>2. CASE \E k \in DOMAIN fetches : PageListed(fetches[k])
  BY <1>2, FirstPageStep, OlderPageStep
<1>. QED  BY <1>1, <1>2, SameListStep, EchoStep, HookStep

-----------------------------------------------------------------------------
(* The theorems                                                            *)

ChatInv ==
    /\ ChatTypeOK /\ PagesFit /\ CursorFits /\ RequestsFit
    /\ WayInOrder /\ ListFits /\ ListedOnceInOrder

LEMMA PlainTypesOK ==
    ASSUME ChatTypeOK, [Next]_vars
    PROVE  held' \in {"fresh", "stale"} /\ posts' \in BOOLEAN
<1>1. held \in {"fresh", "stale"} /\ posts \in BOOLEAN
  BY DEF ChatTypeOK
<1>2. CASE AnswerHistory \/ AnswerPost \/ TokenExpires \/ FailPost
  BY <1>1, <1>2 DEF AnswerHistory, AnswerPost, TokenExpires, FailPost, Refreshed
<1>3. CASE HistoryArrives
  <2>1. PICK i \in DOMAIN fetches : posts' = (posts \/ (fetches[i].before = 0 /\ HoldsUnread(fetches[i].page)))
    BY <1>3 DEF HistoryArrives, MarkReadIfNeeded
  <2>2. HoldsUnread(fetches[i].page) \in BOOLEAN
    BY DEF HoldsUnread
  <2>. QED  BY <1>1, <1>3, <2>1, <2>2 DEF HistoryArrives, server
<1>4. CASE HandleFrame
  <2>1. posts' = posts \/ posts' = (posts \/ Head(ws.pipe).from.user = "them")
    BY <1>4 DEF HandleFrame, MarkReadIfNeeded
  <2>2. held' = held
    BY <1>4 DEF HandleFrame
  <2>. QED  BY <1>1, <2>1, <2>2
<1>. QED
  BY <1>1, <1>2, <1>3, <1>4
     DEF Next, ServerStep, BrowserStep, Environment, vars, FinishHandler, Receive, Handshake, OnOpen,
         OnClose, Reconnect, TypingTimeout, PeerSend, PeerRead, PeerType, Drop, HistoryFails,
         OpenThread, LeaveThread, LoadOlder, Submit

LEMMA BudgetTypeOK ==
    ASSUME budget \in BudgetType, [Next]_vars
    PROVE  budget' \in BudgetType
<1>1. CASE FailPost
  <2>1. /\ budget.posts > 0
        /\ budget' = [budget EXCEPT !.posts = budget.posts - 1, !.lost = budget.lost + 1]
    BY <1>1 DEF FailPost
  <2>2. budget.posts - 1 \in Nat /\ budget.lost + 1 \in Nat
    BY <2>1 DEF BudgetType
  <2>. QED  BY <2>1, <2>2 DEF BudgetType
<1>2. \/ UNCHANGED budget \/ FailPost
      \/ \E what \in {"theirs", "aside", "mine", "reads", "typing", "visits", "drops", "expiries",
                      "failures", "posts"} : Spend(what)
  BY DEF Next, ServerStep, BrowserStep, Environment, vars, FinishHandler, Receive, Handshake,
         AnswerHistory, AnswerPost, OnOpen, OnClose, Reconnect, HistoryArrives, HandleFrame,
         TypingTimeout, PeerSend, PeerRead, PeerType, Drop, TokenExpires, HistoryFails, OpenThread,
         LeaveThread, LoadOlder, Submit
<1>. QED  BY <1>1, <1>2, SpendTypeOK

LEMMA ChatInit == Init => ChatInv
<1>. SUFFICES ASSUME Init PROVE ChatInv
  OBVIOUS
<1>1. PICK start \in Starts : origin = start.thread /\ budget = start.budget
  BY DEF Init
<1>2. origin \in Seq(Connections) /\ budget \in BudgetType
  BY <1>1, ChatAssumption
<1>3. /\ readAt = {} /\ pending = {} /\ up = <<>> /\ fetches = <<>> /\ posts = FALSE
      /\ held = "fresh" /\ ws = Ws("none", 0, "fresh") /\ hook = Unmounted(0)
  BY DEF Init
<1>4. /\ up \in Seq(UpType) /\ fetches \in Seq(FetchType) /\ DOMAIN fetches = {}
      /\ Len(fetches) <= MaxAsks
  BY <1>3, ChatAssumption
<1>5. ws \in WsType /\ ws.pipe = <<>> /\ DOMAIN ws.pipe = {}
  BY <1>3, WsHelpers
<1>6. /\ hook \in HookType /\ hook.messages = <<>> /\ DOMAIN hook.messages = {}
      /\ hook.nextBefore = 0 /\ ~hook.hasMore /\ hook.upTo = 0
  BY <1>3, UnmountedTypeOK
<1>7. Shown = {} /\ Reach = 1
  BY <1>6 DEF Shown, Reach
<1>8. ChatTypeOK
  BY <1>2, <1>3, <1>4, <1>5, <1>6, <1>7 DEF ChatTypeOK
<1>9. PagesFit /\ RequestsFit
  BY <1>4 DEF PagesFit, RequestsFit
<1>10. CursorFits /\ ListFits /\ ListedOnceInOrder
  BY <1>6, <1>7 DEF CursorFits, ListFits, ListedOnceInOrder
<1>11. WayInOrder
  BY <1>3, <1>5 DEF WayInOrder
<1>. QED  BY <1>8, <1>9, <1>10, <1>11 DEF ChatInv

LEMMA ChatNext == ChatInv /\ [Next]_vars => ChatInv'
<1>. SUFFICES ASSUME ChatInv, [Next]_vars PROVE ChatInv'
  OBVIOUS
<1>1. /\ ChatTypeOK /\ PagesFit /\ CursorFits /\ RequestsFit
      /\ WayInOrder /\ ListFits /\ ListedOnceInOrder
  BY DEF ChatInv
<1>2. ListGoal'
  BY <1>1, ListStep
<1>3. PagesFit' /\ CursorFits' /\ RequestsFit' /\ WayInOrder'
  BY <1>1, FetchesFit, CursorStep, RequestsStep, WayStep
<1>4. /\ origin' \in Seq(Connections) /\ readAt' \subseteq Stored' /\ pending' \subseteq FrameType
      /\ up' \in Seq(UpType) /\ ws' \in WsType /\ hook' \in HookType
      /\ fetches' \in Seq(FetchType) /\ Len(fetches') <= MaxAsks
      /\ held' \in {"fresh", "stale"} /\ posts' \in BOOLEAN
  BY <1>1, ServerGrows, UpTypeOK, SocketStep, HookStep, FetchesFit, FetchesBounded, PlainTypesOK
<1>5. budget' \in BudgetType
  BY <1>1, BudgetTypeOK DEF ChatTypeOK
<1>6. ChatTypeOK'
  BY <1>2, <1>4, <1>5 DEF ChatTypeOK, ListGoal
<1>. QED  BY <1>2, <1>3, <1>6 DEF ChatInv, ListGoal

\* Every variable of the consumers, the socket and the hook stays in its domain, and what the
\* thread lists is stored, for any page size, any connections and any thread found.
THEOREM ChatTypeCorrect == Spec => []ChatTypeOK
<1>1. ChatInv => ChatTypeOK
  BY DEF ChatInv
<1>. QED  BY <1>1, ChatInit, ChatNext, PTL DEF Spec

\* useChatSocket deduplicates echoes only, and yet no message is listed twice and the list
\* keeps the order in which each connection wrote, with any number of connections of both
\* participants storing and broadcasting at once, any backlog on its way, reconnections and an
\* older page under way.  Two things end it, and are the only ones: two first pages of one
\* mount in flight together, and an echo of something older than the page it is listed behind.
THEOREM ListedOnceInOrderTheorem == Spec => []ListedOnceInOrder
<1>1. ChatInv => ListedOnceInOrder
  BY DEF ChatInv
<1>. QED  BY <1>1, ChatInit, ChatNext, PTL DEF Spec
=============================================================================
