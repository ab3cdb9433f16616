------------------------------ MODULE ChatRoom ------------------------------
(***************************************************************************)
(* One conversation as the browser of one participant lives it: the chat   *)
(* consumer and the history view on the server, and the useChatSocket hook *)
(* with its socket, its reconnect timer and its history requests.          *)
(*                                                                         *)
(* "me" holds the browser tab that is modelled in full.  The other tabs of *)
(* both participants are seen through what their connections do on the     *)
(* server: every connection has a consumer of its own, and two of them     *)
(* interleave between storing a message and broadcasting it.               *)
(* A message is its primary key 1, 2, 3, ...; its text is left out.        *)
(***************************************************************************)
EXTENDS Integers, Sequences, SequencesExt, FiniteSets

CONSTANTS
    PageSize,       \* MESSAGE_PAGE_SIZE
    Peers,          \* the connections of the other tabs of this conversation
    MaxAsks,        \* bound on the history requests in flight
    Starts          \* the thread as it is found, and what people and faults may do then

BudgetType ==
    [theirs: Nat,       \* messages the other participant writes
     aside: Nat,        \* messages I write in another tab
     mine: Nat,         \* messages I submit in this tab
     reads: Nat,        \* times another tab marks the thread as read
     typing: Nat,       \* typing frames of other tabs
     visits: Nat,       \* times I open the thread
     drops: Nat,        \* connections lost or refused by the network
     expiries: Nat,     \* times the access token expires
     failures: Nat,     \* history requests that fail
     posts: Nat,        \* read marks that fail
     lost: Nat]         \* read marks that have failed so far

Users == {"me", "them"}

\* A connection of a participant's tab; this tab is 0 and connects again and again.
Connections == [user: Users, tab: Nat, nr: Nat]

ASSUME ChatAssumption ==
    /\ Peers \subseteq {c \in Connections : c.tab # 0}
    /\ PageSize \in Nat \ {0}
    /\ MaxAsks \in Nat \ {0}
    /\ Starts \subseteq [thread: Seq(Connections), budget: BudgetType]

VARIABLES
    origin,         \* ChatMessage rows: origin[m] is the connection that brought message m
    readAt,         \* messages with a read_at stamp
    pending,        \* the frames that consumers have still to broadcast
    up,             \* frames this tab sent, over all its connections, and no consumer received yet
    held,           \* the access token in memory: fresh, or stale for the server
    ws,             \* the WebSocket, see WsType
    hook,           \* state of the mounted useChatSocket, see HookType
    fetches,        \* history requests in flight, see FetchType
    posts,          \* a POST conversations/{id}/read/ is in flight (two are as good as one)
    budget          \* what is left of the bounds

server == <<origin, readAt, pending>>
vars == <<server, up, held, ws, hook, fetches, posts, budget>>

Stored == 1..Len(origin)
Sender(m) == origin[m].user
Unread == {m \in Stored : Sender(m) = "them" /\ m \notin readAt}

FrameType == [type: {"message.new", "typing", "read"}, from: Connections, id: Nat]
Frame(type, c, m) == [type |-> type, from |-> c, id |-> m]

\* nr: how often this tab has connected; pipe: frames the group sent to this socket and the
\* hook has not handled; offered: the token in the URL.
WsType == [state: {"none", "connecting", "accepted", "live", "dead"}, nr: Nat,
           offered: {"fresh", "stale"}, pipe: Seq(FrameType)]
Ws(state, n, token) == [state |-> state, nr |-> n, offered |-> token, pipe |-> <<>>]
UpType == [via: Connections, type: {"message.send", "read"}]
Line == [user |-> "me", tab |-> 0, nr |-> ws.nr]

\* older: the message came with loadOlder.  Three fields are history: upTo is the newest
\* message there was when the first page listed was answered; overlapped, that two first pages
\* of this mount were in flight at once; straggled, that an echo not listed yet was appended though older
\* than upTo.
MessageType == [id: Nat, read: BOOLEAN, older: BOOLEAN]
HookType ==
    [visit: Nat, mounted: BOOLEAN, messages: Seq(MessageType),
     status: {"connecting", "open", "closed"}, reconnect: BOOLEAN,
     loadingHistory: BOOLEAN, loadingOlder: BOOLEAN, hasMore: BOOLEAN, nextBefore: Nat,
     typingFromOther: BOOLEAN, typingTimer: BOOLEAN,
     upTo: Nat, overlapped: BOOLEAN, straggled: BOOLEAN]

Unmounted(v) ==
    [visit |-> v, mounted |-> FALSE, messages |-> <<>>, status |-> "connecting",
     reconnect |-> FALSE, loadingHistory |-> FALSE, loadingOlder |-> FALSE, hasMore |-> FALSE,
     nextBefore |-> 0, typingFromOther |-> FALSE, typingTimer |-> FALSE,
     upTo |-> 0, overlapped |-> FALSE, straggled |-> FALSE]

\* before = 0 asks for the first page; visit is the mount that asked.
PageType == [ids: Seq(Nat), read: SUBSET Nat, has_more: BOOLEAN, next_before: Nat]
FetchType == [visit: Nat, before: Nat, answered: BOOLEAN, page: PageType]
NoPage == [ids |-> <<>>, read |-> {}, has_more |-> FALSE, next_before |-> 0]

Init ==
    /\ \E start \in Starts : origin = start.thread /\ budget = start.budget
    /\ readAt = {} /\ pending = {} /\ up = <<>>
    /\ held = "fresh"
    /\ ws = Ws("none", 0, "fresh")
    /\ hook = Unmounted(0)
    /\ fetches = <<>> /\ posts = FALSE

Spend(what) == budget[what] > 0 /\ budget' = [budget EXCEPT ![what] = @ - 1]

-----------------------------------------------------------------------------
(* The server: ChatConsumer, post_message, mark_read, MessageHistoryView.  *)

\* group_send: the socket gets the frame while its consumer is in the group.
Broadcast(frame) ==
    ws' = IF ws.state \in {"accepted", "live"} THEN [ws EXCEPT !.pipe = Append(@, frame)] ELSE ws

\* A consumer awaits its handler before it takes the next frame of its connection.
Busy(c) == \E f \in pending : f.from = c

\* Slip: the broadcast goes out while the row is still to be written.
BroadcastFirst(c) ==
    /\ ~Busy(c)
    /\ pending' = pending \cup {Frame("message.new", c, Len(origin) + 1)}
    /\ UNCHANGED origin

\* post_message commits the row; its broadcast is a later step of the same handler.
Persist(c) ==
    /\ ~Busy(c)
    /\ origin' = Append(origin, c)
    /\ pending' = pending \cup {Frame("message.new", c, Len(origin) + 1)}

\* mark_read stamps what the other side wrote, whatever the reader has seen of it.
StampRead(u) == readAt' = readAt \cup {m \in Stored : Sender(m) # u}

FinishHandler ==
    /\ \E f \in pending : Broadcast(f) /\ pending' = pending \ {f}
    /\ UNCHANGED <<origin, readAt, up, held, hook, fetches, posts, budget>>

\* The consumer of another tab receives message.send, read or typing.  A typing frame says
\* TRUE (id 1) or FALSE (id 0); a browser that dies sends no FALSE.
PeerSend(c) ==
    /\ Spend(IF c.user = "them" THEN "theirs" ELSE "aside")
    /\ Persist(c)
    /\ UNCHANGED <<readAt, up, held, ws, hook, fetches, posts>>

PeerRead(c) ==
    /\ Spend("reads")
    /\ ~Busy(c)
    /\ StampRead(c.user)
    /\ pending' = pending \cup {Frame("read", c, 0)}
    /\ UNCHANGED <<origin, up, held, ws, hook, fetches, posts>>

PeerType(c) ==
    /\ Spend("typing")
    /\ ~Busy(c)
    /\ \E state \in {0, 1} : Broadcast(Frame("typing", c, state))
    /\ UNCHANGED <<server, up, held, hook, fetches, posts>>

\* receive_json of a consumer of this tab, the one of a lost connection included.
\* message.send is stored, or refused (too long, over the throttle) with an error frame the
\* hook ignores; so it does the receipt and the typing state of its own user, and these
\* frames of this tab are left out.
Receive ==
    /\ \E i \in DOMAIN up :
          LET c == up[i].via IN
          /\ ~Busy(c) /\ \A j \in 1..(i - 1) : up[j].via # c
          /\ up' = RemoveAt(up, i)
          /\ \/ up[i].type = "message.send" /\ Persist(c) /\ UNCHANGED readAt
             \/ up[i].type = "message.send" /\ UNCHANGED server
             \/ up[i].type = "read" /\ StampRead("me") /\ UNCHANGED <<origin, pending>>
    /\ UNCHANGED <<held, ws, hook, fetches, posts, budget>>

\* connect: a stale token is closed with 4401; otherwise the consumer joins and accepts.
Handshake ==
    /\ ws.state = "connecting"
    /\ ws' = [ws EXCEPT !.state = IF ws.offered = "fresh" THEN "accepted" ELSE "dead"]
    /\ UNCHANGED <<server, up, held, hook, fetches, posts, budget>>

\* The server may have got all, some or none of what the connection carried.
LoseUp == \E n \in 0..Len(up) : up' = SubSeq(up, 1, n)

\* The connection is lost or never comes about: frames for this tab are gone.
Drop ==
    /\ Spend("drops")
    /\ ws.state \in {"connecting", "accepted", "live"}
    /\ ws' = Ws("dead", ws.nr, ws.offered)
    /\ LoseUp
    /\ UNCHANGED <<server, held, hook, fetches, posts>>

TokenExpires ==
    /\ Spend("expiries")
    /\ held = "fresh" /\ held' = "stale"
    /\ UNCHANGED <<server, up, ws, hook, fetches, posts>>

\* A request with a stale token is answered once the API client has refreshed it.
Refreshed == held' = "fresh"

\* MessageHistoryView: the newest page, or the newest of what is older than the cursor.
PageBefore(before) ==
    LET top   == IF before = 0 THEN Len(origin) ELSE before - 1
        more  == top > PageSize
        first == IF more THEN top - PageSize + 1 ELSE 1
    IN  [ids |-> [i \in 1..(top - first + 1) |-> first + i - 1],
         read |-> readAt \cap (first..top),
         has_more |-> more,
         next_before |-> IF more THEN first ELSE 0]

AnswerHistory ==
    /\ \E i \in DOMAIN fetches :
          /\ ~fetches[i].answered
          /\ fetches' = [fetches EXCEPT ![i].answered = TRUE,
                                        ![i].page = PageBefore(fetches[i].before)]
    /\ Refreshed
    /\ UNCHANGED <<server, up, ws, hook, posts, budget>>

\* ConversationReadView.
AnswerPost ==
    /\ posts /\ posts' = FALSE
    /\ StampRead("me")
    /\ Refreshed
    /\ UNCHANGED <<origin, pending, up, ws, hook, fetches, budget>>

FailPost ==
    /\ budget.posts > 0
    /\ budget' = [budget EXCEPT !.posts = @ - 1, !.lost = @ + 1]
    /\ posts /\ posts' = FALSE
    /\ UNCHANGED <<server, up, held, ws, hook, fetches>>

-----------------------------------------------------------------------------
(* The hook: sockets, frames and history.                                  *)

\* sendChatFrame drops the frame unless the socket is open.
Send(type) ==
    up' = IF ws.state = "live" THEN Append(up, [via |-> Line, type |-> type]) ELSE up

FirstPageAsked(visit) == \E f \in ToSet(fetches) : f.visit = visit /\ f.before = 0

\* loadInitial (before = 0) and loadOlder ask for a page.
Ask(h, before) ==
    /\ Len(fetches) < MaxAsks
    /\ fetches' = Append(fetches, [visit |-> h.visit, before |-> before,
                                   answered |-> FALSE, page |-> NoPage])
    /\ hook' = [h EXCEPT !.loadingHistory = @ \/ before = 0,
                         !.loadingOlder = @ \/ before # 0,
                         !.overlapped = @ \/ (before = 0 /\ FirstPageAsked(h.visit))]

\* connect(): the token is the one in memory at this moment.
Connect == ws' = Ws("connecting", ws.nr + 1, held)

\* The thread mounts: it asks for the history and connects at once.
OpenThread ==
    /\ Spend("visits")
    /\ ~hook.mounted
    /\ Ask([Unmounted(hook.visit + 1) EXCEPT !.mounted = TRUE], 0)
    /\ Connect
    /\ UNCHANGED <<server, up, held, posts>>

\* The effect's cleanup: the timers are cleared and the socket is closed.
LeaveThread ==
    /\ hook.mounted
    /\ hook' = Unmounted(hook.visit)
    /\ ws' = Ws("none", ws.nr, ws.offered)
    /\ LoseUp
    /\ UNCHANGED <<server, held, fetches, posts, budget>>

OnOpen ==
    /\ ws.state = "accepted"
    /\ ws' = [ws EXCEPT !.state = "live"]
    /\ hook' = [hook EXCEPT !.status = "open"]
    /\ UNCHANGED <<server, up, held, fetches, posts, budget>>

\* Slip: a connection that was never open is not opened again.
OnCloseOnceOpen ==
    /\ hook.mounted /\ ws.state = "dead" /\ hook.status # "closed"
    /\ hook' = [hook EXCEPT !.status = "closed", !.reconnect = (hook.status = "open")]
    /\ UNCHANGED <<server, up, held, ws, fetches, posts, budget>>

OnClose ==
    /\ hook.mounted /\ ws.state = "dead" /\ hook.status # "closed"
    /\ hook' = [hook EXCEPT !.status = "closed", !.reconnect = TRUE]
    /\ UNCHANGED <<server, up, held, ws, fetches, posts, budget>>

\* The reconnect timer: the history is asked for and a socket opened in the same turn.
Reconnect ==
    /\ hook.reconnect
    /\ Ask([hook EXCEPT !.reconnect = FALSE, !.status = "connecting"], 0)
    /\ Connect
    /\ UNCHANGED <<server, up, held, posts, budget>>

\* Slip: only the open socket carries the read mark.
MarkReadByFrame(needed) ==
    /\ UNCHANGED posts
    /\ IF needed THEN Send("read") ELSE UNCHANGED up

\* markReadIfNeeded: a POST, and a frame when the socket is open.
MarkReadIfNeeded(needed) ==
    /\ posts' = (posts \/ needed)
    /\ IF needed THEN Send("read") ELSE UNCHANGED up

\* Receipts are shown on own messages only.
AsMessages(page, isOlder) ==
    [i \in DOMAIN page.ids |->
        [id |-> page.ids[i], older |-> isOlder,
         read |-> page.ids[i] \in page.read /\ Sender(page.ids[i]) = "me"]]

HoldsUnread(page) == \E m \in ToSet(page.ids) : Sender(m) = "them" /\ m \notin page.read

\* A first page replaces the list, an older one is put in front of it.
WithPage(f) ==
    IF f.before = 0
    THEN [hook EXCEPT !.messages = AsMessages(f.page, FALSE),
                      !.hasMore = f.page.has_more, !.nextBefore = f.page.next_before,
                      !.upTo = IF f.page.ids = <<>> THEN 0 ELSE Last(f.page.ids),
                      !.straggled = FALSE]
    ELSE [hook EXCEPT !.messages = AsMessages(f.page, TRUE) \o @,
                      !.hasMore = f.page.has_more, !.nextBefore = f.page.next_before]

\* loadInitial and loadOlder come back.  After an unmount only the read marks are left.
Settled(f, h) ==
    IF ~hook.mounted \/ f.visit # hook.visit THEN hook
    ELSE IF f.before = 0 THEN [h EXCEPT !.loadingHistory = FALSE]
                         ELSE [h EXCEPT !.loadingOlder = FALSE]

HistoryArrives ==
    /\ \E i \in DOMAIN fetches :
          LET f == fetches[i] IN
          /\ f.answered
          /\ fetches' = RemoveAt(fetches, i)
          /\ hook' = Settled(f, WithPage(f))
          /\ MarkReadIfNeeded(f.before = 0 /\ HoldsUnread(f.page))
    /\ UNCHANGED <<server, held, ws, budget>>

HistoryFails ==
    /\ Spend("failures")
    /\ \E i \in DOMAIN fetches :
          /\ fetches' = RemoveAt(fetches, i)
          /\ hook' = Settled(fetches[i], hook)
    /\ UNCHANGED <<server, up, held, ws, posts>>

\* MessageThread: a spinner hides the list while a first page is on its way.
View ==
    IF hook.loadingHistory THEN "spinner" ELSE IF hook.messages = <<>> THEN "empty" ELSE "list"

LoadOlder ==
    /\ hook.mounted /\ View = "list"
    /\ hook.hasMore /\ ~hook.loadingOlder
    /\ Ask(hook, hook.nextBefore)
    /\ UNCHANGED <<server, up, held, ws, posts, budget>>

Shown == {hook.messages[i].id : i \in DOMAIN hook.messages}

WithEcho(m) ==
    [hook EXCEPT !.messages = Append(@, [id |-> m, read |-> FALSE, older |-> FALSE]),
                 !.straggled = @ \/ (m <= hook.upTo /\ m \notin Shown)]

\* Slip: the echo is appended without a look at what is listed.
OnMessageNewBlindly(frame) == hook' = WithEcho(frame.id)

\* handleFrame, message.new: the echo of the group is appended unless it is listed.
OnMessageNew(frame) == hook' = IF frame.id \in Shown THEN hook ELSE WithEcho(frame.id)

\* Slip: the flag is set with no timeout behind it.
OnTypingForever(frame) ==
    hook' = [hook EXCEPT !.typingFromOther = (frame.id = 1)]

OnTyping(frame) ==
    hook' = [hook EXCEPT !.typingFromOther = (frame.id = 1), !.typingTimer = (frame.id = 1)]

\* A receipt of the other side marks every own message of the list.
OnRead ==
    LET list == hook.messages
    IN  hook' = [hook EXCEPT !.messages =
                    [i \in DOMAIN list |-> [list[i] EXCEPT !.read = (Sender(list[i].id) = "me")]]]

\* Typing and read frames of one's own tabs are ignored.
HandleFrame ==
    /\ ws.state = "live" /\ ws.pipe # <<>>
    /\ ws' = [ws EXCEPT !.pipe = Tail(@)]
    /\ LET frame == Head(ws.pipe)
           other == frame.from.user = "them"
       IN  \/ frame.type = "message.new" /\ OnMessageNew(frame) /\ MarkReadIfNeeded(other)
           \/ frame.type = "typing" /\ other /\ OnTyping(frame) /\ UNCHANGED <<up, posts>>
           \/ frame.type = "read" /\ other /\ OnRead /\ UNCHANGED <<up, posts>>
           \/ frame.type # "message.new" /\ ~other /\ UNCHANGED <<hook, up, posts>>
    /\ UNCHANGED <<server, held, fetches, budget>>

TypingTimeout ==
    /\ hook.typingTimer
    /\ hook' = [hook EXCEPT !.typingFromOther = FALSE, !.typingTimer = FALSE]
    /\ UNCHANGED <<server, up, held, ws, fetches, posts, budget>>

-----------------------------------------------------------------------------
(* MessageThread and MessageComposer.                                      *)

\* The composer is enabled by the status of the hook, which may lag behind the socket.
CanCompose == hook.mounted /\ hook.status = "open"

\* The text is cleared whether or not the frame left; typing frames are left out.
Submit ==
    /\ Spend("mine")
    /\ CanCompose
    /\ Send("message.send")
    /\ UNCHANGED <<server, held, ws, hook, fetches, posts>>

-----------------------------------------------------------------------------
ServerStep == FinishHandler \/ Receive \/ Handshake \/ AnswerHistory \/ AnswerPost

BrowserStep == OnOpen \/ OnClose \/ Reconnect \/ HistoryArrives \/ HandleFrame \/ TypingTimeout

Environment ==
    \/ \E c \in Peers : PeerSend(c) \/ PeerRead(c) \/ PeerType(c)
    \/ Drop \/ TokenExpires \/ FailPost \/ HistoryFails
    \/ OpenThread \/ LeaveThread \/ LoadOlder \/ Submit

Next == ServerStep \/ BrowserStep \/ Environment

Spec == Init /\ [][Next]_vars

\* The server answers, the timers fire and the browser handles what arrives; what
\* people and networks do is not fair.
FairSpec ==
    /\ Spec
    /\ WF_vars(FinishHandler) /\ WF_vars(Receive) /\ WF_vars(Handshake)
    /\ WF_vars(AnswerHistory) /\ WF_vars(AnswerPost)
    /\ WF_vars(OnOpen) /\ WF_vars(OnClose) /\ WF_vars(Reconnect)
    /\ WF_vars(HistoryArrives) /\ WF_vars(HandleFrame) /\ WF_vars(TypingTimeout)
=============================================================================
