--------------------------- MODULE ChatProperties ---------------------------
(* What the chat promises to the participant who looks at the thread.      *)
EXTENDS ChatRoom

\* Every variable stays in its domain; what is listed is stored.
ChatTypeOK ==
    /\ origin \in Seq(Connections)
    /\ readAt \subseteq Stored
    /\ pending \subseteq FrameType
    /\ up \in Seq(UpType)
    /\ held \in {"fresh", "stale"}
    /\ ws \in WsType
    /\ hook \in HookType /\ Shown \subseteq Stored
    /\ fetches \in Seq(FetchType) /\ Len(fetches) <= MaxAsks
    /\ posts \in BOOLEAN
    /\ budget \in BudgetType

\* No message is listed twice, and what was written through one connection is listed in the
\* order of writing, although the same message can come with a first page, with an older page
\* and as a live echo, two connections of one participant broadcast in any order, and an older
\* page may be on its way while the thread reconnects (useChatSocket.ts:70, 85 and 105: only
\* echoes are looked up in the list).  Two weaknesses of the hook end this: two first pages in
\* flight at once can come back in the wrong order, and an echo that was on its way while a
\* whole page of newer messages was stored is appended behind them.
ListedOnceInOrder ==
    ~hook.overlapped /\ ~hook.straggled =>
        \A i, j \in DOMAIN hook.messages :
            LET m == hook.messages[i].id
                n == hook.messages[j].id
            IN  i < j /\ origin[m] = origin[n] => m < n

\* While the thread stays open the connection comes back: a drop, a refused handshake and a
\* token that expired before the reconnection are all retried.
ComesBack == []<>(~hook.mounted \/ hook.status = "open")

\* "... pisze" never stays on: the other browser may die without sending the end of its burst.
TypingClears == hook.typingFromOther ~> ~hook.typingFromOther

\* A message of the other side that a first page or an echo brought into the list gets its
\* read stamp, whether the page came before the socket was open or the echo just before the
\* connection was lost, and even if the thread is left at once; only a failed POST excuses.
\* A message that only loadOlder lists is marked by nothing (useChatSocket.ts:79-91).
Looked == {hook.messages[i].id : i \in {k \in DOMAIN hook.messages : ~hook.messages[k].older}}
ListedGetsRead ==
    \A m \in 1..4 :
        (m \in Looked \cap Unread) ~> (m \in readAt \/ budget.lost > 0)

\* Everything has come to rest after a lost connection, with the socket open again.
AtRestAgain ==
    /\ budget.drops = 0
    /\ hook.mounted /\ hook.status = "open" /\ ws.state = "live"
    /\ ws.pipe = <<>> /\ fetches = <<>> /\ pending = {}

\* "Auto-reconnect, then refetch history to catch anything missed" (useChatSocket.ts:151): at
\* rest after a reconnection, the newest page is listed in full.
NothingMissed ==
    AtRestAgain => \A m \in Stored : m > Len(origin) - PageSize => m \in Shown
=============================================================================
