------------------------- MODULE SessionProperties -------------------------
(* What the session promises to the user of the web client.                *)
EXTENDS Session

\* Every variable stays in its domain; what the browser stores was issued by the server.
SessionTypeOK ==
    /\ owner \in Seq(Accounts) /\ valid \subseteq DOMAIN owner
    /\ active \subseteq Accounts /\ links \subseteq Accounts
    /\ profile \in [Accounts -> Nat]
    /\ local \in 0..Len(owner)
    /\ tab \in [Tabs -> TabType]
    /\ calls \subseteq CallType
    /\ budget \in BudgetType

Alone(t) == \A u \in Tabs \ {t} : ~tab[u].open

\* A tab acts as the account it shows, on the pages of that account's role, and holds no
\* access token once it shows nobody (AuthContext.tsx, tokens.ts, guards.tsx) - as long as
\* its identity traffic did not overlap and no other tab changed the account.
ActsAsShown ==
    \A t \in Tabs : tab[t].open /\ ~tab[t].crossed =>
        /\ tab[t].status = "authenticated" =>
             /\ tab[t].access.of = tab[t].user
             /\ Held(t) # 0 /\ owner[Held(t)] = tab[t].user
             /\ Role[tab[t].user] \in Entitled(tab[t].page)
        /\ tab[t].status = "unauthenticated" =>
             /\ tab[t].access = NoAccess /\ tab[t].user = NoOne
             /\ tab[t].page \in Public

\* The refresh token in the stores is one the server still accepts: rotation blacklists the
\* old one, so the client must have kept the new one (client.ts refreshAccessToken).
HeldIsAccepted ==
    \A t \in Tabs :
        /\ Alone(t) /\ tab[t].open /\ ~tab[t].crossed
        /\ ~Pending(t, {"login", "register", "logout", "refresh", "delete"})
        /\ Held(t) # 0 /\ owner[Held(t)] \in active
        => Held(t) \in valid

\* However many requests meet an expired access token at once, a tab loses its session only
\* by its own logout, with a token the server no longer accepts, by a refresh the network
\* lost, or by a request that fails again after the refresh (client.ts response interceptor).
\* The last is what the code does against its own comment, see LostWithItsRefreshOnly.
LosesOnlyADeadSession ==
    [][\A t \in Tabs :
         /\ Alone(t) /\ ~tab[t].crossed
         /\ tab[t].status = "authenticated" /\ tab'[t].status = "unauthenticated"
         => \/ Held(t) \notin valid \/ owner[Held(t)] \notin active
            \/ \E c \in Of(t) \ calls' : c.kind = "logout" \/ c.retried \/ c.phase = "lost"]_vars

\* "if the refresh fails, clear the session and notify the app" (client.ts:16): a session ends
\* by its own logout, or because there was nothing to refresh with, or with the answer to a
\* refresh, and not because a request failed that had been refreshed.
LostWithItsRefreshOnly ==
    [][\A t \in Tabs :
         /\ Alone(t) /\ ~tab[t].crossed
         /\ tab[t].status = "authenticated" /\ tab'[t].status = "unauthenticated"
         => \/ Held(t) = 0
            \/ \E c \in Of(t) \ calls' : c.kind \in {"logout", "refresh"}]_vars

\* After "Zapisano dane" the profile shown is at least the one saved (SettingsPage.tsx),
\* unless two refreshes of it overlapped.
SavedIsShown ==
    \A t \in Tabs : ~tab[t].crossed => tab[t].seen >= tab[t].saved

\* No request waits for a refresh for ever and the loader of a guarded page goes away.
Settles ==
    \A t \in Tabs : []<>(tab[t].status # "loading" /\ Waiting(t) = {})

\* A logout ends the local session whatever the server answers: expired access token,
\* deleted account, no network (AuthContext.tsx logout).
LogoutEnds ==
    \A t \in Tabs :
        Pending(t, {"logout"}) ~> tab[t].status = "unauthenticated" \/ tab[t].crossed
=============================================================================
