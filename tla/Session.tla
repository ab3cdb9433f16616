------------------------------ MODULE Session ------------------------------
(***************************************************************************)
(* The session of the web client: who is signed in, which JWTs each tab    *)
(* holds, the axios instance that renews them behind every request, and    *)
(* the forms and guards that depend on it (src/frontend/src/shared/auth,   *)
(* shared/api/client.ts, features/auth, features/account).                 *)
(*                                                                         *)
(* A refresh token is its number 1, 2, 3, ... ; an access token is the     *)
(* account it names and whether it is still fresh.  Credentials, names and *)
(* field errors are left out; a profile is the number of its edits.        *)
(***************************************************************************)
EXTENDS Integers, Sequences, FiniteSets, FiniteSetsExt

CONSTANTS
    Tabs,           \* tabs of one browser; they share localStorage
    First,          \* the tab that is open from the start
    Accounts,       \* e-mail addresses
    NoOne,
    Role,           \* Role[a]: the role a registers with
    MaxCalls,       \* bound on the requests of a tab in flight
    Budgets         \* what the user and faults may do in one behaviour

Public == {"home", "login", "register", "reset"}
Private == {"booking", "panel", "host", "admin", "settings"}
Pages == Public \cup Private
Roles == {"client", "host", "admin"}

BudgetType ==
    [logins: Nat, registrations: Nat, resets: Nat, logouts: Nat, saves: Nat, deletions: Nat,
     requests: Nat,     \* other requests the pages make
     visits: Nat,       \* links followed
     reloads: Nat,      \* pages loaded anew, a second tab included
     expiries: Nat,     \* access tokens that reach the end of their 30 minutes
     refusals: Nat,     \* requests the API refuses for a reason of their own (400, 409)
     losses: Nat,       \* requests or answers the network loses
     blocks: Nat]       \* accounts an administrator blocks

ASSUME SessionAssumption ==
    /\ First \in Tabs
    /\ NoOne \notin Accounts
    /\ Role \in [Accounts -> Roles]
    /\ MaxCalls \in Nat \ {0}
    /\ Budgets \subseteq BudgetType

VARIABLES
    owner,          \* OutstandingToken rows: owner[n] was issued refresh token n
    valid,          \* refresh tokens that are not blacklisted
    active,         \* accounts with is_active
    profile,        \* edits of each profile, 0 before the registration
    links,          \* accounts with a password reset link that still works
    local,          \* the refresh token in localStorage, 0 for none
    tab,            \* see TabType
    calls,          \* requests in flight, see CallType
    budget          \* what is left of the bounds

server == <<owner, valid, active, profile, links>>
vars == <<server, local, tab, calls, budget>>

AccessType == [of: Accounts \cup {NoOne}, fresh: BOOLEAN]
NoAccess == [of |-> NoOne, fresh |-> FALSE]

\* next: the ?next= of the login page.  session: sessionStorage.  refreshing: the promise
\* of client.ts.  seen: the edits of the profile shown; saved: those the toast confirmed.
\* crossed: traffic about the identity of this tab has been cut or has overlapped.
TabType ==
    [open: BOOLEAN, page: Pages, next: Private \cup {"none"},
     status: {"loading", "authenticated", "unauthenticated"},
     user: Accounts \cup {NoOne}, seen: Nat, saved: Nat,
     access: AccessType, session: Nat, refreshing: BOOLEAN, crossed: BOOLEAN]

Blank(page) ==
    [open |-> TRUE, page |-> page, next |-> "none", status |-> "unauthenticated",
     user |-> NoOne, seen |-> 0, saved |-> 0,
     access |-> NoAccess, session |-> 0, refreshing |-> FALSE, crossed |-> FALSE]

\* isAuthEndpoint: their 401 is an answer, never a reason to refresh.
AuthEndpoints == {"login", "register", "logout", "refresh", "reset", "confirm"}
Kinds == AuthEndpoints \cup {"bootstrap", "profile", "save", "delete", "data"}

\* who: the account in the body (login, register, reset).  ref: the refresh token in the
\* body or in the answer, the edit a profile request follows, or which data.  edits: the profile in the
\* answer.  goes: the page the caller navigates to.  waiting: behind the refresh.
\* alive: the page that asked is still loaded.
CallType ==
    [tab: Tabs, kind: Kinds, access: AccessType, who: Accounts \cup {NoOne}, ref: Nat,
     remember: BOOLEAN, goes: Pages \cup {"none"}, edits: Nat, retried: BOOLEAN, alive: BOOLEAN,
     phase: {"sent", "waiting", "ok", "unauthorized", "refused", "lost"}]

\* The request interceptor: whatever access token is in memory goes along.
Call(t, kind, who, ref) ==
    [tab |-> t, kind |-> kind, access |-> tab[t].access, who |-> who, ref |-> ref,
     remember |-> TRUE, goes |-> "none", edits |-> 0, retried |-> FALSE, alive |-> TRUE, phase |-> "sent"]

Of(t) == {c \in calls : c.tab = t /\ c.alive}
Pending(t, kinds) == \E c \in Of(t) : c.kind \in kinds

\* getRefreshToken, hasSession.
Held(t) == IF local # 0 THEN local ELSE tab[t].session

-----------------------------------------------------------------------------
(* The route table and its guards.                                         *)

\* The /panel pages are the client's, the /gospodarz pages the host's; both have settings.
Entitled(page) ==
    CASE page \in {"booking", "panel"} -> {"client"}
      [] page = "host" -> {"host"}
      [] page = "admin" -> {"admin"}
      [] page = "settings" -> {"client", "host"}
      [] OTHER -> Roles

\* Slip: the host's home is the path of another application.
HomeOffTheMap(role) == IF role = "host" THEN "hosting" ELSE "panel"

\* getRoleHome.
HomeOf(role) == CASE role = "host" -> "host" [] role = "admin" -> "admin" [] OTHER -> "panel"

\* RequireRole, evaluated at every render: a loader while the session is being looked up,
\* then the login page with ?next=, or home for the wrong role.
Guarded(rec) ==
    IF rec.page \notin Private \/ rec.status = "loading" THEN rec
    ELSE IF rec.user = NoOne THEN [rec EXCEPT !.page = "login", !.next = rec.page]
    ELSE IF Role[rec.user] \in Entitled(rec.page) THEN rec
    ELSE [rec EXCEPT !.page = "home"]

Mounted(t, page) ==
    /\ tab[t].open /\ tab[t].page = page
    /\ page \in Private => tab[t].status # "loading"

GoTo(rec, page) == Guarded([rec EXCEPT !.page = page, !.next = "none"])

\* What each layout links to; the booking page is behind the gardens of the home page.
NavbarLinks(rec) ==
    {"home", "booking"} \cup
    IF rec.status = "authenticated" THEN {HomeOf(Role[rec.user])} ELSE {"login", "register"}

SidebarLinks(rec) ==
    {"home", HomeOf(Role[rec.user])} \cup (IF Role[rec.user] = "admin" THEN {} ELSE {"settings"})

AuthLinks == {"home", "login", "register", "reset"}

Links(rec) ==
    CASE rec.page \in {"home", "booking"} -> NavbarLinks(rec)
      [] rec.page \in {"login", "register", "reset"} -> AuthLinks
      [] OTHER -> SidebarLinks(rec)

Navigate(t) ==
    /\ Mounted(t, tab[t].page) /\ budget.visits > 0
    /\ \E page \in Links(tab[t]) \ {tab[t].page} : tab' = [tab EXCEPT ![t] = GoTo(@, page)]
    /\ budget' = [budget EXCEPT !.visits = @ - 1]
    /\ UNCHANGED <<server, local, calls>>

-----------------------------------------------------------------------------
(* Tokens and the identity of a tab.                                       *)

\* setTokens: one copy, in the store the caller chose; the other store is emptied.
Holding(rec, n, a, persistent) ==
    [rec EXCEPT !.access = [of |-> a, fresh |-> TRUE], !.session = IF persistent THEN 0 ELSE n]
Kept(n, persistent) == IF persistent THEN n ELSE 0

\* Slip: clearTokens forgets the stored token only.
SignedOutInStorage(rec) ==
    Guarded([rec EXCEPT !.session = 0, !.user = NoOne, !.status = "unauthenticated",
                        !.seen = 0, !.saved = 0])

\* clearTokens with the auth failure handler, or with the end of logout.
SignedOut(rec) ==
    Guarded([rec EXCEPT !.access = NoAccess, !.session = 0, !.user = NoOne,
                        !.status = "unauthenticated", !.seen = 0, !.saved = 0])

SignedIn(rec, a, edits) == [rec EXCEPT !.user = a, !.seen = edits, !.status = "authenticated"]

\* Requests whose answer says who this tab is.
Identity == Kinds \ {"data", "reset", "confirm"}

\* The tab's tokens change while another answer about them is on its way, or another tab
\* puts another account into localStorage.
Crosses(t, done, n) ==
    [u \in Tabs |->
        \/ tab[u].crossed
        \/ u = t /\ \E c \in Of(t) \ done :
                       c.kind \in Identity \ {d.kind : d \in done} /\ c.phase # "waiting"
        \/ u # t /\ tab[u].open /\ local # n /\ (n = 0 \/ owner[n] # tab[u].user)]

\* Tab t becomes rec and localStorage n; done are the calls this ends.
Become(t, rec, n, done) ==
    LET crossed == Crosses(t, done, n)
    IN  /\ local' = n
        /\ tab' = [u \in Tabs |->
                     [(IF u = t THEN rec ELSE tab[u]) EXCEPT !.crossed = crossed[u]]]

-----------------------------------------------------------------------------
(* The server: accounts/views.py and services.py, SimpleJWT's token views. *)

LetIn(c) == c.access.fresh /\ c.access.of \in active

Issue(a, revoked) ==
    /\ owner' = Append(owner, a)
    /\ valid' = (valid \ revoked) \cup {Len(owner) + 1}

ServeLogin(c) ==
    IF c.who \in active
    THEN /\ Issue(c.who, {})
         /\ calls' = (calls \ {c}) \cup {[c EXCEPT !.phase = "ok", !.ref = Len(owner) + 1,
                                                   !.edits = profile[c.who]]}
         /\ UNCHANGED <<active, profile, links>>
    ELSE /\ calls' = (calls \ {c}) \cup {[c EXCEPT !.phase = "unauthorized"]}
         /\ UNCHANGED server

\* register_user: the address must be new.
ServeRegister(c) ==
    IF profile[c.who] = 0
    THEN /\ Issue(c.who, {})
         /\ active' = active \cup {c.who}
         /\ profile' = [profile EXCEPT ![c.who] = 1]
         /\ calls' = (calls \ {c}) \cup {[c EXCEPT !.phase = "ok", !.ref = Len(owner) + 1,
                                                   !.edits = 1]}
         /\ UNCHANGED links
    ELSE /\ calls' = (calls \ {c}) \cup {[c EXCEPT !.phase = "refused"]}
         /\ UNCHANGED server

\* ROTATE_REFRESH_TOKENS and BLACKLIST_AFTER_ROTATION.
ServeRefresh(c) ==
    IF c.ref \in valid /\ owner[c.ref] \in active
    THEN /\ Issue(owner[c.ref], {c.ref})
         /\ calls' = (calls \ {c}) \cup {[c EXCEPT !.phase = "ok", !.ref = Len(owner) + 1]}
         /\ UNCHANGED <<active, profile, links>>
    ELSE /\ calls' = (calls \ {c}) \cup {[c EXCEPT !.phase = "unauthorized"]}
         /\ UNCHANGED server

\* LogoutView asks for a fresh access token and blacklists the refresh token of the body.
ServeLogout(c) ==
    /\ calls' = (calls \ {c}) \cup {[c EXCEPT !.phase =
                   IF ~LetIn(c) THEN "unauthorized"
                   ELSE IF c.ref \in valid THEN "ok" ELSE "refused"]}
    /\ valid' = IF LetIn(c) THEN valid \ {c.ref} ELSE valid
    /\ UNCHANGED <<owner, active, profile, links>>

\* The reset request always answers 200; the link works until the password changes.
ServeReset(c) ==
    /\ links' = IF c.kind = "reset" THEN links \cup ({c.who} \cap active) ELSE links \ {c.who}
    /\ calls' = (calls \ {c}) \cup {[c EXCEPT !.phase =
                   IF c.kind = "reset" \/ c.who \in links \cap active THEN "ok" ELSE "refused"]}
    /\ UNCHANGED <<owner, valid, active, profile>>

\* MeView: get, patch, delete (deactivate_account blacklists every outstanding token).
ServeMe(c) ==
    /\ profile' = IF LetIn(c) /\ c.kind = "save"
                  THEN [profile EXCEPT ![c.access.of] = @ + 1] ELSE profile
    /\ active' = IF LetIn(c) /\ c.kind = "delete" THEN active \ {c.access.of} ELSE active
    /\ valid' = IF LetIn(c) /\ c.kind = "delete"
                THEN {n \in valid : owner[n] # c.access.of} ELSE valid
    /\ calls' = (calls \ {c}) \cup
                {IF LetIn(c)
                 THEN [c EXCEPT !.phase = "ok", !.edits = profile'[c.access.of]]
                 ELSE [c EXCEPT !.phase = "unauthorized"]}
    /\ UNCHANGED <<owner, links>>

\* Any other endpoint, behind IsAuthenticated.
ServeData(c) ==
    /\ calls' = (calls \ {c}) \cup
                {[c EXCEPT !.phase = IF LetIn(c) THEN "ok" ELSE "unauthorized"]}
    /\ UNCHANGED server

Serve(c) ==
    /\ c.phase = "sent"
    /\ CASE c.kind = "login" -> ServeLogin(c)
         [] c.kind = "register" -> ServeRegister(c)
         [] c.kind = "refresh" -> ServeRefresh(c)
         [] c.kind = "logout" -> ServeLogout(c)
         [] c.kind \in {"reset", "confirm"} -> ServeReset(c)
         [] c.kind = "data" -> ServeData(c)
         [] OTHER -> ServeMe(c)
    /\ UNCHANGED <<local, tab, budget>>

\* A request the API refuses for a reason of its own: a conflict, a validation error.
Refuse(c) ==
    /\ c.phase = "sent" /\ c.kind \in {"data", "save"} /\ LetIn(c)
    /\ budget.refusals > 0
    /\ budget' = [budget EXCEPT !.refusals = @ - 1]
    /\ calls' = (calls \ {c}) \cup {[c EXCEPT !.phase = "refused"]}
    /\ UNCHANGED <<server, local, tab>>

\* The request never arrives, or its answer does not.
Lose(c) ==
    /\ c.phase \in {"sent", "ok"} /\ c.alive
    /\ budget.losses > 0
    /\ budget' = [budget EXCEPT !.losses = @ - 1]
    /\ calls' = (calls \ {c}) \cup {[c EXCEPT !.phase = "lost"]}
    /\ UNCHANGED <<server, local, tab>>

\* services.block_user: access tokens stop working at once, refresh tokens too.
Block(a) ==
    /\ a \in active /\ Role[a] # "admin" /\ budget.blocks > 0
    /\ active' = active \ {a}
    /\ budget' = [budget EXCEPT !.blocks = @ - 1]
    /\ UNCHANGED <<owner, valid, profile, links, local, tab, calls>>

Expire(t) ==
    /\ tab[t].access.fresh /\ budget.expiries > 0
    /\ tab' = [tab EXCEPT ![t].access.fresh = FALSE]
    /\ budget' = [budget EXCEPT !.expiries = @ - 1]
    /\ UNCHANGED <<server, local, calls>>

-----------------------------------------------------------------------------
(* Starting a tab.                                                         *)

\* The silent bootstrap of AuthProvider: ask for the profile when a token is stored.
Start(t, page, stored, crossed) ==
    IF stored = 0
    THEN /\ tab' = [tab EXCEPT ![t] = [Guarded(Blank(page)) EXCEPT !.crossed = crossed]]
         /\ calls' = (calls \ Of(t)) \cup {[c EXCEPT !.alive = FALSE] : c \in Of(t)}
    ELSE LET rec == [Blank(page) EXCEPT !.status = "loading", !.session = tab[t].session,
                                        !.crossed = crossed]
         IN  /\ tab' = [tab EXCEPT ![t] = rec]
             /\ calls' = (calls \ Of(t))
                         \cup {[c EXCEPT !.alive = FALSE] : c \in Of(t)}
                         \cup {[Call(t, "bootstrap", NoOne, 0) EXCEPT !.access = NoAccess]}

\* A reload keeps both stores and forgets the memory and whoever waited for an answer.
Reload(t) ==
    /\ tab[t].open /\ budget.reloads > 0
    /\ budget' = [budget EXCEPT !.reloads = @ - 1]
    /\ Start(t, tab[t].page, Held(t), tab[t].crossed \/ Pending(t, Identity))
    /\ UNCHANGED <<server, local>>

OpenTab(t) ==
    /\ ~tab[t].open /\ budget.reloads > 0
    /\ budget' = [budget EXCEPT !.reloads = @ - 1]
    /\ \E page \in Pages : Start(t, page, local, FALSE)
    /\ UNCHANGED <<server, local>>

Init ==
    /\ owner = <<>> /\ valid = {} /\ links = {}
    /\ \E a \in Accounts :      \* one account is new, the others are registered
        /\ active = Accounts \ {a}
        /\ profile = [b \in Accounts |-> IF b = a THEN 0 ELSE 1]
    /\ local = 0
    /\ tab = [t \in Tabs |-> [Blank("home") EXCEPT !.open = (t = First)]]
    /\ calls = {}
    /\ budget \in Budgets

-----------------------------------------------------------------------------
(* What the user does: the forms and buttons that send something.          *)

Send(t, budgeted, new) ==
    /\ budget[budgeted] > 0 /\ budget' = [budget EXCEPT ![budgeted] = @ - 1]
    /\ Cardinality(Of(t)) < MaxCalls
    /\ calls' = calls \cup {new}

\* LoginPage.  The button is disabled while the request is pending.
SubmitLogin(t) ==
    /\ Mounted(t, "login") /\ ~Pending(t, {"login"})
    /\ \E a \in Accounts, remember \in BOOLEAN :
         Send(t, "logins", [Call(t, "login", a, 0) EXCEPT !.remember = remember,
                                                         !.goes = tab[t].next])
    /\ UNCHANGED <<server, local, tab>>

\* RegisterPage, with both consents given; what it gets is always remembered.
SubmitRegister(t) ==
    /\ Mounted(t, "register") /\ ~Pending(t, {"register"})
    /\ \E a \in Accounts : Send(t, "registrations", Call(t, "register", a, 0))
    /\ UNCHANGED <<server, local, tab>>

\* ResetRequestForm asks for a link, ResetConfirmForm sets the password with one.
AskForLink(t) ==
    /\ Mounted(t, "reset") /\ ~Pending(t, {"reset"})
    /\ \E a \in Accounts : Send(t, "resets", Call(t, "reset", a, 0))
    /\ UNCHANGED <<server, local, tab>>

SetPassword(t) ==
    /\ Mounted(t, "reset") /\ ~Pending(t, {"confirm"})
    /\ \E a \in links : Send(t, "resets", [Call(t, "confirm", a, 0) EXCEPT !.goes = "login"])
    /\ UNCHANGED <<server, local, tab>>

\* ProfileSection.
SubmitProfile(t) ==
    /\ Mounted(t, "settings") /\ ~Pending(t, {"save"})
    /\ Send(t, "saves", Call(t, "save", NoOne, 0))
    /\ UNCHANGED <<server, local, tab>>

\* DangerSection.handleDelete.
SubmitDeletion(t) ==
    /\ Mounted(t, "settings") /\ ~Pending(t, {"delete"})
    /\ Send(t, "deletions", Call(t, "delete", NoOne, 0))
    /\ UNCHANGED <<server, local, tab>>

\* Any request of a page with data behind it (change_password among them).
Query(t) ==
    /\ \E page \in Private : Mounted(t, page)
    /\ \E query \in 1..2 :
         /\ ~\E c \in Of(t) : c.kind = "data" /\ c.ref = query
         /\ Send(t, "requests", Call(t, "data", NoOne, query))
    /\ UNCHANGED <<server, local, tab>>

LogoutCall(t, goes) == [Call(t, "logout", NoOne, Held(t)) EXCEPT !.goes = goes]

\* The sidebar and the settings go home afterwards; the Navbar stays where it is.
Logout(t) ==
    /\ tab[t].open /\ tab[t].status = "authenticated"
    /\ tab[t].page \notin {"login", "register", "reset"}
    /\ LET goes == IF tab[t].page \in {"home", "booking"} THEN "none" ELSE "home"
       IN  IF Held(t) # 0
           THEN /\ Send(t, "logouts", LogoutCall(t, goes))
                /\ UNCHANGED <<local, tab>>
           ELSE /\ budget.logouts > 0 /\ budget' = [budget EXCEPT !.logouts = @ - 1]
                /\ Become(t, SignedOut(IF goes = "home" THEN GoTo(tab[t], "home") ELSE tab[t]), 0, {})
                /\ UNCHANGED calls
    /\ UNCHANGED server

-----------------------------------------------------------------------------
(* What the answers do.                                                    *)

Waiting(t) == {c \in Of(t) : c.phase = "waiting"}
Retriable(c) == c.phase = "unauthorized" /\ ~c.retried /\ c.kind \notin AuthEndpoints

\* Slip: every 401 asks for a refresh of its own.
BeginRefreshEachTime(c) ==
    /\ Retriable(c) /\ Held(c.tab) # 0
    /\ tab' = [tab EXCEPT ![c.tab].refreshing = TRUE]
    /\ calls' = (calls \ {c}) \cup {[c EXCEPT !.phase = "waiting"],
                                    [Call(c.tab, "refresh", NoOne, Held(c.tab)) EXCEPT !.edits = c.ref]}
    /\ UNCHANGED local

\* The first 401 asks for a refresh, ...
BeginRefresh(c) ==
    /\ Retriable(c) /\ ~tab[c.tab].refreshing /\ Held(c.tab) # 0
    /\ tab' = [tab EXCEPT ![c.tab].refreshing = TRUE]
    /\ calls' = (calls \ {c}) \cup {[c EXCEPT !.phase = "waiting"],
                                    Call(c.tab, "refresh", NoOne, Held(c.tab))}
    /\ UNCHANGED local

\* ... the others wait for it.
JoinRefresh(c) ==
    /\ Retriable(c) /\ tab[c.tab].refreshing
    /\ calls' = (calls \ {c}) \cup {[c EXCEPT !.phase = "waiting"]}
    /\ UNCHANGED <<local, tab>>

\* Slip: the session is cleared and those who waited are not told.
RefreshFailsSilently(c) ==
    /\ \/ c.kind = "refresh" /\ c.phase \in {"unauthorized", "lost"}
       \/ Retriable(c) /\ ~tab[c.tab].refreshing /\ Held(c.tab) = 0
    /\ Become(c.tab, [SignedOut(tab[c.tab]) EXCEPT !.refreshing = FALSE], 0, {c})
    /\ calls' = calls \ {c}

\* The refresh is refused or lost, or there is nothing to refresh with: the session is
\* cleared and everybody who waited is rejected.
RefreshFails(c) ==
    /\ \/ c.kind = "refresh" /\ c.phase \in {"unauthorized", "lost"}
       \/ Retriable(c) /\ ~tab[c.tab].refreshing /\ Held(c.tab) = 0
    /\ Become(c.tab, [SignedOut(tab[c.tab]) EXCEPT !.refreshing = FALSE], 0,
              {c} \cup Waiting(c.tab))
    /\ calls' = calls \ ({c} \cup Waiting(c.tab))

\* Slip: the answer's refresh token is dropped, the old one kept.
RefreshSucceedsUnrotated(c) ==
    /\ c.kind = "refresh" /\ c.phase = "ok"
    /\ LET t == c.tab
           again == Waiting(t)
           rec == [tab[t] EXCEPT !.access = [of |-> owner[c.ref], fresh |-> TRUE],
                                 !.refreshing = FALSE]
       IN  /\ Become(t, rec, local, {c} \cup again)
           /\ calls' = (calls \ ({c} \cup again)) \cup
                {[w EXCEPT !.phase = "sent", !.retried = TRUE, !.access = rec.access] : w \in again}

\* The pair is stored, in localStorage whatever the user chose at the login, and everybody
\* who waited is sent again.
RefreshSucceeds(c) ==
    /\ c.kind = "refresh" /\ c.phase = "ok"
    /\ LET t == c.tab
           again == Waiting(t)
           rec == [Holding(tab[t], c.ref, owner[c.ref], TRUE) EXCEPT !.refreshing = FALSE]
       IN  /\ Become(t, rec, Kept(c.ref, TRUE), {c} \cup again)
           /\ calls' = (calls \ ({c} \cup again)) \cup
                {[w EXCEPT !.phase = "sent", !.retried = TRUE, !.access = rec.access] : w \in again}

\* Sent again and failed, for whatever reason: the same catch clears the session.
RetryFails(c) ==
    /\ c.retried /\ c.phase \in {"unauthorized", "refused", "lost"}
    /\ Become(c.tab, SignedOut(tab[c.tab]), 0, {c})
    /\ calls' = calls \ {c}

\* login and register of AuthContext, then the navigation of the form.
SignInAnswered(c) ==
    /\ c.kind \in {"login", "register"} /\ c.phase = "ok"
    /\ LET page == IF c.goes = "none" THEN HomeOf(Role[c.who]) ELSE c.goes
           rec == SignedIn(Holding(tab[c.tab], c.ref, c.who, c.remember), c.who, c.edits)
       IN  Become(c.tab, GoTo([rec EXCEPT !.saved = 0], page), Kept(c.ref, c.remember), {c})
    /\ calls' = calls \ {c}

\* Slip: logout without the catch: a refused request leaves the session in place.
LogoutAnsweredUncaught(c) ==
    /\ c.kind = "logout" /\ c.phase = "ok"
    /\ Become(c.tab, SignedOut(IF c.goes = "home" THEN GoTo(tab[c.tab], "home") ELSE tab[c.tab]),
              0, {c})
    /\ calls' = calls \ {c}

\* logout of AuthContext: best effort, the local session goes whatever the server says.
LogoutAnswered(c) ==
    /\ c.kind = "logout" /\ c.phase \notin {"sent", "waiting"}
    /\ Become(c.tab, SignedOut(IF c.goes = "home" THEN GoTo(tab[c.tab], "home") ELSE tab[c.tab]),
              0, {c})
    /\ calls' = calls \ {c}

BootstrapAnswered(c) ==
    /\ c.kind = "bootstrap"
    /\ \/ /\ c.phase = "ok"
          /\ tab' = [tab EXCEPT ![c.tab] = Guarded(SignedIn(@, c.access.of, c.edits))]
       \/ /\ c.phase = "lost" /\ ~c.retried
          /\ tab' = [tab EXCEPT ![c.tab] = Guarded([@ EXCEPT !.user = NoOne,
                                                             !.status = "unauthenticated"])]
    /\ calls' = calls \ {c}
    /\ UNCHANGED local

\* Slip: the toast without refreshUser.
SaveAnsweredAtOnce(c) ==
    /\ c.kind = "save" /\ c.phase = "ok"
    /\ tab' = [tab EXCEPT ![c.tab].saved = c.edits]
    /\ calls' = calls \ {c}
    /\ UNCHANGED local

\* ProfileSection.onSubmit: the PATCH is followed by refreshUser.  The button is free again
\* in between, so two of them can be on their way.
SaveAnswered(c) ==
    /\ c.kind = "save" /\ c.phase = "ok"
    /\ calls' = (calls \ {c}) \cup {Call(c.tab, "profile", NoOne, c.edits)}
    /\ tab' = [tab EXCEPT ![c.tab].crossed = @ \/ Pending(c.tab, {"profile"})]
    /\ UNCHANGED local

\* refreshUser, then the toast.
ProfileAnswered(c) ==
    /\ c.kind = "profile" /\ c.phase = "ok"
    /\ tab' = [tab EXCEPT ![c.tab] =
                 Guarded([SignedIn(@, c.access.of, c.edits) EXCEPT !.saved = c.ref])]
    /\ calls' = calls \ {c}
    /\ UNCHANGED local

\* handleDelete goes on with logout.
DeletionAnswered(c) ==
    /\ c.kind = "delete" /\ c.phase = "ok"
    /\ IF Held(c.tab) # 0
       THEN /\ calls' = (calls \ {c}) \cup {LogoutCall(c.tab, "home")}
            /\ UNCHANGED <<local, tab>>
       ELSE /\ Become(c.tab, SignedOut(GoTo(tab[c.tab], "home")), 0, {c})
            /\ calls' = calls \ {c}

ConfirmAnswered(c) ==
    /\ c.kind = "confirm" /\ c.phase = "ok"
    /\ tab' = [tab EXCEPT ![c.tab] = GoTo(@, c.goes)]
    /\ calls' = calls \ {c}
    /\ UNCHANGED local

\* Page data, a request link that was sent, or an error shown by the caller.
JustAnswered(c) ==
    /\ \/ c.kind \in {"data", "reset"} /\ c.phase = "ok"
       \/ /\ c.kind \notin {"refresh", "logout", "bootstrap"} /\ ~Retriable(c) /\ ~c.retried
          /\ c.phase \in {"unauthorized", "refused", "lost"}
    /\ calls' = calls \ {c}
    /\ UNCHANGED <<local, tab>>

Arrive(c) ==
    /\ c.alive
    /\ \/ BeginRefresh(c) \/ JoinRefresh(c) \/ RefreshFails(c) \/ RefreshSucceeds(c)
       \/ RetryFails(c) \/ SignInAnswered(c) \/ LogoutAnswered(c) \/ BootstrapAnswered(c)
       \/ SaveAnswered(c) \/ ProfileAnswered(c) \/ DeletionAnswered(c)
       \/ ConfirmAnswered(c) \/ JustAnswered(c)
    /\ UNCHANGED <<server, budget>>

\* Nobody listens any more.
Forget(c) ==
    /\ ~c.alive /\ c.phase # "sent"
    /\ calls' = calls \ {c}
    /\ UNCHANGED <<server, local, tab, budget>>

Next ==
    \/ \E c \in calls : Serve(c) \/ Refuse(c) \/ Lose(c) \/ Arrive(c) \/ Forget(c)
    \/ \E a \in Accounts : Block(a)
    \/ \E t \in Tabs :
         \/ Expire(t) \/ Reload(t) \/ OpenTab(t) \/ Navigate(t)
         \/ SubmitLogin(t) \/ SubmitRegister(t) \/ AskForLink(t) \/ SetPassword(t)
         \/ SubmitProfile(t) \/ SubmitDeletion(t) \/ Query(t) \/ Logout(t)

Spec == Init /\ [][Next]_vars

\* The server answers or the network fails the request; the browser runs its callbacks.
Fairness ==
    /\ WF_vars(\E c \in calls : Serve(c))
    /\ WF_vars(\E c \in calls : Arrive(c))

FairSpec == Spec /\ Fairness
=============================================================================
