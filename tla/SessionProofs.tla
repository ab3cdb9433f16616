---------------------------- MODULE SessionProofs ----------------------------
(***************************************************************************)
(* The properties of SessionProperties, proved of Session for any number   *)
(* of tabs, of accounts and of requests in flight.                         *)
(***************************************************************************)
EXTENDS SessionProperties, SequenceTheorems, TLAPS

-----------------------------------------------------------------------------
(* Records of tabs and calls                                               *)

\* Two tabs that differ at most in whether their traffic crossed.
Alike(a, b) ==
    /\ a.open = b.open /\ a.page = b.page /\ a.next = b.next /\ a.status = b.status
    /\ a.user = b.user /\ a.seen = b.seen /\ a.saved = b.saved
    /\ a.access = b.access /\ a.session = b.session /\ a.refreshing = b.refreshing

LEMMA PagesAreSplit ==
    /\ Public \subseteq Pages /\ Private \subseteq Pages /\ Public \cap Private = {}
    /\ "home" \in Public /\ "login" \in Public /\ "none" \notin Pages
    /\ \A role : HomeOf(role) \in Pages
BY DEF Public, Private, Pages, HomeOf

LEMMA PublicIsForAll == \A page \in Public : Entitled(page) = Roles
BY DEF Public, Entitled

\* RequireRole moves the tab and changes nothing else of it.
LEMMA GuardedTypeOK ==
    ASSUME NEW rec \in TabType
    PROVE  /\ Guarded(rec) \in TabType
           /\ Guarded(rec).open = rec.open /\ Guarded(rec).status = rec.status
           /\ Guarded(rec).user = rec.user /\ Guarded(rec).seen = rec.seen
           /\ Guarded(rec).saved = rec.saved /\ Guarded(rec).access = rec.access
           /\ Guarded(rec).session = rec.session /\ Guarded(rec).refreshing = rec.refreshing
           /\ Guarded(rec).crossed = rec.crossed
<1>1. rec.page \in Private => rec.page \in Private \cup {"none"}
  OBVIOUS
<1>2. "login" \in Pages /\ "home" \in Pages
  BY PagesAreSplit
<1>3. \/ Guarded(rec) = rec
      \/ rec.page \in Private /\ Guarded(rec) = [rec EXCEPT !.page = "login", !.next = rec.page]
      \/ Guarded(rec) = [rec EXCEPT !.page = "home"]
  BY DEF Guarded
<1>4. CASE Guarded(rec) = rec
  BY <1>4
<1>5. CASE rec.page \in Private /\ Guarded(rec) = [rec EXCEPT !.page = "login", !.next = rec.page]
  BY <1>2, <1>5 DEF TabType
<1>6. CASE Guarded(rec) = [rec EXCEPT !.page = "home"]
  BY <1>2, <1>6 DEF TabType
<1>. QED  BY <1>3, <1>4, <1>5, <1>6

\* ... to where its user may be.
LEMMA GuardedPage ==
    ASSUME NEW rec \in TabType, rec.status # "loading"
    PROVE  /\ rec.user = NoOne => Guarded(rec).page \in Public
           /\ rec.user \in Accounts => Role[rec.user] \in Entitled(Guarded(rec).page)
<1>1. rec.page \in Pages /\ (rec.page \notin Private => rec.page \in Public)
  BY DEF TabType, Pages
<1>2. "login" \in Public /\ "home" \in Public
  BY PagesAreSplit
<1>3. rec.user \in Accounts => Role[rec.user] \in Roles /\ rec.user # NoOne
  BY SessionAssumption
<1>4. CASE rec.page \notin Private
  <2>1. Guarded(rec) = rec
    BY <1>4 DEF Guarded
  <2>. QED  BY <1>1, <1>3, <1>4, <2>1, PublicIsForAll
<1>5. CASE rec.page \in Private /\ rec.user = NoOne
  <2>1. Guarded(rec) = [rec EXCEPT !.page = "login", !.next = rec.page]
    BY <1>5 DEF Guarded
  <2>2. Guarded(rec).page = "login"
    BY <2>1 DEF TabType
  <2>. QED  BY <1>2, <1>3, <1>5, <2>2
<1>6. CASE rec.page \in Private /\ rec.user # NoOne /\ Role[rec.user] \in Entitled(rec.page)
  BY <1>6 DEF Guarded
<1>7. CASE rec.page \in Private /\ rec.user # NoOne /\ Role[rec.user] \notin Entitled(rec.page)
  <2>1. Guarded(rec) = [rec EXCEPT !.page = "home"]
    BY <1>7 DEF Guarded
  <2>2. Guarded(rec).page = "home"
    BY <2>1 DEF TabType
  <2>. QED  BY <1>2, <1>3, <1>7, <2>2, PublicIsForAll
<1>. QED  BY <1>4, <1>5, <1>6, <1>7

LEMMA GoToTypeOK ==
    ASSUME NEW rec \in TabType, NEW page \in Pages
    PROVE  /\ GoTo(rec, page) \in TabType
           /\ GoTo(rec, page).open = rec.open /\ GoTo(rec, page).status = rec.status
           /\ GoTo(rec, page).user = rec.user /\ GoTo(rec, page).seen = rec.seen
           /\ GoTo(rec, page).saved = rec.saved /\ GoTo(rec, page).access = rec.access
           /\ GoTo(rec, page).session = rec.session /\ GoTo(rec, page).refreshing = rec.refreshing
           /\ GoTo(rec, page).crossed = rec.crossed
           /\ rec.status # "loading" =>
                 /\ rec.user = NoOne => GoTo(rec, page).page \in Public
                 /\ rec.user \in Accounts => Role[rec.user] \in Entitled(GoTo(rec, page).page)
<1>. DEFINE moved == [rec EXCEPT !.page = page, !.next = "none"]
<1>1. /\ moved \in TabType /\ moved.open = rec.open /\ moved.status = rec.status
      /\ moved.user = rec.user /\ moved.seen = rec.seen /\ moved.saved = rec.saved
      /\ moved.access = rec.access /\ moved.session = rec.session
      /\ moved.refreshing = rec.refreshing /\ moved.crossed = rec.crossed
  BY DEF TabType
<1>2. GoTo(rec, page) = Guarded(moved)
  BY DEF GoTo
<1>. HIDE DEF moved
<1>. QED  BY <1>1, <1>2, GuardedTypeOK, GuardedPage

\* A tab nobody is signed in at.
NobodyAt(rec, old) ==
    /\ rec.access = NoAccess /\ rec.session = 0 /\ rec.user = NoOne
    /\ rec.status = "unauthenticated" /\ rec.seen = 0 /\ rec.saved = 0 /\ rec.page \in Public
    /\ rec.open = old.open /\ rec.crossed = old.crossed

LEMMA NoAccessTypeOK == NoAccess \in AccessType /\ ~NoAccess.fresh /\ NoAccess.of = NoOne
BY DEF NoAccess, AccessType

LEMMA SignedOutTypeOK ==
    ASSUME NEW rec \in TabType
    PROVE  /\ SignedOut(rec) \in TabType /\ NobodyAt(SignedOut(rec), rec)
           /\ SignedOut(rec).refreshing = rec.refreshing
<1>. DEFINE out == [rec EXCEPT !.access = NoAccess, !.session = 0, !.user = NoOne,
                               !.status = "unauthenticated", !.seen = 0, !.saved = 0]
<1>1. /\ out \in TabType /\ out.access = NoAccess /\ out.session = 0 /\ out.user = NoOne
      /\ out.status = "unauthenticated" /\ out.seen = 0 /\ out.saved = 0
      /\ out.open = rec.open /\ out.crossed = rec.crossed /\ out.refreshing = rec.refreshing
  BY NoAccessTypeOK DEF TabType
<1>2. SignedOut(rec) = Guarded(out)
  BY DEF SignedOut
<1>. HIDE DEF out
<1>. QED  BY <1>1, <1>2, GuardedTypeOK, GuardedPage DEF NobodyAt

LEMMA BlankTypeOK ==
    ASSUME NEW page \in Pages
    PROVE  /\ Blank(page) \in TabType
           /\ Blank(page).open /\ Blank(page).status = "unauthenticated" /\ Blank(page).user = NoOne
           /\ Blank(page).access = NoAccess /\ Blank(page).session = 0
           /\ ~Blank(page).refreshing /\ ~Blank(page).crossed
           /\ Blank(page).seen = 0 /\ Blank(page).saved = 0 /\ Blank(page).page = page
BY NoAccessTypeOK DEF Blank, TabType

\* A request as it leaves the tab.
LEMMA CallTypeOK ==
    ASSUME tab \in [Tabs -> TabType], NEW t \in Tabs, NEW kind \in Kinds,
           NEW who \in Accounts \cup {NoOne}, NEW ref \in Nat
    PROVE  LET c == Call(t, kind, who, ref)
           IN  /\ c \in CallType /\ c.tab = t /\ c.kind = kind /\ c.who = who /\ c.ref = ref
               /\ c.access = tab[t].access /\ ~c.retried /\ c.alive /\ c.phase = "sent"
<1>1. tab[t].access \in AccessType
  BY DEF TabType
<1>. QED  BY <1>1 DEF Call, CallType

LEMMA SessionTypes ==
    ASSUME SessionTypeOK
    PROVE  /\ Len(owner) \in Nat /\ DOMAIN owner = 1..Len(owner)
           /\ \A n \in 1..Len(owner) : owner[n] \in Accounts /\ owner[n] # NoOne
           /\ local \in Nat /\ valid \subseteq 1..Len(owner)
           /\ \A t \in Tabs : tab[t] \in TabType /\ Held(t) \in Nat
           /\ \A c \in calls : c \in CallType /\ c.tab \in Tabs
           /\ NoOne \notin Accounts /\ NoOne \notin active
<1>1. Len(owner) \in Nat /\ DOMAIN owner = 1..Len(owner) /\ \A n \in 1..Len(owner) : owner[n] \in Accounts
  BY DEF SessionTypeOK
<1>2. \A t \in Tabs : tab[t] \in TabType /\ tab[t].session \in Nat
  BY DEF SessionTypeOK, TabType
<1>3. \A c \in calls : c \in CallType /\ c.tab \in Tabs
  BY DEF SessionTypeOK, CallType
<1>. QED  BY <1>1, <1>2, <1>3, SessionAssumption DEF SessionTypeOK, Held

-----------------------------------------------------------------------------
(* The requests in flight and the tokens issued                            *)

Issuing == {"login", "register", "refresh"}
Mine == {"profile", "save", "delete"}
Repeatable == Mine \cup {"bootstrap", "data"}

\* What a request carries, by its kind and by how far it has got.  A token just issued is
\* accepted, and a refresh refused was sent with one that is not.
CallFits(c) ==
    /\ c.kind \in Issuing \cup {"logout"} => c.ref \in 0..Len(owner)
    /\ c.kind \in {"login", "register"} => c.who \in Accounts
    /\ c.kind \in {"login", "register"} /\ c.phase = "ok" =>
         c.ref \in 1..Len(owner) /\ owner[c.ref] = c.who
    /\ c.kind = "refresh" => c.ref \in 1..Len(owner) /\ c.phase \notin {"waiting", "refused"}
    /\ c.kind = "confirm" => c.goes = "login"
    /\ c.retried \/ c.phase = "waiting" => c.kind \in Repeatable
    /\ c.phase = "waiting" => ~c.retried
    /\ c.kind \in Repeatable /\ c.phase = "ok" => c.access.fresh
    /\ c.kind \in Issuing /\ c.phase = "ok" /\ owner[c.ref] \in active => c.ref \in valid
    /\ c.kind = "refresh" /\ c.phase = "unauthorized" =>
         c.ref \notin valid \/ owner[c.ref] \notin active

CallsFit == \A c \in calls : CallFits(c)

\* Whoever was ever let in has registered.
Known ==
    /\ \A a \in active : profile[a] # 0
    /\ \A n \in 1..Len(owner) : profile[owner[n]] # 0

\* A token on its way to a tab is nowhere else yet, and no request would revoke it.
NewTokens ==
    \A c \in calls : c.kind \in Issuing /\ c.phase = "ok" =>
        /\ c.ref # local
        /\ \A t \in Tabs : c.ref # tab[t].session
        /\ \A d \in calls \ {c} : d.kind \in Issuing \cup {"logout"} => d.ref # c.ref

StoresIssued == \A t \in Tabs : tab[t].session \in 0..Len(owner)

\* What no step may do to accounts and tokens.
ServerMoves ==
    /\ owner' \in Seq(Accounts) /\ Len(owner) <= Len(owner') /\ Len(owner') \in Nat
    /\ \A n \in 1..Len(owner) : owner'[n] = owner[n]
    /\ valid' \subseteq 1..Len(owner')
    /\ \A n \in 1..Len(owner) : n \in valid' => n \in valid
    /\ active' \subseteq Accounts /\ links' \subseteq Accounts
    /\ \A a \in active' : a \in active \/ profile[a] = 0
    /\ profile' \in [Accounts -> Nat] /\ \A a \in Accounts : profile[a] <= profile'[a]
    /\ Known'

\* d is what becomes of request c when it is answered, refused or lost.
AnswerOf(c, d) ==
    /\ d.tab = c.tab /\ d.kind = c.kind /\ d.access = c.access /\ d.who = c.who
    /\ d.goes = c.goes /\ d.retried = c.retried /\ d.alive = c.alive
    /\ c.phase \in {"sent", "ok"} /\ d.phase \in {"ok", "unauthorized", "refused", "lost"}
    /\ IF d.kind \in Issuing /\ d.phase = "ok"
       THEN d.ref = Len(owner) + 1 /\ Len(owner') = Len(owner) + 1
       ELSE d.ref = c.ref

\* What the answer says of the server after this step.
Told(c, d) ==
    /\ d.kind = "refresh" /\ d.phase = "ok" => owner'[d.ref] = owner[c.ref]
    /\ d.kind \in {"refresh", "logout"} /\ d.phase = "unauthorized" => c.phase = "sent"
    /\ d.kind \in Mine /\ d.phase = "ok" => d.edits = profile'[d.access.of]
    /\ \A n \in valid \ valid' :
          (c.kind \in {"refresh", "logout"} /\ n = c.ref) \/ owner[n] \notin active'

Reply(c, d) ==
    /\ d \in CallType /\ calls' = (calls \ {c}) \cup {d}
    /\ AnswerOf(c, d) /\ Told(c, d) /\ CallFits(d)'

LEMMA IssueTypeOK ==
    ASSUME SessionTypeOK, NEW a \in Accounts, NEW revoked, Issue(a, revoked)
    PROVE  /\ owner' \in Seq(Accounts) /\ Len(owner') = Len(owner) + 1
           /\ \A n \in 1..Len(owner) : owner'[n] = owner[n]
           /\ owner'[Len(owner) + 1] = a
           /\ valid' = (valid \ revoked) \cup {Len(owner) + 1}
           /\ valid' \subseteq 1..Len(owner')
<1>1. owner \in Seq(Accounts) /\ valid \subseteq 1..Len(owner) /\ Len(owner) \in Nat
  BY SessionTypes DEF SessionTypeOK
<1>2. owner' = Append(owner, a) /\ valid' = (valid \ revoked) \cup {Len(owner) + 1}
  BY DEF Issue
<1>3. /\ owner' \in Seq(Accounts) /\ Len(owner') = Len(owner) + 1
      /\ \A n \in 1..Len(owner) : owner'[n] = owner[n]
      /\ owner'[Len(owner) + 1] = a
  BY <1>1, <1>2, AppendProperties
<1>4. 1..Len(owner) \subseteq 1..(Len(owner) + 1) /\ Len(owner) + 1 \in 1..(Len(owner) + 1)
  BY <1>1
<1>5. valid' \subseteq 1..(Len(owner) + 1)
  BY <1>1, <1>2, <1>4
<1>. QED  BY <1>2, <1>3, <1>5

LEMMA IssueMoves ==
    ASSUME SessionTypeOK, Known, NEW a \in Accounts, NEW revoked, Issue(a, revoked),
           active' \subseteq Accounts, links' \subseteq Accounts, profile' \in [Accounts -> Nat],
           \A b \in active' : b \in active \/ profile[b] = 0,
           \A b \in Accounts : profile[b] <= profile'[b],
           profile'[a] # 0, \A b \in active' : profile'[b] # 0
    PROVE  ServerMoves
<1>1. /\ owner' \in Seq(Accounts) /\ Len(owner') = Len(owner) + 1 /\ Len(owner) \in Nat
      /\ \A n \in 1..Len(owner) : owner'[n] = owner[n]
      /\ owner'[Len(owner) + 1] = a
      /\ valid' = (valid \ revoked) \cup {Len(owner) + 1}
      /\ valid' \subseteq 1..Len(owner')
  BY IssueTypeOK, SessionTypes
<1>2. \A n \in 1..Len(owner) : n \in valid' => n \in valid
  BY <1>1
<1>3. \A n \in 1..Len(owner') : profile'[owner'[n]] # 0
  <2>. SUFFICES ASSUME NEW n \in 1..Len(owner') PROVE profile'[owner'[n]] # 0
    OBVIOUS
  <2>1. CASE n = Len(owner) + 1
    BY <1>1, <2>1
  <2>2. CASE n \in 1..Len(owner)
    <3>1. owner'[n] = owner[n] /\ owner[n] \in Accounts /\ profile[owner[n]] # 0
      BY <1>1, <2>2, SessionTypes DEF Known
    <3>2. profile[owner[n]] \in Nat /\ profile'[owner[n]] \in Nat /\ profile[owner[n]] <= profile'[owner[n]]
      BY <3>1 DEF SessionTypeOK
    <3>. QED  BY <3>1, <3>2
  <2>. QED  BY <1>1, <2>1, <2>2
<1>4. Len(owner) <= Len(owner') /\ Len(owner') \in Nat
  BY <1>1
<1>. QED  BY <1>1, <1>2, <1>3, <1>4 DEF ServerMoves, Known

\* What has to be shown of an answer; the rest it has from the request.
LEMMA AnswerFits ==
    ASSUME NEW c \in CallType, CallFits(c), NEW d \in CallType, AnswerOf(c, d),
           Len(owner) \in Nat, Len(owner') \in Nat, Len(owner) <= Len(owner'),
           d.kind \in {"login", "register"} /\ d.phase = "ok" =>
             d.ref \in 1..Len(owner') /\ owner'[d.ref] = d.who,
           d.kind = "refresh" => d.ref \in 1..Len(owner') /\ d.phase # "refused",
           d.kind \in Repeatable /\ d.phase = "ok" => d.access.fresh,
           d.kind \in Issuing /\ d.phase = "ok" /\ owner'[d.ref] \in active' => d.ref \in valid',
           d.kind = "refresh" /\ d.phase = "unauthorized" =>
             d.ref \notin valid' \/ owner'[d.ref] \notin active'
    PROVE  CallFits(d)'
<1>1. /\ d.kind = c.kind /\ d.who = c.who /\ d.goes = c.goes /\ d.retried = c.retried
      /\ d.phase \in {"ok", "unauthorized", "refused", "lost"}
  BY DEF AnswerOf
<1>2. /\ d.kind \in {"login", "register"} => d.who \in Accounts
      /\ d.kind = "confirm" => d.goes = "login"
  BY <1>1 DEF CallFits
<1>3. d.retried => d.kind \in Repeatable
  BY <1>1 DEF CallFits
<1>4. d.phase # "waiting"
  BY <1>1
<1>5. d.kind \in Issuing \cup {"logout"} => d.ref \in 0..Len(owner')
  <2>1. 0..Len(owner) \subseteq 0..Len(owner') /\ Len(owner) + 1 \in 0..(Len(owner) + 1)
    OBVIOUS
  <2>. QED  BY <1>1, <2>1 DEF AnswerOf, CallFits
<1>. QED  BY <1>2, <1>3, <1>4, <1>5 DEF CallFits

LEMMA KindsDiffer ==
    /\ Mine \subseteq Repeatable /\ "data" \in Repeatable /\ "bootstrap" \in Repeatable
    /\ "data" \notin Mine /\ "bootstrap" \notin Mine /\ Repeatable \cap Issuing = {}
    /\ "login" \in Issuing /\ "register" \in Issuing /\ "refresh" \in Issuing
    /\ \A kind \in {"logout", "reset", "confirm"} : kind \notin Issuing \cup Repeatable
    /\ Repeatable \cap AuthEndpoints = {} /\ Issuing \subseteq AuthEndpoints
    /\ Kinds = Repeatable \cup AuthEndpoints
BY DEF Mine, Repeatable, Issuing, AuthEndpoints, Kinds

LEMMA StillMoves ==
    ASSUME SessionTypeOK, Known, UNCHANGED <<owner, profile>>, active' \subseteq active,
           valid' \subseteq valid, links' \subseteq Accounts
    PROVE  ServerMoves
BY SessionTypes DEF ServerMoves, Known, SessionTypeOK

\* Nothing happens at the server but an answer.
LEMMA RefusedReply ==
    ASSUME SessionTypeOK, CallsFit, Known, NEW c \in calls, c.phase \in {"sent", "ok"},
           NEW phase \in {"unauthorized", "refused", "lost"},
           calls' = (calls \ {c}) \cup {[c EXCEPT !.phase = phase]}, UNCHANGED server,
           c.kind = "refresh" => phase # "refused",
           c.kind \in {"refresh", "logout"} /\ phase = "unauthorized" =>
             /\ c.phase = "sent"
             /\ c.kind = "refresh" => ~(c.ref \in valid /\ owner[c.ref] \in active)
    PROVE  ServerMoves /\ \E d : Reply(c, d)
<1>1. c \in CallType /\ CallFits(c)
  BY SessionTypes DEF CallsFit
<1>2. PICK d : d = [c EXCEPT !.phase = phase]
  OBVIOUS
<1>3. /\ d \in CallType /\ d.tab = c.tab /\ d.kind = c.kind /\ d.access = c.access
      /\ d.who = c.who /\ d.goes = c.goes /\ d.retried = c.retried /\ d.alive = c.alive
      /\ d.phase = phase /\ d.ref = c.ref
  BY <1>1, <1>2 DEF CallType
<1>4. ServerMoves
  BY StillMoves DEF server, SessionTypeOK
<1>5. AnswerOf(c, d)
  BY <1>3 DEF AnswerOf
<1>6. d.kind = "refresh" => d.ref \in 1..Len(owner')
  BY <1>1, <1>3 DEF CallFits, server
<1>7. CallFits(d)'
  BY <1>1, <1>3, <1>5, <1>6, AnswerFits DEF server
<1>8. Told(c, d)
  BY <1>3 DEF Told, server
<1>. QED  BY <1>2, <1>3, <1>4, <1>5, <1>7, <1>8 DEF Reply

\* A pair of tokens is issued.
LEMMA IssuedReply ==
    ASSUME SessionTypeOK, CallsFit, NEW c \in calls, c.kind \in Issuing, c.phase = "sent",
           NEW a \in Accounts, NEW revoked, Issue(a, revoked),
           NEW d \in CallType, calls' = (calls \ {c}) \cup {d},
           d.tab = c.tab, d.kind = c.kind, d.access = c.access, d.who = c.who, d.goes = c.goes,
           d.retried = c.retried, d.alive = c.alive, d.phase = "ok", d.ref = Len(owner) + 1,
           c.kind \in {"login", "register"} => c.who = a /\ revoked = {},
           c.kind = "refresh" => a = owner[c.ref] /\ revoked = {c.ref}
    PROVE  Reply(c, d)
<1>1. c \in CallType /\ CallFits(c) /\ Len(owner) \in Nat
  BY SessionTypes DEF CallsFit
<1>2. /\ owner' \in Seq(Accounts) /\ Len(owner') = Len(owner) + 1
      /\ owner'[Len(owner) + 1] = a /\ valid' = (valid \ revoked) \cup {Len(owner) + 1}
  BY IssueTypeOK
<1>3. Len(owner) + 1 \in 1..Len(owner') /\ Len(owner) + 1 \in valid'
  BY <1>1, <1>2
<1>4. AnswerOf(c, d)
  BY <1>2 DEF AnswerOf
<1>5. CallFits(d)'
  BY <1>1, <1>2, <1>3, <1>4, KindsDiffer, AnswerFits
<1>6. \A n \in valid \ valid' : c.kind = "refresh" /\ n = c.ref
  BY <1>2 DEF Issuing
<1>7. Told(c, d)
  BY <1>2, <1>6, KindsDiffer DEF Told
<1>. QED  BY <1>4, <1>5, <1>7 DEF Reply

LEMMA ServeLoginReply ==
    ASSUME SessionTypeOK, CallsFit, Known, NEW c \in calls, c.kind = "login", c.phase = "sent",
           ServeLogin(c)
    PROVE  ServerMoves /\ \E d : Reply(c, d)
<1>1. c \in CallType /\ c.who \in Accounts /\ Len(owner) + 1 \in Nat /\ profile \in [Accounts -> Nat]
  BY SessionTypes DEF CallsFit, CallFits, SessionTypeOK
<1>2. CASE c.who \in active
  <2>1. PICK d : d = [c EXCEPT !.phase = "ok", !.ref = Len(owner) + 1, !.edits = profile[c.who]]
    OBVIOUS
  <2>2. Issue(c.who, {}) /\ calls' = (calls \ {c}) \cup {d} /\ UNCHANGED <<active, profile, links>>
    BY <1>2, <2>1 DEF ServeLogin
  <2>3. /\ d \in CallType /\ d.tab = c.tab /\ d.kind = c.kind /\ d.access = c.access
        /\ d.who = c.who /\ d.goes = c.goes /\ d.retried = c.retried /\ d.alive = c.alive
        /\ d.phase = "ok" /\ d.ref = Len(owner) + 1
    BY <1>1, <2>1 DEF CallType
  <2>4. Reply(c, d)
    BY <1>1, <2>2, <2>3, KindsDiffer, IssuedReply
  <2>5. profile[c.who] # 0 /\ \A b \in active : profile[b] # 0
    BY <1>2 DEF Known
  <2>6. /\ active' \subseteq Accounts /\ links' \subseteq Accounts /\ profile' \in [Accounts -> Nat]
        /\ \A b \in Accounts : profile[b] <= profile'[b]
    BY <2>2 DEF SessionTypeOK
  <2>7. ServerMoves
    BY <1>1, <2>2, <2>5, <2>6, IssueMoves
  <2>. QED  BY <2>4, <2>7
<1>3. CASE c.who \notin active
  BY <1>1, <1>3, RefusedReply DEF ServeLogin
<1>. QED  BY <1>2, <1>3

LEMMA ServeRegisterReply ==
    ASSUME SessionTypeOK, CallsFit, Known, NEW c \in calls, c.kind = "register", c.phase = "sent",
           ServeRegister(c)
    PROVE  ServerMoves /\ \E d : Reply(c, d)
<1>1. c \in CallType /\ c.who \in Accounts /\ Len(owner) + 1 \in Nat /\ profile \in [Accounts -> Nat]
  BY SessionTypes DEF CallsFit, CallFits, SessionTypeOK
<1>2. CASE profile[c.who] = 0
  <2>1. PICK d : d = [c EXCEPT !.phase = "ok", !.ref = Len(owner) + 1, !.edits = 1]
    OBVIOUS
  <2>2. /\ Issue(c.who, {}) /\ calls' = (calls \ {c}) \cup {d} /\ UNCHANGED links
        /\ active' = active \cup {c.who} /\ profile' = [profile EXCEPT ![c.who] = 1]
    BY <1>2, <2>1 DEF ServeRegister
  <2>3. /\ d \in CallType /\ d.tab = c.tab /\ d.kind = c.kind /\ d.access = c.access
        /\ d.who = c.who /\ d.goes = c.goes /\ d.retried = c.retried /\ d.alive = c.alive
        /\ d.phase = "ok" /\ d.ref = Len(owner) + 1
    BY <1>1, <2>1 DEF CallType
  <2>4. Reply(c, d)
    BY <1>1, <2>2, <2>3, KindsDiffer, IssuedReply
  <2>5. /\ active' \subseteq Accounts /\ links' \subseteq Accounts /\ profile' \in [Accounts -> Nat]
        /\ \A b \in Accounts : profile[b] <= profile'[b]
        /\ \A b \in active' : b \in active \/ profile[b] = 0
    BY <1>1, <1>2, <2>2 DEF SessionTypeOK
  <2>6. profile'[c.who] # 0 /\ \A b \in active' : profile'[b] # 0
    BY <1>1, <2>2 DEF Known, SessionTypeOK
  <2>7. ServerMoves
    BY <1>1, <2>2, <2>5, <2>6, IssueMoves
  <2>. QED  BY <2>4, <2>7
<1>3. CASE profile[c.who] # 0
  BY <1>1, <1>3, RefusedReply DEF ServeRegister
<1>. QED  BY <1>2, <1>3

LEMMA ServeRefreshReply ==
    ASSUME SessionTypeOK, CallsFit, Known, NEW c \in calls, c.kind = "refresh", c.phase = "sent",
           ServeRefresh(c)
    PROVE  ServerMoves /\ \E d : Reply(c, d)
<1>1. c \in CallType /\ c.ref \in 1..Len(owner) /\ owner[c.ref] \in Accounts /\ Len(owner) + 1 \in Nat
  BY SessionTypes DEF CallsFit, CallFits
<1>2. CASE c.ref \in valid /\ owner[c.ref] \in active
  <2>1. PICK d : d = [c EXCEPT !.phase = "ok", !.ref = Len(owner) + 1]
    OBVIOUS
  <2>2. /\ Issue(owner[c.ref], {c.ref}) /\ calls' = (calls \ {c}) \cup {d}
        /\ UNCHANGED <<active, profile, links>>
    BY <1>2, <2>1 DEF ServeRefresh
  <2>3. /\ d \in CallType /\ d.tab = c.tab /\ d.kind = c.kind /\ d.access = c.access
        /\ d.who = c.who /\ d.goes = c.goes /\ d.retried = c.retried /\ d.alive = c.alive
        /\ d.phase = "ok" /\ d.ref = Len(owner) + 1
    BY <1>1, <2>1 DEF CallType
  <2>4. Reply(c, d)
    BY <1>1, <2>2, <2>3, KindsDiffer, IssuedReply
  <2>5. profile[owner[c.ref]] # 0 /\ \A b \in active : profile[b] # 0
    BY <1>1 DEF Known
  <2>6. /\ active' \subseteq Accounts /\ links' \subseteq Accounts /\ profile' \in [Accounts -> Nat]
        /\ \A b \in Accounts : profile[b] <= profile'[b]
    BY <2>2 DEF SessionTypeOK
  <2>7. ServerMoves
    BY <1>1, <2>2, <2>5, <2>6, IssueMoves
  <2>. QED  BY <2>4, <2>7
<1>3. CASE ~(c.ref \in valid /\ owner[c.ref] \in active)
  <2>1. calls' = (calls \ {c}) \cup {[c EXCEPT !.phase = "unauthorized"]} /\ UNCHANGED server
    BY <1>3 DEF ServeRefresh
  <2>. QED  BY <1>1, <1>3, <2>1, RefusedReply
<1>. QED  BY <1>2, <1>3

\* LogoutView and the password reset: no token is issued, one may be revoked.
LEMMA ServeLogoutReply ==
    ASSUME SessionTypeOK, CallsFit, Known, NEW c \in calls, c.phase = "sent",
           \/ c.kind = "logout" /\ ServeLogout(c)
           \/ c.kind \in {"reset", "confirm"} /\ ServeReset(c)
    PROVE  ServerMoves /\ \E d : Reply(c, d)
<1>1. c \in CallType /\ CallFits(c)
  BY SessionTypes DEF CallsFit
<1>2. PICK phase, d :
          phase \in {"ok", "unauthorized", "refused"} /\ d = [c EXCEPT !.phase = phase] /\ calls' = (calls \ {c}) \cup {d}
  BY DEF ServeLogout, ServeReset
<1>3. /\ UNCHANGED <<owner, active, profile>> /\ valid' \subseteq valid
      /\ \A n \in valid \ valid' : c.kind = "logout" /\ n = c.ref
  BY DEF ServeLogout, ServeReset
<1>4. links' \subseteq Accounts
  BY DEF ServeLogout, ServeReset, SessionTypeOK
<1>5. /\ d \in CallType /\ d.tab = c.tab /\ d.kind = c.kind /\ d.access = c.access
      /\ d.who = c.who /\ d.goes = c.goes /\ d.retried = c.retried /\ d.alive = c.alive
      /\ d.phase = phase /\ d.ref = c.ref
  BY <1>1, <1>2 DEF CallType
<1>6. ServerMoves
  BY <1>3, <1>4, StillMoves
<1>7. c.kind \in {"logout", "reset", "confirm"}
  OBVIOUS
<1>8. AnswerOf(c, d)
  BY <1>2, <1>5, <1>7, KindsDiffer DEF AnswerOf
<1>9. CallFits(d)'
  <2>1. Len(owner) \in Nat /\ owner' = owner
    BY <1>3, SessionTypes
  <2>. QED  BY <1>1, <1>5, <1>7, <1>8, <2>1, KindsDiffer, AnswerFits
<1>10. Told(c, d)
  BY <1>3, <1>5, <1>7, KindsDiffer DEF Told
<1>. QED  BY <1>2, <1>5, <1>6, <1>8, <1>9, <1>10 DEF Reply

\* MeView and every other endpoint.
LEMMA ServeMeReply ==
    ASSUME SessionTypeOK, CallsFit, Known, NEW c \in calls, c.kind \in Repeatable, c.phase = "sent",
           c.kind = "data" => ServeData(c), c.kind # "data" => ServeMe(c)
    PROVE  ServerMoves /\ \E d : Reply(c, d)
<1>1. c \in CallType /\ CallFits(c)
  BY SessionTypes DEF CallsFit
<1>2. CASE ~LetIn(c)
  <2>1. calls' = (calls \ {c}) \cup {[c EXCEPT !.phase = "unauthorized"]} /\ UNCHANGED server
    BY <1>2 DEF ServeMe, ServeData, server
  <2>. QED  BY <1>1, <2>1, KindsDiffer, RefusedReply
<1>3. CASE LetIn(c) /\ c.kind # "data"
  <2>1. c.access.fresh /\ c.access.of \in active /\ c.access.of \in Accounts /\ c.access.of # NoOne
    BY <1>3, SessionTypes DEF LetIn, SessionTypeOK
  <2>2. /\ profile' = IF c.kind = "save" THEN [profile EXCEPT ![c.access.of] = @ + 1] ELSE profile
        /\ active' = IF c.kind = "delete" THEN active \ {c.access.of} ELSE active
        /\ valid' = IF c.kind = "delete" THEN {n \in valid : owner[n] # c.access.of} ELSE valid
        /\ UNCHANGED <<owner, links>>
    BY <1>3 DEF ServeMe
  <2>3. /\ profile' \in [Accounts -> Nat] /\ \A b \in Accounts : profile[b] <= profile'[b]
    BY <2>1, <2>2 DEF SessionTypeOK
  <2>4. PICK d : d = [c EXCEPT !.phase = "ok", !.edits = profile'[c.access.of]]
    OBVIOUS
  <2>5. calls' = (calls \ {c}) \cup {d}
    BY <1>3, <2>4 DEF ServeMe
  <2>6. /\ d \in CallType /\ d.tab = c.tab /\ d.kind = c.kind /\ d.access = c.access
        /\ d.who = c.who /\ d.goes = c.goes /\ d.retried = c.retried /\ d.alive = c.alive
        /\ d.phase = "ok" /\ d.ref = c.ref /\ d.edits = profile'[c.access.of]
    BY <1>1, <2>1, <2>3, <2>4 DEF CallType
  <2>7. active' \subseteq active /\ valid' \subseteq valid /\ links' \subseteq Accounts
    BY <2>2 DEF SessionTypeOK
  <2>8. /\ \A b \in active' : profile'[b] # 0
        /\ \A n \in 1..Len(owner) : profile'[owner[n]] # 0
    <3>1. \A b \in Accounts : profile[b] # 0 => profile'[b] # 0
      BY <2>3 DEF SessionTypeOK
    <3>. QED  BY <2>7, <3>1, SessionTypes DEF Known, SessionTypeOK
  <2>9. ServerMoves
    BY <2>2, <2>3, <2>7, <2>8, SessionTypes DEF ServerMoves, Known, SessionTypeOK
  <2>10. AnswerOf(c, d)
    BY <2>6, KindsDiffer DEF AnswerOf
  <2>11. CallFits(d)'
    <3>1. Len(owner) \in Nat /\ owner' = owner
      BY <2>2, SessionTypes
    <3>. QED  BY <1>1, <2>1, <2>6, <2>10, <3>1, KindsDiffer, AnswerFits
  <2>12. \A n \in valid \ valid' : owner[n] \notin active'
    BY <2>2
  <2>13. Told(c, d)
    BY <2>6, <2>12, KindsDiffer DEF Told
  <2>. QED  BY <2>5, <2>6, <2>9, <2>10, <2>11, <2>13 DEF Reply
<1>4. CASE LetIn(c) /\ c.kind = "data"
  <2>1. PICK d : d = [c EXCEPT !.phase = "ok"]
    OBVIOUS
  <2>2. calls' = (calls \ {c}) \cup {d} /\ UNCHANGED server
    BY <1>4, <2>1 DEF ServeData
  <2>3. /\ d \in CallType /\ d.tab = c.tab /\ d.kind = c.kind /\ d.access = c.access
        /\ d.who = c.who /\ d.goes = c.goes /\ d.retried = c.retried /\ d.alive = c.alive
        /\ d.phase = "ok" /\ d.ref = c.ref
    BY <1>1, <2>1 DEF CallType
  <2>4. ServerMoves
    BY <2>2, StillMoves DEF server, SessionTypeOK
  <2>5. AnswerOf(c, d)
    BY <2>3, KindsDiffer DEF AnswerOf
  <2>6. CallFits(d)'
    <3>1. Len(owner) \in Nat /\ owner' = owner
      BY <2>2, SessionTypes DEF server
    <3>. QED  BY <1>1, <1>4, <2>3, <2>5, <3>1, KindsDiffer, AnswerFits DEF LetIn
  <2>7. Told(c, d)
    BY <1>4, <2>2, <2>3, KindsDiffer DEF Told, server
  <2>. QED  BY <2>2, <2>3, <2>4, <2>5, <2>6, <2>7 DEF Reply
<1>. QED  BY <1>2, <1>3, <1>4

\* A request in flight is answered, refused or lost.
LEMMA ReplyStep ==
    ASSUME SessionTypeOK, CallsFit, Known, NEW c \in calls, Serve(c) \/ Refuse(c) \/ Lose(c)
    PROVE  ServerMoves /\ (\E d : Reply(c, d)) /\ UNCHANGED <<tab, local>>
<1>1. c \in CallType /\ CallFits(c) /\ c.kind \in Kinds
  BY SessionTypes DEF CallsFit, CallType
<1>2. CASE Serve(c)
  <2>1. c.phase = "sent" /\ UNCHANGED <<tab, local>>
    BY <1>2 DEF Serve
  <2>2. CASE c.kind \in {"login", "register", "refresh"}
    BY <1>2, <2>1, <2>2, ServeLoginReply, ServeRegisterReply, ServeRefreshReply DEF Serve
  <2>3. CASE c.kind \in {"logout", "reset", "confirm"}
    <3>1. \/ c.kind = "logout" /\ ServeLogout(c)
          \/ c.kind \in {"reset", "confirm"} /\ ServeReset(c)
      BY <1>2, <2>3 DEF Serve
    <3>. QED  BY <2>1, <3>1, ServeLogoutReply
  <2>4. CASE c.kind \in Repeatable
    <3>1. (c.kind = "data" => ServeData(c)) /\ (c.kind # "data" => ServeMe(c))
      BY <1>2, <2>4 DEF Serve, Repeatable, Mine
    <3>. QED  BY <2>1, <2>4, <3>1, ServeMeReply
  <2>. QED  BY <1>1, <2>2, <2>3, <2>4 DEF Kinds, AuthEndpoints, Repeatable, Mine
<1>3. CASE Refuse(c)
  <2>1. c.kind \in {"data", "save"} /\ c.phase = "sent" /\ UNCHANGED <<tab, local, server>>
        /\ calls' = (calls \ {c}) \cup {[c EXCEPT !.phase = "refused"]}
    BY <1>3 DEF Refuse
  <2>. QED  BY <2>1, RefusedReply DEF server
<1>4. CASE Lose(c)
  <2>1. c.phase \in {"sent", "ok"} /\ UNCHANGED <<tab, local, server>>
        /\ calls' = (calls \ {c}) \cup {[c EXCEPT !.phase = "lost"]}
    BY <1>4 DEF Lose
  <2>. QED  BY <2>1, RefusedReply DEF server
<1>. QED  BY <1>2, <1>3, <1>4

-----------------------------------------------------------------------------
(* The tabs                                                                *)

LEMMA BecomeStep ==
    ASSUME tab \in [Tabs -> TabType], NEW t \in Tabs, NEW rec \in TabType, NEW n, NEW done,
           Become(t, rec, n, done)
    PROVE  /\ local' = n /\ tab' \in [Tabs -> TabType]
           /\ Alike(tab'[t], rec) /\ \A u \in Tabs \ {t} : Alike(tab'[u], tab[u])
           /\ \A u \in Tabs : tab[u].crossed => tab'[u].crossed
           /\ ~tab'[t].crossed =>
                \A c \in Of(t) \ done :
                   c.kind \in Identity /\ (\A d \in done : d.kind # c.kind) => c.phase = "waiting"
           /\ \A u \in Tabs \ {t} :
                 tab[u].open /\ ~tab'[u].crossed => local = n \/ (n # 0 /\ owner[n] = tab[u].user)
<1>. DEFINE crossed == Crosses(t, done, n)
            busy == \E c \in Of(t) \ done :
                       c.kind \in Identity \ {d.kind : d \in done} /\ c.phase # "waiting"
            moved(u) == u # t /\ tab[u].open /\ local # n /\ (n = 0 \/ owner[n] # tab[u].user)
<1>1. /\ local' = n
      /\ tab' = [u \in Tabs |-> [(IF u = t THEN rec ELSE tab[u]) EXCEPT !.crossed = crossed[u]]]
  BY DEF Become
<1>2. \A u \in Tabs : crossed[u] = (tab[u].crossed \/ (u = t /\ busy) \/ moved(u))
  BY DEF Crosses
<1>3. \A u \in Tabs : crossed[u] \in BOOLEAN
  BY <1>2
<1>4. \A u \in Tabs : /\ tab[u].crossed => crossed[u]
                      /\ u = t /\ busy => crossed[u]
                      /\ moved(u) => crossed[u]
  BY <1>2
<1>5. ~busy => \A c \in Of(t) \ done :
                 c.kind \in Identity /\ (\A d \in done : d.kind # c.kind) => c.phase = "waiting"
  OBVIOUS
<1>6. \A u \in Tabs \ {t} : ~moved(u) /\ tab[u].open => local = n \/ (n # 0 /\ owner[n] = tab[u].user)
  OBVIOUS
<1>. HIDE DEF crossed, busy, moved
<1>7. /\ tab' \in [Tabs -> TabType]
      /\ Alike(tab'[t], rec) /\ \A u \in Tabs \ {t} : Alike(tab'[u], tab[u])
      /\ \A u \in Tabs : tab'[u].crossed = crossed[u]
  BY <1>1, <1>3 DEF TabType, Alike
<1>. QED  BY <1>1, <1>4, <1>5, <1>6, <1>7

\* A request refused with 401 waits for the refresh, ...
LEMMA WaitingCall ==
    ASSUME NEW c \in CallType, CallFits(c), Retriable(c)
    PROVE  LET w == [c EXCEPT !.phase = "waiting"]
           IN  /\ w \in CallType /\ CallFits(w)
               /\ w.tab = c.tab /\ w.kind = c.kind /\ w.access = c.access /\ w.ref = c.ref
               /\ w.retried = c.retried /\ w.alive = c.alive /\ w.phase = "waiting"
               /\ ~c.retried /\ c.kind \in Repeatable
<1>. DEFINE w == [c EXCEPT !.phase = "waiting"]
<1>1. /\ w \in CallType /\ w.tab = c.tab /\ w.kind = c.kind /\ w.access = c.access /\ w.ref = c.ref
      /\ w.retried = c.retried /\ w.alive = c.alive /\ w.phase = "waiting"
  BY DEF CallType
<1>. HIDE DEF w
<1>2. ~c.retried /\ c.kind \in Repeatable /\ c.kind \notin AuthEndpoints
  BY KindsDiffer DEF Retriable, CallType
<1>3. c.kind \notin Issuing \cup {"logout"} /\ c.kind \notin {"login", "register", "refresh", "confirm"}
  BY <1>2 DEF AuthEndpoints, Issuing
<1>4. CallFits(w)
  BY <1>1, <1>2, <1>3 DEF CallFits
<1>. QED  BY <1>1, <1>2, <1>4 DEF w

\* ... and is sent again with what it brought.
LEMMA ResentCall ==
    ASSUME NEW c \in CallType, CallFits(c), c.phase = "waiting", NEW access \in AccessType
    PROVE  LET w == [c EXCEPT !.phase = "sent", !.retried = TRUE, !.access = access]
           IN  /\ w \in CallType /\ CallFits(w)
               /\ w.tab = c.tab /\ w.kind = c.kind /\ w.access = access /\ w.ref = c.ref
               /\ w.retried /\ w.alive = c.alive /\ w.phase = "sent" /\ c.kind \in Repeatable
<1>. DEFINE w == [c EXCEPT !.phase = "sent", !.retried = TRUE, !.access = access]
<1>1. /\ w \in CallType /\ w.tab = c.tab /\ w.kind = c.kind /\ w.access = access /\ w.ref = c.ref
      /\ w.retried /\ w.alive = c.alive /\ w.phase = "sent"
  BY DEF CallType
<1>. HIDE DEF w
<1>2. c.kind \in Repeatable
  BY DEF CallFits
<1>3. c.kind \notin Issuing \cup {"logout"} /\ c.kind \notin {"login", "register", "refresh", "confirm"}
  BY <1>2, KindsDiffer
<1>4. CallFits(w)
  BY <1>1, <1>2, <1>3 DEF CallFits
<1>. QED  BY <1>1, <1>2, <1>4 DEF w

\* What a tab asks for when its user presses a button.
Asked(t, d) ==
    /\ d \in CallType /\ CallFits(d) /\ calls' = calls \cup {d} /\ UNCHANGED <<server, local, tab>>
    /\ tab[t].open /\ d.tab = t /\ d.alive /\ d.phase = "sent" /\ ~d.retried
    /\ d.access = tab[t].access
    /\ d.kind \notin {"refresh", "bootstrap", "profile"}
    /\ d.kind \in Mine \cup {"data"} => tab[t].page \in Private /\ tab[t].status # "loading"
    /\ d.kind \in Mine => \A c \in Of(t) : c.kind # d.kind
    /\ d.kind \in {"login", "register"} => d.ref = 0
    /\ d.kind = "logout" => tab[t].status = "authenticated" /\ d.ref = Held(t)

LEMMA NewCallFits ==
    ASSUME SessionTypeOK, NEW t \in Tabs, NEW kind \in Kinds \ {"refresh", "confirm"},
           NEW who \in Accounts \cup {NoOne}, NEW ref \in Nat,
           kind \in Issuing \cup {"logout"} => ref = 0,
           kind \in {"login", "register"} => who \in Accounts
    PROVE  CallFits(Call(t, kind, who, ref))
<1>. DEFINE c == Call(t, kind, who, ref)
<1>1. c.kind = kind /\ c.who = who /\ ~c.retried /\ c.phase = "sent" /\ c.ref = ref
  <2>1. tab \in [Tabs -> TabType]
    BY DEF SessionTypeOK
  <2>. QED  BY <2>1, CallTypeOK
<1>. HIDE DEF c
<1>2. 0 \in 0..Len(owner)
  BY SessionTypes
<1>3. CallFits(c)
  BY <1>1, <1>2 DEF CallFits
<1>. QED  BY <1>3 DEF c

LEMMA LogoutCallFits ==
    ASSUME SessionTypeOK, StoresIssued, NEW t \in Tabs, NEW goes \in Pages \cup {"none"}
    PROVE  LET c == LogoutCall(t, goes)
           IN  /\ c \in CallType /\ CallFits(c) /\ c.tab = t /\ c.kind = "logout" /\ c.alive
               /\ c.phase = "sent" /\ ~c.retried /\ c.ref = Held(t) /\ c.access = tab[t].access
<1>. DEFINE b == Call(t, "logout", NoOne, Held(t))
            c == [b EXCEPT !.goes = goes]
<1>1. "logout" \in Kinds /\ Held(t) \in Nat /\ tab \in [Tabs -> TabType]
  BY SessionTypes DEF Kinds, AuthEndpoints, SessionTypeOK
<1>2. /\ b \in CallType /\ b.tab = t /\ b.kind = "logout" /\ b.alive /\ b.phase = "sent"
      /\ ~b.retried /\ b.ref = Held(t) /\ b.access = tab[t].access
  BY <1>1, CallTypeOK
<1>. HIDE DEF b
<1>3. /\ c \in CallType /\ c.tab = t /\ c.kind = "logout" /\ c.alive /\ c.phase = "sent"
      /\ ~c.retried /\ c.ref = Held(t) /\ c.access = tab[t].access
  BY <1>2 DEF CallType
<1>. HIDE DEF c
<1>4. Held(t) \in 0..Len(owner)
  BY DEF Held, StoresIssued, SessionTypeOK
<1>5. CallFits(c)
  BY <1>3, <1>4 DEF CallFits, Issuing, Repeatable, Mine
<1>. QED  BY <1>3, <1>5 DEF LogoutCall, b, c

Asks(t) ==
    \/ SubmitLogin(t) \/ SubmitRegister(t) \/ AskForLink(t) \/ SetPassword(t) \/ SubmitProfile(t)
    \/ SubmitDeletion(t) \/ Query(t) \/ (Logout(t) /\ Held(t) # 0)

LEMMA AskStep ==
    ASSUME SessionTypeOK, StoresIssued, NEW t \in Tabs, Asks(t)
    PROVE  \E d : Asked(t, d)
<1>1. /\ tab \in [Tabs -> TabType] /\ tab[t] \in TabType /\ links \subseteq Accounts /\ NoOne \notin Accounts
      /\ 0 \in 0..Len(owner)
  BY SessionTypes DEF SessionTypeOK
<1>2. Kinds = {"login", "register", "logout", "refresh", "reset", "confirm", "bootstrap", "profile",
               "save", "delete", "data"}
  BY DEF Kinds, AuthEndpoints
<1>3. CASE SubmitLogin(t)
  <2>1. PICK a, remember, d :
           /\ a \in Accounts /\ remember \in BOOLEAN
           /\ d = [Call(t, "login", a, 0) EXCEPT !.remember = remember, !.goes = tab[t].next]
           /\ calls' = calls \cup {d}
    BY <1>3 DEF SubmitLogin, Send
  <2>. DEFINE b == Call(t, "login", a, 0)
  <2>2. /\ b \in CallType /\ b.tab = t /\ b.kind = "login" /\ b.who = a /\ b.access = tab[t].access
        /\ b.ref = 0 /\ ~b.retried /\ b.alive /\ b.phase = "sent"
    BY <1>1, <1>2, <2>1, CallTypeOK
  <2>. HIDE DEF b
  <2>3. tab[t].next \in Pages \cup {"none"}
    BY <1>1, PagesAreSplit DEF TabType
  <2>4. d = [b EXCEPT !.remember = remember, !.goes = tab[t].next]
    BY <2>1 DEF b
  <2>5. /\ d \in CallType /\ d.tab = t /\ d.kind = "login" /\ d.who = a /\ d.access = tab[t].access
        /\ d.ref = 0 /\ ~d.retried /\ d.alive /\ d.phase = "sent"
    BY <2>1, <2>2, <2>3, <2>4 DEF CallType
  <2>6. CallFits(d)
    BY <1>1, <2>1, <2>5 DEF CallFits
  <2>. QED  BY <1>3, <2>1, <2>5, <2>6 DEF Asked, SubmitLogin, Mounted, Mine
<1>4. CASE SubmitRegister(t)
  <2>1. PICK a, d : a \in Accounts /\ d = Call(t, "register", a, 0) /\ calls' = calls \cup {d}
    BY <1>4 DEF SubmitRegister, Send
  <2>2. /\ d \in CallType /\ d.tab = t /\ d.kind = "register" /\ d.access = tab[t].access
        /\ d.ref = 0 /\ ~d.retried /\ d.alive /\ d.phase = "sent" /\ CallFits(d)
    BY <1>1, <1>2, <2>1, CallTypeOK, NewCallFits
  <2>. QED  BY <1>4, <2>1, <2>2 DEF Asked, SubmitRegister, Mounted, Mine
<1>5. CASE AskForLink(t)
  <2>1. PICK a, d : a \in Accounts /\ d = Call(t, "reset", a, 0) /\ calls' = calls \cup {d}
    BY <1>5 DEF AskForLink, Send
  <2>2. /\ d \in CallType /\ d.tab = t /\ d.kind = "reset" /\ d.access = tab[t].access
        /\ ~d.retried /\ d.alive /\ d.phase = "sent" /\ CallFits(d)
    BY <1>1, <1>2, <2>1, CallTypeOK, NewCallFits
  <2>. QED  BY <1>5, <2>1, <2>2 DEF Asked, AskForLink, Mounted, Mine
<1>6. CASE SetPassword(t)
  <2>1. PICK a, d :
           a \in Accounts /\ d = [Call(t, "confirm", a, 0) EXCEPT !.goes = "login"] /\ calls' = calls \cup {d}
    BY <1>1, <1>6 DEF SetPassword, Send
  <2>. DEFINE b == Call(t, "confirm", a, 0)
  <2>2. /\ b \in CallType /\ b.tab = t /\ b.kind = "confirm" /\ b.access = tab[t].access
        /\ ~b.retried /\ b.alive /\ b.phase = "sent"
    BY <1>1, <1>2, <2>1, CallTypeOK
  <2>. HIDE DEF b
  <2>3. d = [b EXCEPT !.goes = "login"]
    BY <2>1 DEF b
  <2>4. /\ d \in CallType /\ d.tab = t /\ d.kind = "confirm" /\ d.access = tab[t].access
        /\ ~d.retried /\ d.alive /\ d.phase = "sent" /\ d.goes = "login"
    BY <2>2, <2>3, PagesAreSplit DEF CallType
  <2>5. CallFits(d)
    BY <2>4 DEF CallFits, Issuing, Repeatable, Mine
  <2>. QED  BY <1>6, <2>1, <2>4, <2>5 DEF Asked, SetPassword, Mounted, Mine
<1>7. CASE SubmitProfile(t) \/ SubmitDeletion(t)
  <2>1. PICK kind, d :
           kind \in {"save", "delete"} /\ d = Call(t, kind, NoOne, 0) /\ calls' = calls \cup {d} /\ ~Pending(t, {kind})
    BY <1>7 DEF SubmitProfile, SubmitDeletion, Send
  <2>2. /\ d \in CallType /\ d.tab = t /\ d.kind = kind /\ d.access = tab[t].access
        /\ ~d.retried /\ d.alive /\ d.phase = "sent" /\ CallFits(d)
    BY <1>1, <1>2, <2>1, CallTypeOK, NewCallFits
  <2>3. /\ tab[t].open /\ tab[t].page \in Private /\ tab[t].status # "loading"
        /\ UNCHANGED <<server, local, tab>>
    BY <1>7 DEF SubmitProfile, SubmitDeletion, Mounted, Private
  <2>4. \A c \in Of(t) : c.kind # kind
    BY <2>1 DEF Pending
  <2>. QED  BY <2>1, <2>2, <2>3, <2>4 DEF Asked
<1>8. CASE Query(t)
  <2>1. PICK query, d : query \in 1..2 /\ d = Call(t, "data", NoOne, query) /\ calls' = calls \cup {d}
    BY <1>8 DEF Query, Send
  <2>2. /\ d \in CallType /\ d.tab = t /\ d.kind = "data" /\ d.access = tab[t].access
        /\ ~d.retried /\ d.alive /\ d.phase = "sent" /\ CallFits(d)
    BY <1>1, <1>2, <2>1, KindsDiffer, CallTypeOK, NewCallFits
  <2>3. /\ tab[t].open /\ tab[t].page \in Private /\ tab[t].status # "loading"
        /\ UNCHANGED <<server, local, tab>>
    BY <1>8 DEF Query, Mounted
  <2>. QED  BY <2>1, <2>2, <2>3, KindsDiffer DEF Asked
<1>9. CASE Logout(t) /\ Held(t) # 0
  <2>1. PICK goes, d : goes \in {"none", "home"} /\ d = LogoutCall(t, goes) /\ calls' = calls \cup {d}
    BY <1>9 DEF Logout, Send
  <2>2. /\ d \in CallType /\ CallFits(d) /\ d.tab = t /\ d.kind = "logout" /\ d.alive
        /\ d.phase = "sent" /\ ~d.retried /\ d.ref = Held(t) /\ d.access = tab[t].access
    BY <2>1, PagesAreSplit, LogoutCallFits
  <2>3. tab[t].open /\ tab[t].status = "authenticated" /\ UNCHANGED <<server, local, tab>>
    BY <1>9 DEF Logout
  <2>. QED  BY <2>1, <2>2, <2>3 DEF Asked, Mine
<1>. QED  BY <1>3, <1>4, <1>5, <1>6, <1>7, <1>8, <1>9 DEF Asks

-----------------------------------------------------------------------------
(* What a step does to a tab, by its kind                                  *)

\* The other tabs notice nothing, unless localStorage gets another account's token or none.
OthersStay(t) ==
    \A u \in Tabs \ {t} :
        /\ Alike(tab'[u], tab[u]) /\ (tab[u].crossed => tab'[u].crossed)
        /\ tab[u].open /\ ~tab'[u].crossed =>
             local' = local \/ (local' # 0 /\ owner[local'] = tab[u].user)

\* Tab t keeps its identity to itself only if nothing else was on its way about it.
KeepsApart(t, done) ==
    ~tab'[t].crossed =>
         \A c \in Of(t) \ done :
            c.kind \in Identity /\ (\A d \in done : d.kind # c.kind) => c.phase = "waiting"

\* Requests of tab t that end, and those it sends instead.
Swaps(t, done, sent) ==
    /\ done \subseteq Of(t) /\ calls' = (calls \ done) \cup sent
    /\ \A d \in sent :
         /\ d \in CallType /\ CallFits(d) /\ d.tab = t /\ d.alive /\ d.phase \in {"sent", "waiting"}
         /\ d.kind \in Issuing \cup {"logout"} => d.ref \in {0, Held(t)}

StoresFit == local' \in 0..Len(owner) /\ tab' \in [Tabs -> TabType] /\ StoresIssued' /\ UNCHANGED server

\* What is stored was stored before or has just been answered.
Stores(t, done) ==
    \A n \in {local', tab'[t].session} :
        \/ n \in {0, local, tab[t].session}
        \/ \E c \in done : c.kind \in Issuing /\ c.phase = "ok" /\ n = c.ref

\* A step of tab t, which ends the requests done and sends others.
AtTab(t, done, sent) ==
    /\ tab[t].open /\ tab'[t].open /\ (tab[t].crossed => tab'[t].crossed)
    /\ StoresFit /\ OthersStay(t) /\ Swaps(t, done, sent) /\ Stores(t, done)

\* A 401 waits for the refresh, which it may be the first to ask for.
Parks(t, c, sent) ==
    /\ AtTab(t, {c}, sent) /\ UNCHANGED local
    /\ c.phase = "unauthorized" /\ c.kind \in Repeatable
    /\ tab' = [tab EXCEPT ![t].refreshing = TRUE]
    /\ \E w \in sent :
         /\ w.kind = c.kind /\ w.phase = "waiting" /\ w.ref = c.ref /\ w.access = c.access
         /\ w.retried = c.retried /\ ~c.retried
         /\ \/ tab[t].refreshing /\ sent = {w}
            \/ /\ ~tab[t].refreshing /\ Held(t) # 0
               /\ \E r : sent = {w, r} /\ r.kind = "refresh" /\ r.ref = Held(t) /\ r.phase = "sent"

\* Why a session may end.
Ends(t, done) ==
    \/ Held(t) = 0
    \/ \E c \in done : \/ c.kind = "logout" \/ c.retried \/ c.phase = "lost"
                       \/ c.kind = "refresh" /\ c.phase = "unauthorized"

\* The session of tab t ends.
SignsOff(t, done) ==
    /\ AtTab(t, done, {}) /\ KeepsApart(t, done) /\ local' = 0 /\ Ends(t, done)
    /\ tab'[t].access = NoAccess /\ tab'[t].session = 0 /\ tab'[t].user = NoOne
    /\ tab'[t].status = "unauthenticated" /\ tab'[t].saved = 0 /\ tab'[t].page \in Public
    /\ \/ ~tab'[t].refreshing /\ \A c \in Of(t) \ done : c.kind # "refresh" /\ c.phase # "waiting"
       \/ tab'[t].refreshing = tab[t].refreshing /\ \A c \in done : c.kind # "refresh"

\* What waited for a refresh, sent again.
Again(w, access) == [w EXCEPT !.phase = "sent", !.retried = TRUE, !.access = access]

\* The pair of the refresh is stored and whoever waited is sent again.
Refreshes(t, c, sent) ==
    /\ AtTab(t, {c} \cup Waiting(t), sent) /\ KeepsApart(t, {c} \cup Waiting(t)) /\ local' = c.ref
    /\ c.kind = "refresh" /\ c.phase = "ok"
    /\ tab'[t].access.of = owner[c.ref] /\ ~tab'[t].refreshing
    /\ tab'[t].page = tab[t].page /\ tab'[t].status = tab[t].status
    /\ tab'[t].user = tab[t].user /\ tab'[t].seen = tab[t].seen /\ tab'[t].saved = tab[t].saved
    /\ \A d \in sent : /\ d.phase = "sent" /\ d.retried /\ d.access = tab'[t].access
                       /\ \E w \in Waiting(t) :
                             d = Again(w, tab'[t].access) /\ d.kind = w.kind /\ d.ref = w.ref

\* Somebody logs in or registers.
SignsIn(t, c) ==
    /\ AtTab(t, {c}, {}) /\ KeepsApart(t, {c})
    /\ c.kind \in {"login", "register"} /\ c.phase = "ok" /\ c.who \in Accounts
    /\ local' = c.ref \/ (local' = 0 /\ tab'[t].session = c.ref)
    /\ tab'[t].user = c.who /\ tab'[t].access.of = c.who /\ tab'[t].status = "authenticated"
    /\ tab'[t].saved = 0 /\ Role[c.who] \in Entitled(tab'[t].page)
    /\ tab'[t].refreshing = tab[t].refreshing

\* The page and the user of tab t change and its tokens do not.
Turns(t, done, sent) ==
    /\ AtTab(t, done, sent) /\ UNCHANGED local
    /\ tab'[t].access = tab[t].access /\ tab'[t].session = tab[t].session
    /\ tab'[t].refreshing = tab[t].refreshing
    /\ \/ /\ tab'[t].page = tab[t].page /\ tab'[t].user = tab[t].user
          /\ tab'[t].status = tab[t].status
       \/ tab'[t].status # "loading" =>
             /\ tab'[t].user = NoOne => tab'[t].page \in Public
             /\ tab'[t].user \in Accounts => Role[tab'[t].user] \in Entitled(tab'[t].page)
    /\ \A c \in done : c.kind \notin {"refresh", "logout"} /\ c.phase # "waiting"
    /\ \A d \in sent : d.phase = "sent" /\ ~d.retried /\ d.access = tab[t].access

\* An answer tells tab t who it is (bootstrap, refreshUser).
LearnsUser(t, c) ==
    /\ Turns(t, {c}, {}) /\ c.phase = "ok"
    /\ tab'[t].user = c.access.of /\ tab'[t].status = "authenticated" /\ tab'[t].seen = c.edits
    /\ \/ c.kind = "bootstrap" /\ tab'[t].saved = tab[t].saved
       \/ c.kind = "profile" /\ tab'[t].saved = c.ref

\* The bootstrap is lost: nobody is shown, the stores keep what they hold.
LearnsNothing(t, c) ==
    /\ Turns(t, {c}, {}) /\ c.kind = "bootstrap" /\ c.phase = "lost" /\ ~c.retried
    /\ tab'[t].user = NoOne /\ tab'[t].status = "unauthenticated" /\ tab'[t].saved = tab[t].saved
    /\ tab'[t].seen = tab[t].seen

\* The user and the profile shown stay, the page may change.
Moves(t, done, sent) ==
    /\ Turns(t, done, sent)
    /\ tab'[t].user = tab[t].user /\ tab'[t].status = tab[t].status
    /\ tab'[t].seen = tab[t].seen /\ tab'[t].saved = tab[t].saved
    /\ \A d, e \in sent : d = e
    /\ \A c \in done : c.kind # "bootstrap"
    /\ \A d \in sent :
         \/ d.kind = "logout" /\ d.ref = Held(t) /\ (\E c \in done : c.kind = "delete")
         \/ /\ d.kind = "profile"
            /\ \E c \in done : c.kind = "save" /\ c.phase = "ok" /\ d.ref = c.edits
            /\ tab'[t].crossed \/ \A c \in Of(t) : c.kind # "profile"

\* A page loaded anew: nobody listens to the answers any more, and the tab asks who it is
\* if a token is stored.
Orphan(c) == [c EXCEPT !.alive = FALSE]
Left(t) == (calls \ Of(t)) \cup {Orphan(c) : c \in Of(t)}

Starts(t) ==
    /\ StoresFit /\ UNCHANGED local /\ \A u \in Tabs \ {t} : tab'[u] = tab[u]
    /\ tab'[t].open /\ ~tab'[t].refreshing /\ tab'[t].user = NoOne /\ tab'[t].saved = 0
    /\ tab'[t].access = NoAccess
    /\ ~tab'[t].crossed => \/ ~tab[t].open
                           \/ ~tab[t].crossed /\ ~Pending(t, Identity)
    /\ \/ /\ tab'[t].status = "unauthenticated" /\ tab'[t].page \in Public
          /\ local = 0 /\ tab'[t].session = 0 /\ calls' = Left(t)
          /\ tab[t].open => Held(t) = 0
       \/ /\ tab'[t].status = "loading" /\ tab'[t].session = tab[t].session /\ Held(t) # 0
          /\ \E b : /\ calls' = Left(t) \cup {b} /\ b \in CallType /\ CallFits(b)
                    /\ b.tab = t /\ b.kind = "bootstrap" /\ b.alive /\ b.phase = "sent"
                    /\ ~b.retried /\ b.access = NoAccess

LEMMA ParkStep ==
    ASSUME SessionTypeOK, CallsFit, StoresIssued, NEW c \in calls, c.alive, tab[c.tab].open,
           UNCHANGED server, BeginRefresh(c) \/ JoinRefresh(c)
    PROVE  \E sent : Parks(c.tab, c, sent)
<1>. DEFINE t == c.tab
            w == [c EXCEPT !.phase = "waiting"]
            r == Call(t, "refresh", NoOne, Held(t))
<1>1. c \in CallType /\ CallFits(c) /\ t \in Tabs /\ tab[t] \in TabType /\ tab \in [Tabs -> TabType]
  BY SessionTypes DEF CallsFit, SessionTypeOK
<1>2. c \in Of(t)
  BY DEF Of
<1>3. Retriable(c) /\ c.phase = "unauthorized"
  BY DEF BeginRefresh, JoinRefresh, Retriable
<1>4. /\ w \in CallType /\ CallFits(w)
      /\ w.tab = t /\ w.kind = c.kind /\ w.access = c.access /\ w.ref = c.ref
      /\ w.retried = c.retried /\ w.alive /\ w.phase = "waiting"
      /\ ~c.retried /\ c.kind \in Repeatable
  BY <1>1, <1>3, WaitingCall
<1>5. local' = local /\ tab' = [tab EXCEPT ![t].refreshing = TRUE]
  <2>1. CASE BeginRefresh(c)
    BY <2>1 DEF BeginRefresh
  <2>2. CASE JoinRefresh(c)
    <3>1. tab' = tab /\ local' = local /\ tab[t].refreshing
      BY <2>2 DEF JoinRefresh
    <3>2. [tab[t] EXCEPT !.refreshing = TRUE] = tab[t]
      BY <1>1, <3>1 DEF TabType
    <3>. QED  BY <1>1, <3>1, <3>2
  <2>. QED  BY <2>1, <2>2
<1>6. local' \in 0..Len(owner) /\ tab' \in [Tabs -> TabType] /\ StoresIssued'
  BY <1>1, <1>5 DEF TabType, StoresIssued, SessionTypeOK, server
<1>7. StoresFit /\ OthersStay(t) /\ Stores(t, {c}) /\ tab'[t].open /\ tab'[t].crossed = tab[t].crossed
  <2>1. /\ tab'[t].session = tab[t].session /\ tab'[t].open = tab[t].open
        /\ tab'[t].crossed = tab[t].crossed
        /\ \A u \in Tabs \ {t} : tab'[u] = tab[u]
    BY <1>1, <1>5 DEF TabType
  <2>. QED  BY <1>5, <1>6, <2>1 DEF StoresFit, OthersStay, Alike, Stores
<1>8. w.kind \notin Issuing \cup {"logout"}
  BY <1>4, KindsDiffer
<1>9. CASE BeginRefresh(c)
  <2>1. /\ calls' = (calls \ {c}) \cup {w, r} /\ ~tab[t].refreshing /\ Held(t) # 0
    BY <1>9 DEF BeginRefresh
  <2>2. Held(t) \in 1..Len(owner)
    BY <2>1, SessionTypes DEF Held, StoresIssued, SessionTypeOK
  <2>3. r \in CallType /\ r.kind = "refresh" /\ r.ref = Held(t) /\ r.phase = "sent" /\ r.alive
        /\ r.tab = t /\ ~r.retried
    BY <1>1, SessionTypes, CallTypeOK DEF Kinds, AuthEndpoints
  <2>. HIDE DEF r, w
  <2>4. CallFits(r)
    BY <2>2, <2>3, KindsDiffer DEF CallFits
  <2>. DEFINE sent == {w, r}
  <2>5. Swaps(t, {c}, sent)
    BY <1>2, <1>4, <1>8, <2>1, <2>3, <2>4 DEF Swaps
  <2>6. AtTab(t, {c}, sent)
    BY <1>7, <2>5 DEF AtTab
  <2>7. Parks(t, c, sent)
    BY <1>3, <1>4, <1>5, <2>1, <2>3, <2>6 DEF Parks
  <2>. QED  BY <2>7
<1>10. CASE JoinRefresh(c)
  <2>1. calls' = (calls \ {c}) \cup {w} /\ tab[t].refreshing
    BY <1>10 DEF JoinRefresh
  <2>. HIDE DEF w
  <2>. DEFINE sent == {w}
  <2>2. Swaps(t, {c}, sent)
    BY <1>2, <1>4, <1>8, <2>1 DEF Swaps
  <2>3. AtTab(t, {c}, sent)
    BY <1>7, <2>2 DEF AtTab
  <2>4. Parks(t, c, sent)
    BY <1>3, <1>4, <1>5, <2>1, <2>3 DEF Parks
  <2>. QED  BY <2>4
<1>. QED  BY <1>9, <1>10

\* One refresh at a time, and nobody waits without it; a tab not opened yet asks nothing.
TabFits(t) ==
    /\ ~tab[t].open => /\ tab[t].status = "unauthenticated" /\ tab[t].saved = 0
                       /\ tab[t].access = NoAccess /\ \A c \in calls : c.tab # t
    /\ tab[t].crossed \/ \A c \in calls : c.tab = t /\ c.kind \in Identity => c.alive
    /\ \A c \in Of(t) : c.kind = "refresh" \/ c.phase = "waiting" => tab[t].refreshing
    /\ tab[t].refreshing => \E c \in Of(t) : c.kind = "refresh"
    /\ \A c, d \in Of(t) : c.kind = d.kind /\ c.kind \in {"refresh", "bootstrap"} => c = d
    /\ tab[t].crossed \/ \A c, d \in Of(t) : c.kind = d.kind /\ c.kind \in Mine => c = d

TabsFit == \A t \in Tabs : TabFits(t)

\* Of a tab whose traffic about its identity has not crossed: its refresh is for the account
\* whose token it holds, ...
RefreshFits(t) ==
    \A c \in Of(t) : c.kind = "refresh" => Held(t) # 0 /\ owner[c.ref] = owner[Held(t)]

\* ... what it shows is whom its tokens and its requests act for, ...
ShownFits(t) ==
    /\ tab[t].access.of = tab[t].user
    /\ Held(t) # 0 /\ owner[Held(t)] = tab[t].user
    /\ Role[tab[t].user] \in Entitled(tab[t].page)
    /\ \A c \in Of(t) : /\ c.kind # "bootstrap"
                        /\ c.kind \in Mine => c.access.of = tab[t].user

\* ... with nobody signed in no request of an account is on its way, ...
NobodyFits(t) ==
    /\ tab[t].access = NoAccess /\ tab[t].user = NoOne /\ tab[t].page \in Public
    /\ \A c \in Of(t) : /\ c.kind \notin Mine \cup {"bootstrap", "refresh"}
                        /\ Held(t) # 0 => c.kind # "data"

\* ... and while it asks who it is nothing else is: a first answer without a token cannot
\* be a profile, a second one is of the account whose token it holds.
AskingFits(t) ==
    /\ tab[t].user = NoOne /\ Held(t) # 0 /\ tab[t].saved = 0
    /\ \A c \in Of(t) :
         /\ c.kind \notin Mine \cup {"data", "logout"}
         /\ c.kind = "bootstrap" =>
              /\ tab[t].refreshing => c.phase = "waiting"
              /\ ~c.retried => c.access = NoAccess /\ tab[t].access = NoAccess
              /\ c.retried => c.access.of = owner[Held(t)] /\ tab[t].access.of = owner[Held(t)]

Apart(t) == tab[t].open /\ ~tab[t].crossed

Same(t) ==
    Apart(t) => /\ RefreshFits(t)
                /\ tab[t].status = "authenticated" => ShownFits(t)
                /\ tab[t].status = "unauthenticated" => NobodyFits(t)
                /\ tab[t].status = "loading" => AskingFits(t)

\* The only tab refreshes with the token it holds, ...
RefreshesHeld(t) ==
    Alone(t) /\ Apart(t) =>
        \A c \in Of(t) : c.kind = "refresh" /\ c.phase \in {"sent", "unauthorized"} => c.ref = Held(t)

\* ... which the server accepts unless a request that revokes it is on its way.
HeldAccepted(t) ==
    /\ Alone(t) /\ Apart(t) /\ ~Pending(t, {"refresh", "logout"})
    /\ Held(t) # 0 /\ owner[Held(t)] \in active
    => Held(t) \in valid

\* A saved profile is no newer than the server's, nor than the one that comes with it.
SavesFit(t) ==
    Apart(t) =>
        /\ tab[t].saved <= tab[t].seen
        /\ \A c \in Of(t) :
             /\ c.kind = "save" /\ c.phase = "ok" => c.edits <= profile[c.access.of]
             /\ c.kind = "profile" => c.ref <= profile[c.access.of]
             /\ c.kind = "profile" /\ c.phase = "ok" => c.ref <= c.edits

Fits(t) == Same(t) /\ RefreshesHeld(t) /\ HeldAccepted(t) /\ SavesFit(t)

SessionInv ==
    /\ SessionTypeOK /\ CallsFit /\ StoresIssued /\ Known /\ NewTokens
    /\ tab[First].open /\ TabsFit /\ \A t \in Tabs : Fits(t)

LEMMA StoredByBecome ==
    ASSUME SessionTypeOK, StoresIssued, NEW t \in Tabs, NEW rec \in TabType, NEW n \in 0..Len(owner),
           NEW done, Become(t, rec, n, done), UNCHANGED server, rec.session \in 0..Len(owner)
    PROVE  /\ StoresFit /\ OthersStay(t) /\ Alike(tab'[t], rec) /\ KeepsApart(t, done)
           /\ local' = n /\ (tab[t].crossed => tab'[t].crossed)
<1>1. tab \in [Tabs -> TabType] /\ owner' = owner
  BY DEF SessionTypeOK, server
<1>2. /\ local' = n /\ tab' \in [Tabs -> TabType]
      /\ Alike(tab'[t], rec) /\ \A u \in Tabs \ {t} : Alike(tab'[u], tab[u])
      /\ \A u \in Tabs : tab[u].crossed => tab'[u].crossed
      /\ ~tab'[t].crossed =>
           \A c \in Of(t) \ done :
              c.kind \in Identity /\ (\A d \in done : d.kind # c.kind) => c.phase = "waiting"
      /\ \A u \in Tabs \ {t} :
            tab[u].open /\ ~tab'[u].crossed => local = n \/ (n # 0 /\ owner[n] = tab[u].user)
  BY <1>1, BecomeStep
<1>3. StoresIssued'
  <2>. SUFFICES ASSUME NEW u \in Tabs PROVE tab'[u].session \in 0..Len(owner)
    BY <1>1 DEF StoresIssued
  <2>1. CASE u = t
    BY <1>2, <2>1 DEF Alike
  <2>2. CASE u # t
    BY <1>2, <2>2 DEF Alike, StoresIssued
  <2>. QED  BY <2>1, <2>2
<1>4. StoresFit
  BY <1>2, <1>3 DEF StoresFit
<1>5. OthersStay(t)
  BY <1>2 DEF OthersStay
<1>6. KeepsApart(t, done)
  BY <1>2 DEF KeepsApart
<1>. QED  BY <1>2, <1>4, <1>5, <1>6

LEMMA SignOffStep ==
    ASSUME SessionTypeOK, StoresIssued, NEW t \in Tabs, NEW rec \in TabType, NEW done,
           NobodyAt(rec, tab[t]), Become(t, rec, 0, done), UNCHANGED server,
           done \subseteq Of(t), calls' = calls \ done, tab[t].open, Ends(t, done),
           \/ ~rec.refreshing /\ \A c \in Of(t) \ done : c.kind # "refresh" /\ c.phase # "waiting"
           \/ rec.refreshing = tab[t].refreshing /\ \A c \in done : c.kind # "refresh"
    PROVE  SignsOff(t, done)
<1>1. 0 \in 0..Len(owner) /\ rec.session \in 0..Len(owner)
  BY SessionTypes DEF NobodyAt
<1>2. /\ StoresFit /\ OthersStay(t) /\ Alike(tab'[t], rec) /\ KeepsApart(t, done) /\ local' = 0
      /\ tab[t].crossed => tab'[t].crossed
  BY <1>1, StoredByBecome
<1>3. Swaps(t, done, {})
  BY DEF Swaps
<1>4. /\ tab'[t].access = NoAccess /\ tab'[t].session = 0 /\ tab'[t].user = NoOne
      /\ tab'[t].status = "unauthenticated" /\ tab'[t].saved = 0 /\ tab'[t].page \in Public
      /\ tab'[t].open = tab[t].open /\ tab'[t].refreshing = rec.refreshing
  BY <1>2 DEF Alike, NobodyAt
<1>5. AtTab(t, done, {})
  BY <1>2, <1>3, <1>4 DEF AtTab, Stores
<1>. QED  BY <1>2, <1>4, <1>5 DEF SignsOff

LEMMA RefreshFailsStep ==
    ASSUME SessionTypeOK, CallsFit, StoresIssued, TabsFit, NEW c \in calls, c.alive,
           tab[c.tab].open, UNCHANGED server, RefreshFails(c)
    PROVE  SignsOff(c.tab, {c} \cup Waiting(c.tab))
<1>. DEFINE t == c.tab
            done == {c} \cup Waiting(t)
            out == SignedOut(tab[t])
            rec == [out EXCEPT !.refreshing = FALSE]
<1>1. t \in Tabs /\ tab[t] \in TabType /\ c \in Of(t) /\ TabFits(t)
  BY SessionTypes DEF Of, TabsFit
<1>2. out \in TabType /\ NobodyAt(out, tab[t])
  BY <1>1, SignedOutTypeOK
<1>3. Become(t, rec, 0, done) /\ calls' = calls \ done
  BY DEF RefreshFails
<1>. HIDE DEF out
<1>4. rec \in TabType /\ NobodyAt(rec, tab[t]) /\ ~rec.refreshing
  BY <1>2 DEF TabType, NobodyAt
<1>5. done \subseteq Of(t)
  BY <1>1 DEF Waiting
<1>6. \A d \in Of(t) \ done : d.kind # "refresh" /\ d.phase # "waiting"
  <2>. SUFFICES ASSUME NEW d \in Of(t) \ done PROVE d.kind # "refresh" /\ d.phase # "waiting"
    OBVIOUS
  <2>1. d.phase # "waiting"
    BY DEF Waiting
  <2>2. d.kind # "refresh"
    <3>1. CASE c.kind = "refresh"
      BY <1>1, <3>1 DEF TabFits
    <3>2. CASE ~tab[t].refreshing
      BY <1>1, <3>2 DEF TabFits
    <3>. QED  BY <3>1, <3>2 DEF RefreshFails
  <2>. QED  BY <2>1, <2>2
<1>7. Ends(t, done)
  BY DEF RefreshFails, Ends
<1>. HIDE DEF rec, done
<1>8. SignsOff(t, done)
  BY <1>1, <1>3, <1>4, <1>5, <1>6, <1>7, SignOffStep
<1>. QED  BY <1>8 DEF done

LEMMA LeaverTypeOK ==
    ASSUME NEW rec \in TabType, NEW page \in Pages
    PROVE  LET out == SignedOut(GoTo(rec, page))
           IN  out \in TabType /\ NobodyAt(out, rec) /\ out.refreshing = rec.refreshing
<1>1. GoTo(rec, page) \in TabType /\ GoTo(rec, page).open = rec.open
      /\ GoTo(rec, page).crossed = rec.crossed /\ GoTo(rec, page).refreshing = rec.refreshing
  BY GoToTypeOK
<1>. QED  BY <1>1, SignedOutTypeOK DEF NobodyAt

\* A retry that fails again, and the ways to log out.
LEMMA LeaveStep ==
    ASSUME SessionTypeOK, CallsFit, StoresIssued, NEW c \in calls, c.alive, tab[c.tab].open,
           UNCHANGED server,
           RetryFails(c) \/ LogoutAnswered(c) \/ (DeletionAnswered(c) /\ Held(c.tab) = 0)
    PROVE  SignsOff(c.tab, {c})
<1>. DEFINE t == c.tab
<1>1. t \in Tabs /\ tab[t] \in TabType /\ c \in Of(t) /\ CallFits(c) /\ "home" \in Pages
  BY SessionTypes, PagesAreSplit DEF Of, CallsFit
<1>2. PICK rec \in {SignedOut(tab[t]), SignedOut(GoTo(tab[t], "home"))} :
         Become(t, rec, 0, {c}) /\ calls' = calls \ {c}
  <2>1. CASE RetryFails(c)
    BY <2>1 DEF RetryFails
  <2>2. CASE LogoutAnswered(c)
    <3>1. CASE c.goes = "home"
      BY <2>2, <3>1 DEF LogoutAnswered
    <3>2. CASE c.goes # "home"
      BY <2>2, <3>2 DEF LogoutAnswered
    <3>. QED  BY <3>1, <3>2
  <2>3. CASE DeletionAnswered(c) /\ Held(c.tab) = 0
    BY <2>3 DEF DeletionAnswered
  <2>. QED  BY <2>1, <2>2, <2>3
<1>3. rec \in TabType /\ NobodyAt(rec, tab[t]) /\ rec.refreshing = tab[t].refreshing
  BY <1>1, SignedOutTypeOK, LeaverTypeOK
<1>4. c.kind # "refresh"
  BY <1>1, KindsDiffer DEF RetryFails, LogoutAnswered, DeletionAnswered, CallFits
<1>5. {c} \subseteq Of(t)
  BY <1>1
<1>6. Ends(t, {c})
  BY DEF Ends, RetryFails, LogoutAnswered
<1>. QED  BY <1>1, <1>2, <1>3, <1>4, <1>5, <1>6, SignOffStep

LEMMA LogoutStep ==
    ASSUME SessionTypeOK, StoresIssued, NEW t \in Tabs, Logout(t), Held(t) = 0
    PROVE  SignsOff(t, {})
<1>1. tab[t] \in TabType /\ "home" \in Pages
  BY SessionTypes, PagesAreSplit
<1>2. PICK rec \in {SignedOut(tab[t]), SignedOut(GoTo(tab[t], "home"))} :
         Become(t, rec, 0, {}) /\ calls' = calls /\ UNCHANGED server
  <2>1. CASE tab[t].page \in {"home", "booking"}
    BY <2>1 DEF Logout
  <2>2. CASE tab[t].page \notin {"home", "booking"}
    BY <2>2 DEF Logout
  <2>. QED  BY <2>1, <2>2
<1>3. rec \in TabType /\ NobodyAt(rec, tab[t]) /\ rec.refreshing = tab[t].refreshing
  BY <1>1, SignedOutTypeOK, LeaverTypeOK
<1>4. calls' = calls \ {}
  BY <1>2
<1>5. {} \subseteq Of(t) /\ \A c \in {} : c.kind # "refresh"
  OBVIOUS
<1>6. tab[t].open /\ Ends(t, {})
  BY DEF Logout, Ends
<1>. QED  BY <1>2, <1>3, <1>4, <1>5, <1>6, SignOffStep

LEMMA RefreshStep ==
    ASSUME SessionTypeOK, CallsFit, StoresIssued, NEW c \in calls, c.alive, tab[c.tab].open,
           UNCHANGED server, RefreshSucceeds(c)
    PROVE  \E sent : Refreshes(c.tab, c, sent)
<1>. DEFINE t == c.tab
            done == {c} \cup Waiting(t)
            held == Holding(tab[t], c.ref, owner[c.ref], TRUE)
            rec == [held EXCEPT !.refreshing = FALSE]
            sent == {Again(w, rec.access) : w \in Waiting(t)}
<1>1. /\ t \in Tabs /\ tab[t] \in TabType /\ c \in Of(t) /\ CallFits(c) /\ c.kind = "refresh" /\ c.phase = "ok"
      /\ Len(owner) \in Nat
  BY SessionTypes DEF Of, CallsFit, RefreshSucceeds
<1>2. c.ref \in 1..Len(owner) /\ c.ref \in Nat /\ owner[c.ref] \in Accounts
  BY <1>1, SessionTypes DEF CallFits
<1>3. /\ held \in TabType /\ held.access.of = owner[c.ref] /\ held.session = 0
      /\ held.open = tab[t].open /\ held.page = tab[t].page /\ held.status = tab[t].status
      /\ held.user = tab[t].user /\ held.seen = tab[t].seen /\ held.saved = tab[t].saved
  <2>1. [of |-> owner[c.ref], fresh |-> TRUE] \in AccessType
    BY <1>2 DEF AccessType
  <2>. QED  BY <1>1, <2>1 DEF Holding, TabType
<1>4. Become(t, rec, c.ref, done)
  BY DEF RefreshSucceeds, Kept
<1>5. calls' = (calls \ done) \cup sent
  BY DEF RefreshSucceeds, Again
<1>. HIDE DEF held
<1>6. /\ rec \in TabType /\ rec.access.of = owner[c.ref] /\ rec.session = 0 /\ ~rec.refreshing
      /\ rec.open = tab[t].open /\ rec.page = tab[t].page /\ rec.status = tab[t].status
      /\ rec.user = tab[t].user /\ rec.seen = tab[t].seen /\ rec.saved = tab[t].saved
      /\ rec.access \in AccessType
  BY <1>3 DEF TabType
<1>. HIDE DEF rec
<1>7. done \subseteq Of(t)
  BY <1>1 DEF Waiting
<1>8. \A d \in sent :
        /\ d \in CallType /\ CallFits(d) /\ d.tab = t /\ d.alive /\ d.phase = "sent" /\ d.retried
        /\ d.access = rec.access /\ d.kind \in Repeatable
        /\ \E w \in Waiting(t) : d = Again(w, rec.access) /\ d.kind = w.kind /\ d.ref = w.ref
  <2>. SUFFICES ASSUME NEW w \in Waiting(t)
                PROVE  LET d == Again(w, rec.access)
                       IN  /\ d \in CallType /\ CallFits(d) /\ d.tab = t /\ d.alive /\ d.phase = "sent"
                           /\ d.retried /\ d.access = rec.access /\ d.kind \in Repeatable
                           /\ d.kind = w.kind /\ d.ref = w.ref
    OBVIOUS
  <2>1. w \in CallType /\ CallFits(w) /\ w.phase = "waiting" /\ w.tab = t /\ w.alive
    BY SessionTypes DEF Waiting, Of, CallsFit
  <2>. QED  BY <1>6, <2>1, ResentCall DEF Again
<1>. HIDE DEF sent, done
<1>9. Swaps(t, done, sent)
  BY <1>5, <1>7, <1>8, KindsDiffer DEF Swaps
<1>10. c.ref \in 0..Len(owner) /\ rec.session \in 0..Len(owner)
  BY <1>1, <1>2, <1>6
<1>11. /\ StoresFit /\ OthersStay(t) /\ Alike(tab'[t], rec) /\ KeepsApart(t, done)
       /\ local' = c.ref /\ (tab[t].crossed => tab'[t].crossed)
  BY <1>1, <1>4, <1>6, <1>10, StoredByBecome
<1>12. /\ tab'[t].access = rec.access /\ tab'[t].session = 0 /\ ~tab'[t].refreshing
       /\ tab'[t].open = tab[t].open /\ tab'[t].page = tab[t].page /\ tab'[t].status = tab[t].status
       /\ tab'[t].user = tab[t].user /\ tab'[t].seen = tab[t].seen /\ tab'[t].saved = tab[t].saved
  BY <1>6, <1>11 DEF Alike
<1>13. c \in done
  BY DEF done
<1>14. Stores(t, done)
  BY <1>1, <1>11, <1>12, <1>13 DEF Stores, Issuing
<1>15. AtTab(t, done, sent)
  BY <1>9, <1>11, <1>12, <1>14 DEF AtTab
<1>16. \A d \in sent : /\ d.phase = "sent" /\ d.retried /\ d.access = tab'[t].access
                       /\ \E w \in Waiting(t) :
                             d = Again(w, tab'[t].access) /\ d.kind = w.kind /\ d.ref = w.ref
  BY <1>8, <1>12
<1>17. Refreshes(t, c, sent)
  BY <1>1, <1>6, <1>11, <1>12, <1>15, <1>16 DEF Refreshes, done
<1>. QED  BY <1>17

LEMMA SignInStep ==
    ASSUME SessionTypeOK, CallsFit, StoresIssued, NEW c \in calls, c.alive, tab[c.tab].open,
           UNCHANGED server, SignInAnswered(c)
    PROVE  SignsIn(c.tab, c)
<1>. DEFINE t == c.tab
            page == IF c.goes = "none" THEN HomeOf(Role[c.who]) ELSE c.goes
            held == Holding(tab[t], c.ref, c.who, c.remember)
            known == SignedIn(held, c.who, c.edits)
            new == [known EXCEPT !.saved = 0]
            rec == GoTo(new, page)
            n == Kept(c.ref, c.remember)
<1>1. /\ t \in Tabs /\ tab[t] \in TabType /\ c \in Of(t) /\ CallFits(c) /\ c \in CallType
      /\ c.kind \in {"login", "register"} /\ c.phase = "ok" /\ Len(owner) \in Nat
  BY SessionTypes DEF Of, CallsFit, SignInAnswered
<1>2. c.ref \in 1..Len(owner) /\ c.ref \in Nat /\ c.who \in Accounts
  BY <1>1, SessionTypes DEF CallFits
<1>3. c.remember \in BOOLEAN /\ c.edits \in Nat /\ c.goes \in Pages \cup {"none"}
  BY <1>1 DEF CallType
<1>4. page \in Pages
  BY <1>3, PagesAreSplit
<1>5. Become(t, rec, n, {c}) /\ calls' = calls \ {c}
  BY DEF SignInAnswered
<1>6. /\ held \in TabType /\ held.access.of = c.who
      /\ held.session = (IF c.remember THEN 0 ELSE c.ref)
      /\ held.open = tab[t].open /\ held.refreshing = tab[t].refreshing
  <2>1. [of |-> c.who, fresh |-> TRUE] \in AccessType /\ (IF c.remember THEN 0 ELSE c.ref) \in Nat
    BY <1>2, <1>3 DEF AccessType
  <2>. QED  BY <1>1, <2>1 DEF Holding, TabType
<1>7. n = IF c.remember THEN c.ref ELSE 0
  BY DEF Kept
<1>. HIDE DEF held, page, n
<1>8. /\ known \in TabType /\ known.access.of = c.who /\ known.session = held.session
      /\ known.open = tab[t].open /\ known.refreshing = tab[t].refreshing
      /\ known.user = c.who /\ known.status = "authenticated"
  BY <1>2, <1>3, <1>6 DEF SignedIn, TabType
<1>. HIDE DEF known
<1>9. /\ new \in TabType /\ new.access.of = c.who /\ new.session = held.session
      /\ new.open = tab[t].open /\ new.refreshing = tab[t].refreshing
      /\ new.user = c.who /\ new.status = "authenticated" /\ new.saved = 0
  BY <1>8 DEF TabType
<1>. HIDE DEF new
<1>10. /\ rec \in TabType /\ rec.access.of = c.who /\ rec.session = held.session
       /\ rec.open = tab[t].open /\ rec.refreshing = tab[t].refreshing
       /\ rec.user = c.who /\ rec.status = "authenticated" /\ rec.saved = 0
       /\ Role[c.who] \in Entitled(rec.page)
  BY <1>2, <1>4, <1>9, GoToTypeOK
<1>. HIDE DEF rec
<1>11. n \in 0..Len(owner) /\ rec.session \in 0..Len(owner)
  BY <1>1, <1>2, <1>6, <1>7, <1>10
<1>12. /\ StoresFit /\ OthersStay(t) /\ Alike(tab'[t], rec) /\ KeepsApart(t, {c})
       /\ local' = n /\ (tab[t].crossed => tab'[t].crossed)
  BY <1>1, <1>5, <1>10, <1>11, StoredByBecome
<1>13. /\ tab'[t].access = rec.access /\ tab'[t].session = rec.session
       /\ tab'[t].open = rec.open /\ tab'[t].page = rec.page /\ tab'[t].status = rec.status
       /\ tab'[t].user = rec.user /\ tab'[t].saved = rec.saved
       /\ tab'[t].refreshing = rec.refreshing
  BY <1>12 DEF Alike
<1>14. \/ local' = c.ref /\ tab'[t].session = 0
       \/ local' = 0 /\ tab'[t].session = c.ref
  BY <1>3, <1>6, <1>7, <1>10, <1>12, <1>13
<1>15. Stores(t, {c})
  BY <1>1, <1>14 DEF Stores, Issuing
<1>16. Swaps(t, {c}, {})
  BY <1>1, <1>5 DEF Swaps
<1>17. AtTab(t, {c}, {})
  BY <1>10, <1>12, <1>13, <1>15, <1>16 DEF AtTab
<1>. QED  BY <1>1, <1>2, <1>10, <1>12, <1>13, <1>14, <1>17 DEF SignsIn

\* Only the page, the user and the profile shown of tab t may change.
LEMMA TurnStep ==
    ASSUME SessionTypeOK, StoresIssued, NEW t \in Tabs, NEW rec \in TabType, NEW done, NEW sent,
           tab' = [tab EXCEPT ![t] = rec], UNCHANGED local, UNCHANGED server, tab[t].open,
           rec.open = tab[t].open, rec.access = tab[t].access, rec.session = tab[t].session,
           rec.refreshing = tab[t].refreshing, tab[t].crossed => rec.crossed,
           Swaps(t, done, sent),
           \A c \in done : c.kind \notin {"refresh", "logout"} /\ c.phase # "waiting",
           \A d \in sent : d.phase = "sent" /\ ~d.retried /\ d.access = tab[t].access,
           \/ /\ rec.page = tab[t].page /\ rec.user = tab[t].user /\ rec.status = tab[t].status
           \/ rec.status # "loading" =>
                /\ rec.user = NoOne => rec.page \in Public
                /\ rec.user \in Accounts => Role[rec.user] \in Entitled(rec.page)
    PROVE  Turns(t, done, sent) /\ tab'[t] = rec
<1>1. tab'[t] = rec /\ (\A u \in Tabs \ {t} : tab'[u] = tab[u]) /\ tab' \in [Tabs -> TabType]
  BY DEF SessionTypeOK
<1>2. StoresFit
  <2>1. StoresIssued'
    BY <1>1 DEF StoresIssued, server
  <2>. QED  BY <1>1, <2>1 DEF StoresFit, SessionTypeOK
<1>3. OthersStay(t) /\ Stores(t, done)
  BY <1>1 DEF OthersStay, Alike, Stores
<1>4. AtTab(t, done, sent)
  BY <1>1, <1>2, <1>3 DEF AtTab
<1>. QED  BY <1>1, <1>4 DEF Turns

LEMMA NavigateStep ==
    ASSUME SessionTypeOK, StoresIssued, NEW t \in Tabs, Navigate(t)
    PROVE  Moves(t, {}, {})
<1>1. tab[t] \in TabType /\ tab[t].open /\ UNCHANGED <<server, local, calls>>
  BY SessionTypes DEF Navigate, Mounted
<1>2. PICK page \in Links(tab[t]) : tab' = [tab EXCEPT ![t] = GoTo(tab[t], page)]
  BY <1>1 DEF Navigate, SessionTypeOK
<1>3. page \in Pages
  BY PagesAreSplit DEF Links, NavbarLinks, SidebarLinks, AuthLinks, Pages, Public, Private
<1>4. /\ GoTo(tab[t], page) \in TabType
      /\ GoTo(tab[t], page).open = tab[t].open /\ GoTo(tab[t], page).status = tab[t].status
      /\ GoTo(tab[t], page).user = tab[t].user /\ GoTo(tab[t], page).seen = tab[t].seen
      /\ GoTo(tab[t], page).saved = tab[t].saved /\ GoTo(tab[t], page).access = tab[t].access
      /\ GoTo(tab[t], page).session = tab[t].session
      /\ GoTo(tab[t], page).refreshing = tab[t].refreshing
      /\ GoTo(tab[t], page).crossed = tab[t].crossed
      /\ tab[t].status # "loading" =>
            /\ tab[t].user = NoOne => GoTo(tab[t], page).page \in Public
            /\ tab[t].user \in Accounts => Role[tab[t].user] \in Entitled(GoTo(tab[t], page).page)
  BY <1>1, <1>3, GoToTypeOK
<1>5. Swaps(t, {}, {})
  BY <1>1 DEF Swaps
<1>6. PICK rec : rec = GoTo(tab[t], page)
  OBVIOUS
<1>7. /\ rec \in TabType /\ rec.open = tab[t].open /\ rec.access = tab[t].access
      /\ rec.session = tab[t].session /\ rec.refreshing = tab[t].refreshing
      /\ tab[t].crossed => rec.crossed
      /\ rec.status # "loading" =>
            /\ rec.user = NoOne => rec.page \in Public
            /\ rec.user \in Accounts => Role[rec.user] \in Entitled(rec.page)
  BY <1>4, <1>6
<1>8. tab' = [tab EXCEPT ![t] = rec] /\ UNCHANGED local /\ UNCHANGED server /\ tab[t].open
  BY <1>1, <1>2, <1>6
<1>. DEFINE none == {}
<1>9. /\ Swaps(t, none, none)
      /\ \A c \in none : c.kind \notin {"refresh", "logout"} /\ c.phase # "waiting"
      /\ \A d \in none : d.phase = "sent" /\ ~d.retried /\ d.access = tab[t].access
  BY <1>5
<1>. HIDE DEF none
<1>10. Turns(t, none, none) /\ tab'[t] = rec
  BY <1>7, <1>8, <1>9, TurnStep
<1>. QED  BY <1>4, <1>6, <1>10 DEF Moves, none

LEMMA LearnStep ==
    ASSUME SessionTypeOK, CallsFit, StoresIssued, NEW c \in calls, c.alive, tab[c.tab].open,
           UNCHANGED server, BootstrapAnswered(c) \/ ProfileAnswered(c)
    PROVE  LearnsUser(c.tab, c) \/ LearnsNothing(c.tab, c)
<1>. DEFINE t == c.tab
            user == c.access.of
<1>1. /\ t \in Tabs /\ tab[t] \in TabType /\ c \in Of(t) /\ c \in CallType /\ tab \in [Tabs -> TabType]
      /\ c.kind \in {"bootstrap", "profile"} /\ calls' = calls \ {c} /\ UNCHANGED local
  BY SessionTypes DEF Of, BootstrapAnswered, ProfileAnswered, SessionTypeOK
<1>2. user \in Accounts \cup {NoOne} /\ c.edits \in Nat /\ c.ref \in Nat
  BY <1>1 DEF CallType, AccessType
<1>3. Swaps(t, {c}, {})
  BY <1>1 DEF Swaps
<1>4. CASE c.phase = "lost" /\ c.kind = "bootstrap"
  <2>. DEFINE new == [tab[t] EXCEPT !.user = NoOne, !.status = "unauthenticated"]
              rec == Guarded(new)
  <2>1. tab' = [tab EXCEPT ![t] = rec] /\ ~c.retried
    BY <1>1, <1>4 DEF BootstrapAnswered, ProfileAnswered
  <2>2. /\ new \in TabType /\ new.open = tab[t].open /\ new.access = tab[t].access
        /\ new.session = tab[t].session /\ new.refreshing = tab[t].refreshing
        /\ new.crossed = tab[t].crossed /\ new.seen = tab[t].seen /\ new.saved = tab[t].saved
        /\ new.user = NoOne /\ new.status = "unauthenticated"
    BY <1>1 DEF TabType
  <2>. HIDE DEF new
  <2>3. /\ rec \in TabType /\ rec.open = tab[t].open /\ rec.access = tab[t].access
        /\ rec.session = tab[t].session /\ rec.refreshing = tab[t].refreshing
        /\ rec.crossed = tab[t].crossed /\ rec.seen = tab[t].seen /\ rec.saved = tab[t].saved
        /\ rec.user = NoOne /\ rec.status = "unauthenticated" /\ rec.page \in Public
    BY <2>2, GuardedTypeOK, GuardedPage
  <2>. HIDE DEF rec
  <2>4. Turns(t, {c}, {}) /\ tab'[t] = rec
    BY <1>1, <1>3, <1>4, <2>1, <2>3, SessionAssumption, TurnStep
  <2>. QED  BY <1>4, <2>1, <2>3, <2>4 DEF LearnsNothing
<1>5. CASE c.phase = "ok"
  <2>. DEFINE known == SignedIn(tab[t], user, c.edits)
  <2>1. PICK saved, new : /\ saved \in Nat /\ new = [known EXCEPT !.saved = saved]
                          /\ tab' = [tab EXCEPT ![t] = Guarded(new)]
                          /\ \/ c.kind = "bootstrap" /\ saved = tab[t].saved
                             \/ c.kind = "profile" /\ saved = c.ref
    <3>1. CASE BootstrapAnswered(c)
      <4>1. [known EXCEPT !.saved = tab[t].saved] = known /\ tab[t].saved \in Nat
        BY <1>1, <1>2 DEF SignedIn, TabType
      <4>2. tab' = [tab EXCEPT ![t] = Guarded(known)] /\ c.kind = "bootstrap"
        BY <1>1, <1>5, <3>1 DEF BootstrapAnswered
      <4>. QED  BY <4>1, <4>2
    <3>2. CASE ProfileAnswered(c)
      <4>1. tab' = [tab EXCEPT ![t] = Guarded([known EXCEPT !.saved = c.ref])] /\ c.kind = "profile"
        BY <1>1, <3>2 DEF ProfileAnswered
      <4>. QED  BY <1>2, <4>1
    <3>. QED  BY <3>1, <3>2
  <2>2. /\ known \in TabType /\ known.open = tab[t].open /\ known.access = tab[t].access
        /\ known.session = tab[t].session /\ known.refreshing = tab[t].refreshing
        /\ known.crossed = tab[t].crossed /\ known.seen = c.edits
        /\ known.user = user /\ known.status = "authenticated"
    BY <1>1, <1>2 DEF SignedIn, TabType
  <2>. HIDE DEF known
  <2>3. /\ new \in TabType /\ new.open = tab[t].open /\ new.access = tab[t].access
        /\ new.session = tab[t].session /\ new.refreshing = tab[t].refreshing
        /\ new.crossed = tab[t].crossed /\ new.seen = c.edits /\ new.saved = saved
        /\ new.user = user /\ new.status = "authenticated"
    BY <2>1, <2>2 DEF TabType
  <2>. DEFINE rec == Guarded(new)
  <2>4. /\ rec \in TabType /\ rec.open = tab[t].open /\ rec.access = tab[t].access
        /\ rec.session = tab[t].session /\ rec.refreshing = tab[t].refreshing
        /\ rec.crossed = tab[t].crossed /\ rec.seen = c.edits /\ rec.saved = saved
        /\ rec.user = user /\ rec.status = "authenticated"
        /\ user = NoOne => rec.page \in Public
        /\ user \in Accounts => Role[user] \in Entitled(rec.page)
    <3>1. new.status # "loading"
      BY <2>3
    <3>2. /\ new.user = NoOne => rec.page \in Public
          /\ new.user \in Accounts => Role[new.user] \in Entitled(rec.page)
      BY <2>3, <3>1, GuardedPage
    <3>. QED  BY <2>3, <3>2, GuardedTypeOK
  <2>5. tab' = [tab EXCEPT ![t] = rec]
    BY <2>1
  <2>. HIDE DEF rec
  <2>6. Turns(t, {c}, {}) /\ tab'[t] = rec
    BY <1>1, <1>3, <1>5, <2>4, <2>5, TurnStep
  <2>. QED  BY <1>5, <2>1, <2>4, <2>6 DEF LearnsUser
<1>. QED  BY <1>4, <1>5 DEF BootstrapAnswered, ProfileAnswered

\* The answers that leave the user and the profile shown as they are.
LEMMA MoveStep ==
    ASSUME SessionTypeOK, CallsFit, StoresIssued, NEW c \in calls, c.alive, tab[c.tab].open,
           UNCHANGED server,
           \/ SaveAnswered(c) \/ (DeletionAnswered(c) /\ Held(c.tab) # 0)
           \/ ConfirmAnswered(c) \/ JustAnswered(c)
    PROVE  \E sent : Moves(c.tab, {c}, sent)
<1>. DEFINE t == c.tab
<1>1. /\ t \in Tabs /\ tab[t] \in TabType /\ c \in Of(t) /\ c \in CallType /\ tab \in [Tabs -> TabType]
      /\ CallFits(c) /\ {c} \subseteq Of(t) /\ Len(owner) \in Nat
  BY SessionTypes DEF Of, SessionTypeOK, CallsFit
<1>2. c.kind \notin {"refresh", "logout", "bootstrap"} /\ c.phase # "waiting" /\ UNCHANGED local
  <2>1. c.phase # "waiting" /\ UNCHANGED local
    BY DEF SaveAnswered, DeletionAnswered, ConfirmAnswered, JustAnswered
  <2>2. c.kind \notin {"refresh", "logout", "bootstrap"}
    BY DEF SaveAnswered, DeletionAnswered, ConfirmAnswered, JustAnswered
  <2>. QED  BY <2>1, <2>2
<1>3. CASE SaveAnswered(c)
  <2>1. PICK d, rec : /\ d = Call(t, "profile", NoOne, c.edits)
                      /\ rec = [tab[t] EXCEPT !.crossed = @ \/ Pending(t, {"profile"})]
    OBVIOUS
  <2>2. /\ calls' = (calls \ {c}) \cup {d} /\ tab' = [tab EXCEPT ![t] = rec]
        /\ c.kind = "save" /\ c.phase = "ok"
    BY <1>1, <1>3, <2>1 DEF SaveAnswered
  <2>3. /\ d \in CallType /\ d.tab = t /\ d.kind = "profile" /\ d.ref = c.edits
        /\ d.access = tab[t].access /\ ~d.retried /\ d.alive /\ d.phase = "sent" /\ CallFits(d)
    <3>1. /\ "profile" \in Kinds /\ "profile" \in Kinds \ {"refresh", "confirm"} /\ c.edits \in Nat
          /\ "profile" \notin Issuing \cup {"logout"} /\ "profile" \notin {"login", "register"}
          /\ NoOne \in Accounts \cup {NoOne}
      BY <1>1 DEF Kinds, Issuing, CallType
    <3>2. CallFits(d)
      BY <1>1, <2>1, <3>1, NewCallFits
    <3>3. /\ d \in CallType /\ d.tab = t /\ d.kind = "profile" /\ d.ref = c.edits
          /\ d.access = tab[t].access /\ ~d.retried /\ d.alive /\ d.phase = "sent"
      <4>1. tab[t].access \in AccessType
        BY <1>1 DEF TabType
      <4>. QED  BY <1>1, <2>1, <3>1, <4>1 DEF Call, CallType
    <3>. QED  BY <3>2, <3>3
  <2>4. (tab[t].crossed \/ Pending(t, {"profile"})) \in BOOLEAN
    BY <1>1 DEF Pending, TabType
  <2>5. /\ rec \in TabType /\ rec.open = tab[t].open /\ rec.page = tab[t].page
        /\ rec.access = tab[t].access /\ rec.session = tab[t].session
        /\ rec.refreshing = tab[t].refreshing /\ rec.seen = tab[t].seen /\ rec.saved = tab[t].saved
        /\ rec.user = tab[t].user /\ rec.status = tab[t].status
        /\ rec.crossed = (tab[t].crossed \/ Pending(t, {"profile"}))
    BY <1>1, <2>1, <2>4 DEF TabType
  <2>6. Swaps(t, {c}, {d})
    BY <1>1, <2>2, <2>3 DEF Swaps, Issuing
  <2>7. \A e \in {d} : e.phase = "sent" /\ ~e.retried /\ e.access = tab[t].access
    BY <2>3
  <2>8. \A e \in {c} : e.kind \notin {"refresh", "logout"} /\ e.phase # "waiting"
    BY <1>2
  <2>9. Turns(t, {c}, {d}) /\ tab'[t] = rec
    BY <1>1, <1>2, <2>2, <2>5, <2>6, <2>7, <2>8, TurnStep
  <2>10. tab'[t].crossed \/ \A e \in Of(t) : e.kind # "profile"
    BY <2>5, <2>9 DEF Pending
  <2>11. Moves(t, {c}, {d})
    BY <1>2, <2>2, <2>3, <2>5, <2>9, <2>10 DEF Moves
  <2>. QED  BY <2>11
<1>4. CASE DeletionAnswered(c) /\ Held(c.tab) # 0
  <2>1. PICK d : d = LogoutCall(t, "home")
    OBVIOUS
  <2>2. calls' = (calls \ {c}) \cup {d} /\ UNCHANGED tab /\ c.kind = "delete"
    BY <1>4, <2>1 DEF DeletionAnswered
  <2>3. /\ d \in CallType /\ d.tab = t /\ d.kind = "logout" /\ d.ref = Held(t)
        /\ d.access = tab[t].access /\ ~d.retried /\ d.alive /\ d.phase = "sent" /\ CallFits(d)
    <3>1. "home" \in Pages \cup {"none"}
      BY PagesAreSplit
    <3>. QED  BY <1>1, <2>1, <3>1, LogoutCallFits
  <2>4. tab' = [tab EXCEPT ![t] = tab[t]]
    BY <1>1, <2>2
  <2>5. Swaps(t, {c}, {d})
    BY <1>1, <2>2, <2>3 DEF Swaps
  <2>6. \A e \in {d} : e.phase = "sent" /\ ~e.retried /\ e.access = tab[t].access
    BY <2>3
  <2>7. \A e \in {c} : e.kind \notin {"refresh", "logout"} /\ e.phase # "waiting"
    BY <1>2
  <2>8. Turns(t, {c}, {d}) /\ tab'[t] = tab[t]
    BY <1>1, <1>2, <2>4, <2>5, <2>6, <2>7, TurnStep
  <2>9. Moves(t, {c}, {d})
    BY <1>2, <2>2, <2>3, <2>8 DEF Moves
  <2>. QED  BY <2>9
<1>5. CASE ConfirmAnswered(c) \/ JustAnswered(c)
  <2>1. PICK rec \in {tab[t], GoTo(tab[t], "login")} :
           tab' = [tab EXCEPT ![t] = rec] /\ calls' = calls \ {c}
    <3>1. CASE ConfirmAnswered(c)
      <4>1. c.goes = "login"
        BY <1>1, <3>1 DEF ConfirmAnswered, CallFits
      <4>. QED  BY <1>1, <3>1, <4>1 DEF ConfirmAnswered
    <3>2. CASE JustAnswered(c)
      <4>1. tab' = tab /\ calls' = calls \ {c}
        BY <3>2 DEF JustAnswered
      <4>2. tab' = [tab EXCEPT ![t] = tab[t]]
        BY <1>1, <4>1
      <4>. QED  BY <4>1, <4>2
    <3>. QED  BY <1>5, <3>1, <3>2
  <2>2. "login" \in Pages
    BY PagesAreSplit
  <2>3. /\ rec \in TabType /\ rec.open = tab[t].open
        /\ rec.access = tab[t].access /\ rec.session = tab[t].session
        /\ rec.refreshing = tab[t].refreshing /\ rec.seen = tab[t].seen /\ rec.saved = tab[t].saved
        /\ rec.user = tab[t].user /\ rec.status = tab[t].status /\ rec.crossed = tab[t].crossed
    <3>1. CASE rec = tab[t]
      BY <1>1, <3>1
    <3>2. CASE rec = GoTo(tab[t], "login")
      BY <1>1, <2>2, <3>2, GoToTypeOK
    <3>. QED  BY <2>1, <3>1, <3>2
  <2>4. \/ rec.page = tab[t].page /\ rec.user = tab[t].user /\ rec.status = tab[t].status
        \/ rec.status # "loading" =>
             /\ rec.user = NoOne => rec.page \in Public
             /\ rec.user \in Accounts => Role[rec.user] \in Entitled(rec.page)
    <3>1. CASE rec = tab[t]
      BY <3>1
    <3>2. CASE rec = GoTo(tab[t], "login")
      BY <1>1, <2>2, <2>3, <3>2, GoToTypeOK
    <3>. QED  BY <2>1, <3>1, <3>2
  <2>5. Swaps(t, {c}, {})
    BY <1>1, <2>1 DEF Swaps
  <2>6. \A e \in {} : e.phase = "sent" /\ ~e.retried /\ e.access = tab[t].access
    OBVIOUS
  <2>7. \A e \in {c} : e.kind \notin {"refresh", "logout"} /\ e.phase # "waiting"
    BY <1>2
  <2>8. Turns(t, {c}, {}) /\ tab'[t] = rec
    BY <1>1, <1>2, <2>1, <2>3, <2>4, <2>5, <2>6, <2>7, TurnStep
  <2>9. Moves(t, {c}, {})
    BY <1>2, <2>3, <2>8 DEF Moves
  <2>. QED  BY <2>9
<1>. QED  BY <1>3, <1>4, <1>5

LEMMA StartStep ==
    ASSUME SessionTypeOK, StoresIssued, NEW t \in Tabs, Reload(t) \/ OpenTab(t)
    PROVE  Starts(t)
<1>1. /\ tab[t] \in TabType /\ tab \in [Tabs -> TabType] /\ Len(owner) \in Nat
      /\ UNCHANGED local /\ UNCHANGED server
  BY SessionTypes DEF Reload, OpenTab, SessionTypeOK
<1>2. PICK page, stored, crossed :
        /\ page \in Pages /\ crossed \in BOOLEAN /\ Start(t, page, stored, crossed)
        /\ (stored # 0 => Held(t) # 0) /\ (stored = 0 => local = 0)
        /\ (stored = 0 /\ tab[t].open => Held(t) = 0)
        /\ ~crossed => ~tab[t].open \/ (~tab[t].crossed /\ ~Pending(t, Identity))
  <2>1. CASE Reload(t)
    <3>1. PICK crossed : crossed = (tab[t].crossed \/ Pending(t, Identity))
      OBVIOUS
    <3>2. Start(t, tab[t].page, Held(t), crossed)
      BY <2>1, <3>1 DEF Reload
    <3>3. tab[t].page \in Pages /\ crossed \in BOOLEAN
      BY <1>1, <3>1 DEF TabType, Pending
    <3>4. ~crossed => ~tab[t].crossed /\ ~Pending(t, Identity)
      BY <3>1
    <3>5. Held(t) = 0 => local = 0
      BY DEF Held
    <3>. QED  BY <3>2, <3>3, <3>4, <3>5, Zenon
  <2>2. CASE OpenTab(t)
    <3>1. PICK crossed : crossed = FALSE
      OBVIOUS
    <3>2. PICK page \in Pages : Start(t, page, local, crossed)
      BY <2>2, <3>1 DEF OpenTab
    <3>3. crossed \in BOOLEAN /\ ~tab[t].open /\ (local # 0 => Held(t) # 0)
      BY <2>2, <3>1 DEF OpenTab, Held
    <3>. QED  BY <3>2, <3>3, Zenon
  <2>. QED  BY <2>1, <2>2
<1>3. /\ Blank(page) \in TabType
      /\ Blank(page).open /\ Blank(page).status = "unauthenticated" /\ Blank(page).user = NoOne
      /\ Blank(page).access = NoAccess /\ Blank(page).session = 0
      /\ ~Blank(page).refreshing /\ Blank(page).saved = 0
  BY <1>2, BlankTypeOK
<1>4. CASE stored = 0
  <2>1. PICK shown, rec : shown = Guarded(Blank(page)) /\ rec = [shown EXCEPT !.crossed = crossed]
    OBVIOUS
  <2>2. tab' = [tab EXCEPT ![t] = rec] /\ calls' = Left(t)
    BY <1>2, <1>4, <2>1 DEF Start, Left, Orphan
  <2>3. /\ shown \in TabType /\ shown.open /\ shown.status = "unauthenticated" /\ shown.user = NoOne
        /\ shown.access = NoAccess /\ shown.session = 0 /\ ~shown.refreshing /\ shown.saved = 0
        /\ shown.page \in Public
    BY <1>3, <2>1, GuardedTypeOK, GuardedPage
  <2>4. /\ rec \in TabType /\ rec.open /\ rec.status = "unauthenticated" /\ rec.user = NoOne
        /\ rec.access = NoAccess /\ rec.session = 0 /\ ~rec.refreshing /\ rec.saved = 0
        /\ rec.page \in Public /\ rec.crossed = crossed
    BY <1>2, <2>1, <2>3 DEF TabType
  <2>5. tab'[t] = rec /\ (\A u \in Tabs \ {t} : tab'[u] = tab[u]) /\ tab' \in [Tabs -> TabType]
    BY <1>1, <2>2, <2>4
  <2>6. StoresFit
    BY <1>1, <2>4, <2>5 DEF StoresFit, StoresIssued, SessionTypeOK, server
  <2>. QED  BY <1>1, <1>2, <1>4, <2>2, <2>4, <2>5, <2>6 DEF Starts
<1>5. CASE stored # 0
  <2>1. PICK rec, b : /\ rec = [Blank(page) EXCEPT !.status = "loading", !.session = tab[t].session,
                                                   !.crossed = crossed]
                      /\ b = [Call(t, "bootstrap", NoOne, 0) EXCEPT !.access = NoAccess]
    OBVIOUS
  <2>2. tab' = [tab EXCEPT ![t] = rec] /\ calls' = Left(t) \cup {b}
    BY <1>2, <1>5, <2>1 DEF Start, Left, Orphan
  <2>3. tab[t].session \in Nat
    BY <1>1 DEF TabType
  <2>4. /\ rec \in TabType /\ rec.open /\ rec.status = "loading" /\ rec.user = NoOne
        /\ rec.access = NoAccess /\ rec.session = tab[t].session /\ ~rec.refreshing /\ rec.saved = 0
        /\ rec.crossed = crossed
    BY <1>2, <1>3, <2>1, <2>3 DEF TabType
  <2>5. tab'[t] = rec /\ (\A u \in Tabs \ {t} : tab'[u] = tab[u]) /\ tab' \in [Tabs -> TabType]
    BY <1>1, <2>2, <2>4
  <2>6. StoresFit
    BY <1>1, <2>4, <2>5 DEF StoresFit, StoresIssued, SessionTypeOK, server
  <2>7. /\ b \in CallType /\ b.tab = t /\ b.kind = "bootstrap" /\ b.alive /\ b.phase = "sent"
        /\ ~b.retried /\ b.access = NoAccess
    <3>. DEFINE call == Call(t, "bootstrap", NoOne, 0)
    <3>1. /\ call \in CallType /\ call.tab = t /\ call.kind = "bootstrap" /\ call.alive
          /\ call.phase = "sent" /\ ~call.retried
      <4>1. "bootstrap" \in Kinds /\ NoOne \in Accounts \cup {NoOne}
        BY DEF Kinds
      <4>. QED  BY <1>1, <4>1, CallTypeOK
    <3>2. b = [call EXCEPT !.access = NoAccess]
      BY <2>1
    <3>. HIDE DEF call
    <3>. QED  BY <3>1, <3>2, NoAccessTypeOK DEF CallType
  <2>8. CallFits(b)
    BY <2>7, KindsDiffer DEF CallFits, Issuing
  <2>. QED  BY <1>1, <1>2, <1>5, <2>2, <2>4, <2>5, <2>6, <2>7, <2>8 DEF Starts
<1>. QED  BY <1>4, <1>5

-----------------------------------------------------------------------------
(* The tabs a step is not about                                            *)

LEMMA HeldTypes ==
    ASSUME SessionTypeOK, StoresIssued, NEW t \in Tabs, Held(t) # 0
    PROVE  Held(t) \in 1..Len(owner) /\ owner[Held(t)] \in Accounts /\ owner[Held(t)] # NoOne
<1>1. Held(t) \in 0..Len(owner)
  BY DEF Held, StoresIssued, SessionTypeOK
<1>. QED  BY <1>1, SessionTypes

\* Another tab keeps what it shows, and is not the only one open.
LEMMA OthersFit ==
    ASSUME SessionTypeOK, StoresIssued, NEW t \in Tabs, NEW u \in Tabs \ {t}, TabFits(u), Fits(u),
           StoresFit, OthersStay(t), tab'[t].open,
           \A c : c.tab # t => (c \in calls <=> c \in calls')
    PROVE  TabFits(u)' /\ Fits(u)'
<1>. DEFINE A == tab[u]
            B == tab'[u]
<1>1. /\ Alike(B, A) /\ (A.crossed => B.crossed)
      /\ A.open /\ ~B.crossed => local' = local \/ (local' # 0 /\ owner[local'] = A.user)
  BY DEF OthersStay
<1>2. UNCHANGED <<owner, valid, active, profile>>
  BY DEF StoresFit, server
<1>3. \A c : c.tab = u => (c \in calls <=> c \in calls')
  OBVIOUS
<1>4. Of(u)' = Of(u)
  BY <1>3 DEF Of
<1>5. /\ B.open = A.open /\ B.page = A.page /\ B.status = A.status /\ B.user = A.user
      /\ B.seen = A.seen /\ B.saved = A.saved /\ B.access = A.access
      /\ B.session = A.session /\ B.refreshing = A.refreshing
  BY <1>1 DEF Alike
<1>6. Apart(u)' => Apart(u)
  BY <1>1, <1>5 DEF Apart
<1>7. Held(u)' = IF local' # 0 THEN local' ELSE A.session
  BY <1>5 DEF Held
<1>8. ~Alone(u)'
  BY DEF Alone
<1>. HIDE DEF A, B
<1>9. TabFits(u)'
  BY <1>1, <1>3, <1>4, <1>5 DEF TabFits, A, B
<1>10. Apart(u)' => \/ Held(u)' = Held(u)
                    \/ Held(u)' # 0 /\ owner[Held(u)'] = tab[u].user
  BY <1>1, <1>5, <1>6, <1>7 DEF Apart, Held, A, B
<1>11. Same(u)'
  <2>. SUFFICES ASSUME Apart(u)' PROVE Same(u)'
    BY DEF Same
  <2>1. Apart(u) /\ Same(u)
    BY <1>6 DEF Fits
  <2>2. A.status \in {"loading", "authenticated", "unauthenticated"}
    BY SessionTypes DEF TabType, A
  <2>3. CASE A.status = "authenticated"
    <3>1. RefreshFits(u) /\ ShownFits(u)
      BY <2>1, <2>3 DEF Same, A
    <3>2. Held(u)' # 0 /\ owner[Held(u)'] = A.user /\ owner[Held(u)] = A.user
      BY <1>10, <3>1 DEF ShownFits, A
    <3>3. RefreshFits(u)'
      BY <1>2, <1>4, <3>1, <3>2 DEF RefreshFits
    <3>4. ShownFits(u)'
      BY <1>2, <1>4, <1>5, <3>1, <3>2 DEF ShownFits, A, B
    <3>. QED  BY <1>5, <2>3, <3>3, <3>4 DEF Same, A, B
  <2>4. CASE A.status # "authenticated"
    <3>1. A.user = NoOne
      BY <2>1, <2>2, <2>4 DEF Same, NobodyFits, AskingFits, A
    <3>2. Held(u)' = Held(u)
      <4>1. CASE local' = local
        BY <1>5, <1>7, <4>1 DEF Held, A, B
      <4>2. CASE local' # local
        <5>1. local' # 0 /\ owner[local'] = NoOne /\ local' \in 0..Len(owner)
          BY <1>1, <2>1, <3>1, <4>2 DEF Apart, StoresFit, A, B
        <5>. QED  BY <5>1, SessionTypes
      <4>. QED  BY <4>1, <4>2
    <3>3. RefreshFits(u)'
      BY <1>2, <1>4, <2>1, <3>2 DEF Same, RefreshFits
    <3>4. A.status = "unauthenticated" => NobodyFits(u)'
      BY <1>4, <1>5, <2>1, <3>2 DEF Same, NobodyFits, A, B
    <3>5. A.status = "loading" => AskingFits(u)'
      BY <1>2, <1>4, <1>5, <2>1, <3>2 DEF Same, AskingFits, A, B
    <3>. QED  BY <1>5, <2>4, <3>3, <3>4, <3>5 DEF Same, A, B
  <2>. QED  BY <2>3, <2>4
<1>12. RefreshesHeld(u)' /\ HeldAccepted(u)'
  BY <1>8 DEF RefreshesHeld, HeldAccepted
<1>13. SavesFit(u)'
  BY <1>2, <1>4, <1>5, <1>6 DEF SavesFit, Fits, A, B
<1>. QED  BY <1>9, <1>11, <1>12, <1>13 DEF Fits

-----------------------------------------------------------------------------
(* Requests and tokens after a step of a tab                               *)

LEMMA StillFits ==
    ASSUME UNCHANGED server, NEW c, CallFits(c)
    PROVE  CallFits(c)'
BY DEF CallFits, server

LEMMA HeldIsStored ==
    ASSUME SessionTypeOK, CallsFit, NewTokens, NEW t \in Tabs, NEW c \in calls,
           c.kind \in Issuing, c.phase = "ok"
    PROVE  /\ c.ref \in 1..Len(owner) /\ c.ref # 0 /\ c.ref # local /\ c.ref # tab[t].session
           /\ c.ref # Held(t)
<1>1. c.ref # local /\ c.ref # tab[t].session
  BY DEF NewTokens
<1>2. c.ref \in 1..Len(owner)
  BY DEF CallsFit, CallFits, Issuing
<1>. QED  BY <1>1, <1>2, SessionTypes DEF Held

LEMMA CallsOfATab ==
    ASSUME SessionTypeOK, CallsFit, Known, NewTokens, NEW t \in Tabs, NEW done, NEW sent,
           AtTab(t, done, sent)
    PROVE  CallsFit' /\ Known' /\ NewTokens' /\ StoresIssued' /\ calls' \subseteq CallType
<1>1. /\ done \subseteq Of(t) /\ calls' = (calls \ done) \cup sent /\ UNCHANGED server
      /\ StoresIssued' /\ \A u \in Tabs \ {t} : tab'[u].session = tab[u].session
  BY DEF AtTab, Swaps, StoresFit, OthersStay, Alike
<1>2. \A d \in sent : /\ d \in CallType /\ CallFits(d) /\ d.phase \in {"sent", "waiting"}
                      /\ d.kind \in Issuing \cup {"logout"} => d.ref \in {0, Held(t)}
  BY DEF AtTab, Swaps
<1>3. CallsFit'
  BY <1>1, <1>2, StillFits DEF CallsFit
<1>4. Known'
  BY <1>1 DEF Known, server
<1>5. NewTokens'
  <2>. SUFFICES ASSUME NEW c \in calls', c.kind \in Issuing, c.phase = "ok"
                PROVE  /\ c.ref # local'
                       /\ \A u \in Tabs : c.ref # tab'[u].session
                       /\ \A d \in calls' \ {c} : d.kind \in Issuing \cup {"logout"} => d.ref # c.ref
    BY DEF NewTokens
  <2>1. c \in calls \ done
    BY <1>1, <1>2
  <2>2. /\ c.ref # 0 /\ c.ref # local /\ c.ref # Held(t) /\ \A u \in Tabs : c.ref # tab[u].session
    BY <2>1, HeldIsStored
  <2>3. \A d \in done : d.kind \in Issuing => d.ref # c.ref
    BY <1>1, <2>1 DEF NewTokens, Of
  <2>4. c.ref # local' /\ c.ref # tab'[t].session
    BY <2>2, <2>3 DEF AtTab, Stores
  <2>5. \A u \in Tabs : c.ref # tab'[u].session
    BY <1>1, <2>2, <2>4
  <2>6. ASSUME NEW d \in calls' \ {c}, d.kind \in Issuing \cup {"logout"}
        PROVE  d.ref # c.ref
    <3>1. CASE d \in calls
      BY <2>1, <2>6, <3>1 DEF NewTokens
    <3>2. CASE d \in sent
      BY <1>2, <2>2, <2>6, <3>2
    <3>. QED  BY <1>1, <2>6, <3>1, <3>2
  <2>. QED  BY <2>4, <2>5, <2>6
<1>6. calls' \subseteq CallType
  BY <1>1, <1>2 DEF SessionTypeOK
<1>. QED  BY <1>1, <1>3, <1>4, <1>5, <1>6

LEMMA OrphanFits ==
    ASSUME NEW c \in CallType, CallFits(c)
    PROVE  /\ Orphan(c) \in CallType /\ CallFits(Orphan(c)) /\ ~Orphan(c).alive
           /\ Orphan(c).tab = c.tab /\ Orphan(c).kind = c.kind /\ Orphan(c).phase = c.phase
           /\ Orphan(c).ref = c.ref
<1>. DEFINE o == Orphan(c)
<1>1. /\ o \in CallType /\ ~o.alive
      /\ o.tab = c.tab /\ o.kind = c.kind /\ o.phase = c.phase /\ o.ref = c.ref
      /\ o.who = c.who /\ o.goes = c.goes /\ o.retried = c.retried /\ o.access = c.access
  BY DEF Orphan, CallType
<1>. HIDE DEF o
<1>2. CallFits(o)
  BY <1>1 DEF CallFits
<1>. QED  BY <1>1, <1>2 DEF o

LEMMA CallsOfAStart ==
    ASSUME SessionTypeOK, CallsFit, Known, NewTokens, NEW t \in Tabs, Starts(t)
    PROVE  /\ CallsFit' /\ Known' /\ NewTokens' /\ StoresIssued' /\ calls' \subseteq CallType
           /\ \A c \in calls' : c.tab = t => \/ ~c.alive
                                             \/ c.kind = "bootstrap" /\ c.phase = "sent"
           /\ \A c : c.tab # t => (c \in calls <=> c \in calls')
<1>1. /\ UNCHANGED <<server, local>> /\ StoresIssued'
      /\ \A u \in Tabs : tab'[u].session \in {0, tab[u].session}
  BY DEF Starts, StoresFit
<1>2. PICK new : /\ calls' = Left(t) \cup new
                 /\ \A b \in new : /\ b \in CallType /\ CallFits(b) /\ b.tab = t
                                   /\ b.kind = "bootstrap" /\ b.phase = "sent"
  <2>1. CASE calls' = Left(t)
    <3>1. PICK none : none = {}
      OBVIOUS
    <3>2. calls' = Left(t) \cup none
      BY <2>1, <3>1
    <3>. QED  BY <3>1, <3>2
  <2>2. CASE calls' # Left(t)
    <3>1. PICK b : /\ calls' = Left(t) \cup {b} /\ b \in CallType /\ CallFits(b) /\ b.tab = t
                   /\ b.kind = "bootstrap" /\ b.phase = "sent"
      BY <2>2 DEF Starts
    <3>2. PICK one : one = {b}
      OBVIOUS
    <3>3. calls' = Left(t) \cup one
      BY <3>1, <3>2
    <3>. QED  BY <3>1, <3>2, <3>3
  <2>. QED  BY <2>1, <2>2
<1>3. \A c \in calls : c \in CallType /\ CallFits(c)
  BY SessionTypes DEF CallsFit
<1>4. \A d \in Left(t) : \E c \in calls :
        /\ d \in CallType /\ CallFits(d) /\ d.kind = c.kind /\ d.phase = c.phase /\ d.ref = c.ref
        /\ d.tab = c.tab
        /\ \/ c \notin Of(t) /\ d = c
           \/ c \in Of(t) /\ d = Orphan(c) /\ ~d.alive
  <2>. SUFFICES ASSUME NEW d \in Left(t)
                PROVE  \E c \in calls :
                          /\ d \in CallType /\ CallFits(d) /\ d.kind = c.kind /\ d.phase = c.phase
                          /\ d.ref = c.ref /\ d.tab = c.tab
                          /\ \/ c \notin Of(t) /\ d = c
                             \/ c \in Of(t) /\ d = Orphan(c) /\ ~d.alive
    OBVIOUS
  <2>1. CASE d \in calls \ Of(t)
    BY <1>3, <2>1
  <2>2. CASE \E c \in Of(t) : d = Orphan(c)
    <3>1. PICK c \in Of(t) : d = Orphan(c)
      BY <2>2
    <3>2. c \in calls
      BY DEF Of
    <3>. QED  BY <1>3, <3>1, <3>2, OrphanFits
  <2>. QED  BY <2>1, <2>2 DEF Left
<1>5. CallsFit'
  BY <1>1, <1>2, <1>4, StillFits DEF CallsFit
<1>6. Known'
  BY <1>1 DEF Known, server
<1>7. NewTokens'
  <2>. SUFFICES ASSUME NEW c \in calls', c.kind \in Issuing, c.phase = "ok"
                PROVE  /\ c.ref # local'
                       /\ \A u \in Tabs : c.ref # tab'[u].session
                       /\ \A d \in calls' \ {c} : d.kind \in Issuing \cup {"logout"} => d.ref # c.ref
    BY DEF NewTokens
  <2>1. PICK p \in calls : /\ p.kind \in Issuing /\ p.phase = "ok" /\ p.ref = c.ref
                           /\ (p \notin Of(t) /\ c = p) \/ (p \in Of(t) /\ c = Orphan(p))
    BY <1>2, <1>4
  <2>2. c.ref # 0 /\ c.ref # local /\ \A u \in Tabs : c.ref # tab[u].session
    BY <2>1, HeldIsStored
  <2>3. ASSUME NEW d \in calls' \ {c}, d.kind \in Issuing \cup {"logout"}
        PROVE  d.ref # c.ref
    <3>1. d \in Left(t)
      BY <1>2, <2>3, KindsDiffer
    <3>2. PICK q \in calls : /\ q.kind = d.kind /\ q.ref = d.ref
                             /\ (q \notin Of(t) /\ d = q) \/ (q \in Of(t) /\ d = Orphan(q))
      BY <1>4, <3>1
    <3>3. p # q
      BY <2>1, <2>3, <3>2
    <3>. QED  BY <2>1, <2>3, <3>2, <3>3 DEF NewTokens
  <2>. QED  BY <1>1, <2>2, <2>3
<1>8. calls' \subseteq CallType
  BY <1>2, <1>4
<1>9. \A c \in calls' : c.tab = t => ~c.alive \/ (c.kind = "bootstrap" /\ c.phase = "sent")
  BY <1>2, <1>4 DEF Of
<1>10. \A c : c.tab # t => (c \in calls <=> c \in calls')
  BY <1>2, <1>4 DEF Left, Of
<1>. QED  BY <1>1, <1>5, <1>6, <1>7, <1>8, <1>9, <1>10

-----------------------------------------------------------------------------
(* The tab a step is about                                                 *)

LEMMA RequestsOfATab ==
    ASSUME NEW t \in Tabs, NEW done, NEW sent, AtTab(t, done, sent)
    PROVE  /\ Of(t)' = (Of(t) \ done) \cup sent
           /\ \A c : c.tab # t => (c \in calls <=> c \in calls')
           /\ \A c \in calls' : c.tab = t => c.alive \/ c \in calls
           /\ Apart(t)' => Apart(t)
           /\ tab[t].open /\ tab'[t].open /\ (tab[t].crossed => tab'[t].crossed)
           /\ done \subseteq Of(t) /\ calls' = (calls \ done) \cup sent
           /\ \A d \in sent : d.tab = t /\ d.alive
           /\ UNCHANGED <<owner, valid, active, profile>> /\ tab' \in [Tabs -> TabType]
<1>1. done \subseteq Of(t) /\ calls' = (calls \ done) \cup sent /\ \A d \in sent : d.tab = t /\ d.alive
  BY DEF AtTab, Swaps
<1>2. Of(t)' = (Of(t) \ done) \cup sent
  BY <1>1 DEF Of
<1>3. \A c : c.tab # t => (c \in calls <=> c \in calls')
  BY <1>1 DEF Of
<1>4. Apart(t)' => Apart(t)
  BY DEF Apart, AtTab
<1>5. /\ tab[t].open /\ tab'[t].open /\ (tab[t].crossed => tab'[t].crossed)
      /\ UNCHANGED <<owner, valid, active, profile>> /\ tab' \in [Tabs -> TabType]
  BY DEF AtTab, StoresFit, server
<1>. QED  BY <1>1, <1>2, <1>3, <1>4, <1>5

\* A request of a tab says that the tab is open and, unless its traffic crossed, who it is.
LEMMA TabOfACall ==
    ASSUME SessionInv, NEW c \in calls, c.alive
    PROVE  /\ c.tab \in Tabs /\ c \in Of(c.tab) /\ tab[c.tab].open /\ c \in CallType /\ CallFits(c)
           /\ TabFits(c.tab) /\ Fits(c.tab)
<1>1. c.tab \in Tabs /\ c \in CallType
  BY SessionTypes DEF SessionInv
<1>. QED  BY <1>1 DEF SessionInv, TabsFit, TabFits, Of, CallsFit

LEMMA AskedAtTab ==
    ASSUME SessionTypeOK, StoresIssued, NEW t \in Tabs, NEW d, Asked(t, d)
    PROVE  AtTab(t, {}, {d})
<1>1. d.kind \in Issuing \cup {"logout"} => d.ref \in {0, Held(t)}
  BY DEF Asked, Issuing
<1>2. Swaps(t, {}, {d})
  BY <1>1 DEF Asked, Swaps
<1>3. StoresFit
  BY DEF Asked, StoresFit, StoresIssued, SessionTypeOK, server
<1>4. OthersStay(t) /\ Stores(t, {})
  BY DEF Asked, OthersStay, Alike, Stores
<1>. QED  BY <1>2, <1>3, <1>4 DEF AtTab, Asked

LEMMA AskFits ==
    ASSUME SessionInv, NEW t \in Tabs, NEW d, Asked(t, d)
    PROVE  TabFits(t)' /\ Fits(t)'
<1>1. /\ Of(t)' = Of(t) \cup {d} /\ calls' = calls \cup {d}
      /\ UNCHANGED <<owner, valid, active, profile, local, tab>>
  <2>1. AtTab(t, {}, {d})
    BY AskedAtTab DEF SessionInv
  <2>2. Of(t)' = (Of(t) \ {}) \cup {d}
    BY <2>1, RequestsOfATab
  <2>. QED  BY <2>2 DEF Asked, server
<1>2. /\ d.tab = t /\ d.alive /\ d.phase = "sent" /\ ~d.retried /\ d.access = tab[t].access
      /\ d.kind \notin {"refresh", "bootstrap", "profile"}
      /\ d.kind \in Mine \cup {"data"} => tab[t].page \in Private /\ tab[t].status # "loading"
      /\ d.kind \in Mine => \A c \in Of(t) : c.kind # d.kind
      /\ d.kind = "logout" => tab[t].status = "authenticated"
      /\ tab[t].open
  BY DEF Asked
<1>3. TabFits(t) /\ Fits(t) /\ tab[t] \in TabType
  BY SessionTypes DEF SessionInv, TabsFit
<1>4. /\ Held(t)' = Held(t) /\ Apart(t)' = Apart(t) /\ Alone(t)' = Alone(t)
  BY <1>1 DEF Held, Apart, Alone
<1>5. TabFits(t)'
  BY <1>1, <1>2, <1>3 DEF TabFits
<1>6. Same(t)'
  <2>. SUFFICES ASSUME Apart(t) PROVE Same(t)'
    BY <1>4 DEF Same
  <2>1. Same(t)
    BY <1>3 DEF Fits
  <2>2. RefreshFits(t)'
    BY <1>1, <1>2, <1>4, <2>1 DEF Same, RefreshFits
  <2>3. tab[t].status = "authenticated" => ShownFits(t)'
    BY <1>1, <1>2, <1>4, <2>1 DEF Same, ShownFits
  <2>4. tab[t].status = "unauthenticated" => NobodyFits(t)'
    BY <1>1, <1>2, <1>4, <2>1, PagesAreSplit DEF Same, NobodyFits
  <2>5. tab[t].status = "loading" => AskingFits(t)'
    BY <1>1, <1>2, <1>4, <2>1 DEF Same, AskingFits
  <2>. QED  BY <1>1, <2>2, <2>3, <2>4, <2>5 DEF Same
<1>7. RefreshesHeld(t)'
  BY <1>1, <1>2, <1>3, <1>4 DEF Fits, RefreshesHeld
<1>8. HeldAccepted(t)'
  BY <1>1, <1>3, <1>4 DEF Fits, HeldAccepted, Pending
<1>9. SavesFit(t)'
  BY <1>1, <1>2, <1>3, <1>4 DEF Fits, SavesFit
<1>. QED  BY <1>5, <1>6, <1>7, <1>8, <1>9 DEF Fits

LEMMA ParkFits ==
    ASSUME SessionInv, NEW t \in Tabs, NEW c \in Of(t), NEW sent, Parks(t, c, sent)
    PROVE  TabFits(t)' /\ Fits(t)'
<1>1. /\ Of(t)' = (Of(t) \ {c}) \cup sent /\ calls' = (calls \ {c}) \cup sent
      /\ UNCHANGED <<owner, valid, active, profile, local>>
      /\ \A d \in sent : d.tab = t /\ d.alive
  <2>1. AtTab(t, {c}, sent) /\ UNCHANGED local
    BY DEF Parks
  <2>. QED  BY <2>1, RequestsOfATab
<1>2. TabFits(t) /\ Fits(t) /\ tab[t] \in TabType /\ tab \in [Tabs -> TabType]
  BY SessionTypes DEF SessionInv, TabsFit, SessionTypeOK
<1>3. /\ tab'[t].open = tab[t].open /\ tab'[t].page = tab[t].page /\ tab'[t].status = tab[t].status
      /\ tab'[t].user = tab[t].user /\ tab'[t].seen = tab[t].seen /\ tab'[t].saved = tab[t].saved
      /\ tab'[t].access = tab[t].access /\ tab'[t].session = tab[t].session
      /\ tab'[t].refreshing /\ tab'[t].crossed = tab[t].crossed /\ tab[t].open
      /\ \A u \in Tabs \ {t} : tab'[u] = tab[u]
  BY <1>2 DEF Parks, AtTab, TabType
<1>4. c.phase = "unauthorized" /\ c.kind \in Repeatable /\ c.kind \notin {"refresh", "logout"}
  BY KindsDiffer DEF Parks
<1>5. PICK w \in sent :
         /\ w.kind = c.kind /\ w.phase = "waiting" /\ w.ref = c.ref /\ w.access = c.access
         /\ w.retried = c.retried /\ ~c.retried
         /\ \/ tab[t].refreshing /\ sent = {w}
            \/ /\ ~tab[t].refreshing /\ Held(t) # 0
               /\ \E r : sent = {w, r} /\ r.kind = "refresh" /\ r.ref = Held(t) /\ r.phase = "sent"
  BY DEF Parks
<1>6. \A d \in sent : d = w \/ (/\ d.kind = "refresh" /\ d.ref = Held(t) /\ d.phase = "sent"
                                /\ Held(t) # 0 /\ ~tab[t].refreshing)
  BY <1>5
<1>7. \A d, e \in sent : d.kind = e.kind => d = e
  BY <1>4, <1>5
<1>8. tab[t].refreshing \/ \E r \in sent : r.kind = "refresh"
  BY <1>5
<1>9. /\ Held(t)' = Held(t) /\ Apart(t)' = Apart(t) /\ Alone(t)' = Alone(t)
  BY <1>1, <1>3 DEF Held, Apart, Alone
<1>10. TabFits(t)'
  <2>1. tab'[t].crossed \/ \A e \in calls' : e.tab = t /\ e.kind \in Identity => e.alive
    BY <1>1, <1>2, <1>3 DEF TabFits
  <2>2. \E r \in Of(t)' : r.kind = "refresh"
    BY <1>1, <1>2, <1>4, <1>8 DEF TabFits
  <2>3. \A d, e \in Of(t)' : d.kind = e.kind /\ d.kind \in {"refresh", "bootstrap"} => d = e
    BY <1>1, <1>2, <1>4, <1>5, <1>6, <1>7 DEF TabFits
  <2>4. tab'[t].crossed \/ \A d, e \in Of(t)' : d.kind = e.kind /\ d.kind \in Mine => d = e
    <3>. SUFFICES ASSUME ~tab[t].crossed, NEW d \in Of(t)', NEW e \in Of(t)', d.kind = e.kind, d.kind \in Mine
                  PROVE  d = e
      BY <1>3
    <3>1. d.kind # "refresh"
      BY DEF Mine
    <3>2. (d = w \/ d \in Of(t) \ {c}) /\ (e = w \/ e \in Of(t) \ {c})
      BY <1>1, <1>6, <3>1
    <3>. QED  BY <1>2, <1>5, <3>2 DEF TabFits
  <2>. QED  BY <1>3, <2>1, <2>2, <2>3, <2>4 DEF TabFits
<1>11. Same(t)'
  <2>. SUFFICES ASSUME Apart(t) PROVE Same(t)'
    BY <1>9 DEF Same
  <2>1. Same(t)
    BY <1>2 DEF Fits
  <2>2. RefreshFits(t)'
    BY <1>1, <1>4, <1>5, <1>6, <1>9, <2>1 DEF Same, RefreshFits
  <2>3. tab[t].status = "authenticated" => ShownFits(t)'
    <3>. SUFFICES ASSUME tab[t].status = "authenticated" PROVE ShownFits(t)'
      OBVIOUS
    <3>1. ShownFits(t)
      BY <2>1 DEF Same
    <3>2. \A d \in sent : d.kind # "bootstrap" /\ (d.kind \in Mine => d.access.of = tab[t].user)
      BY <1>5, <1>6, <3>1 DEF ShownFits, Mine
    <3>. QED  BY <1>1, <1>3, <1>9, <3>1, <3>2 DEF ShownFits
  <2>4. tab[t].status # "unauthenticated"
    <3>. SUFFICES ASSUME tab[t].status = "unauthenticated" PROVE FALSE
      OBVIOUS
    <3>1. NobodyFits(t)
      BY <2>1 DEF Same
    <3>2. c.kind = "data"
      BY <1>4, <3>1 DEF NobodyFits, Repeatable
    <3>3. Held(t) # 0
      BY <1>2, <1>5, <3>1 DEF TabFits, NobodyFits
    <3>. QED  BY <3>1, <3>2, <3>3 DEF NobodyFits
  <2>5. tab[t].status = "loading" => AskingFits(t)'
    <3>. SUFFICES ASSUME tab[t].status = "loading" PROVE AskingFits(t)'
      OBVIOUS
    <3>1. AskingFits(t)
      BY <2>1 DEF Same
    <3>2. c.kind = "bootstrap"
      BY <1>4, <3>1 DEF AskingFits, Repeatable
    <3>3. \A d \in sent : d.kind \notin Mine \cup {"data", "logout"}
      BY <1>5, <1>6, <3>2 DEF Mine
    <3>4. \A d \in Of(t)' : d.kind = "bootstrap" => d = w
      BY <1>1, <1>2, <1>6, <3>2 DEF TabFits
    <3>5. \A d \in Of(t)' : d.kind \notin Mine \cup {"data", "logout"}
      BY <1>1, <3>1, <3>3 DEF AskingFits
    <3>6. c.access = NoAccess /\ tab[t].access = NoAccess
      BY <1>5, <3>1, <3>2 DEF AskingFits
    <3>. QED  BY <1>3, <1>5, <1>9, <3>1, <3>4, <3>5, <3>6 DEF AskingFits
  <2>. QED  BY <1>3, <2>2, <2>3, <2>4, <2>5 DEF Same
<1>12. RefreshesHeld(t)'
  BY <1>1, <1>2, <1>4, <1>5, <1>6, <1>9 DEF Fits, RefreshesHeld
<1>13. HeldAccepted(t)'
  BY <1>1, <1>2, <1>4, <1>9 DEF Fits, HeldAccepted, Pending
<1>14. SavesFit(t)'
  BY <1>1, <1>2, <1>3, <1>5, <1>6, <1>9 DEF Fits, SavesFit
<1>. QED  BY <1>10, <1>11, <1>12, <1>13, <1>14 DEF Fits

\* Nobody waits for a refresh but behind one that is on its way.
LEMMA NothingWaits ==
    ASSUME SessionInv, NEW t \in Tabs, NEW c \in Of(t), KeepsApart(t, {c}), Apart(t)',
           c.kind # "refresh", c.phase # "waiting"
    PROVE  /\ ~tab[t].refreshing
           /\ \A d \in Of(t) : d.kind # "refresh" /\ d.phase # "waiting"
           /\ \A d \in Of(t) \ {c} : d.kind \in Identity => d.kind = c.kind
<1>1. TabFits(t) /\ \A d \in Of(t) : CallFits(d)
  BY DEF SessionInv, TabsFit, CallsFit, Of
<1>2. \A d \in Of(t) \ {c} : d.kind \in Identity /\ d.kind # c.kind => d.phase = "waiting"
  BY DEF KeepsApart, Apart
<1>3. \A d \in Of(t) : d.kind # "refresh"
  <2>. SUFFICES ASSUME NEW d \in Of(t), d.kind = "refresh" PROVE FALSE
    OBVIOUS
  <2>1. d.phase # "waiting"
    BY <1>1 DEF CallFits
  <2>. QED  BY <1>2, <2>1 DEF Identity, Kinds, AuthEndpoints
<1>4. ~tab[t].refreshing /\ \A d \in Of(t) : d.phase # "waiting"
  BY <1>1, <1>3 DEF TabFits
<1>. QED  BY <1>2, <1>3, <1>4

LEMMA SignInFits ==
    ASSUME SessionInv, NEW t \in Tabs, NEW c \in Of(t), SignsIn(t, c)
    PROVE  TabFits(t)' /\ Fits(t)'
<1>1. /\ Of(t)' = Of(t) \ {c} /\ calls' = calls \ {c}
      /\ UNCHANGED <<owner, valid, active, profile>> /\ tab' \in [Tabs -> TabType]
      /\ Apart(t)' => Apart(t)
      /\ tab[t].open /\ tab'[t].open /\ (tab[t].crossed => tab'[t].crossed)
  <2>1. AtTab(t, {c}, {})
    BY DEF SignsIn
  <2>2. Of(t)' = (Of(t) \ {c}) \cup {} /\ calls' = (calls \ {c}) \cup {}
    BY <2>1, RequestsOfATab
  <2>. QED  BY <2>1, <2>2, RequestsOfATab
<1>2. TabFits(t) /\ Fits(t) /\ CallFits(c)
  BY DEF SessionInv, TabsFit, CallsFit, Of
<1>3. /\ c.kind \in {"login", "register"} /\ c.phase = "ok" /\ c.who \in Accounts
      /\ local' = c.ref \/ (local' = 0 /\ tab'[t].session = c.ref)
      /\ tab'[t].user = c.who /\ tab'[t].access.of = c.who /\ tab'[t].status = "authenticated"
      /\ tab'[t].saved = 0 /\ Role[c.who] \in Entitled(tab'[t].page)
      /\ tab'[t].refreshing = tab[t].refreshing /\ KeepsApart(t, {c})
  BY DEF SignsIn
<1>4. c.ref \in 1..Len(owner) /\ owner[c.ref] = c.who
  BY <1>2, <1>3 DEF CallFits
<1>5. Held(t)' = c.ref /\ Held(t)' # 0
  BY <1>3, <1>4, SessionTypes DEF SessionInv, Held
<1>6. TabFits(t)'
  BY <1>1, <1>2, <1>3 DEF TabFits
<1>7. ASSUME Apart(t)'
      PROVE  /\ \A d \in Of(t)' : d.kind \notin Mine \cup {"refresh", "bootstrap"}
             /\ ~Pending(t, {"refresh"})'
  <2>1. c.kind # "refresh" /\ c.phase # "waiting" /\ c.kind \notin Mine \cup {"bootstrap"}
    BY <1>3 DEF Mine
  <2>2. /\ \A d \in Of(t) : d.kind # "refresh"
        /\ \A d \in Of(t) \ {c} : d.kind \in Identity => d.kind = c.kind
    BY <1>3, <1>7, <2>1, NothingWaits
  <2>3. \A d \in Of(t) \ {c} : d.kind \notin Mine \cup {"bootstrap"}
    BY <2>1, <2>2 DEF Identity, Kinds, Mine
  <2>. QED  BY <1>1, <2>2, <2>3 DEF Pending
<1>8. Same(t)'
  BY <1>1, <1>3, <1>4, <1>5, <1>7 DEF Same, RefreshFits, ShownFits
<1>9. RefreshesHeld(t)'
  BY <1>7 DEF RefreshesHeld
<1>10. HeldAccepted(t)'
  BY <1>1, <1>2, <1>3, <1>5, KindsDiffer DEF HeldAccepted, CallFits
<1>11. SavesFit(t)'
  BY <1>1, <1>3, <1>7 DEF SavesFit, TabType, Mine
<1>. QED  BY <1>6, <1>8, <1>9, <1>10, <1>11 DEF Fits

\* What ends does so with everything of its kind about the tab's identity.
LEMMA NothingLeft ==
    ASSUME SessionInv, NEW t \in Tabs, NEW done, done \subseteq Of(t), KeepsApart(t, done),
           Apart(t)', Apart(t),
           \/ \A d \in Of(t) \ done : d.kind # "refresh" /\ d.phase # "waiting"
           \/ \A d \in done : d.kind # "refresh"
    PROVE  \A d \in Of(t) \ done : /\ d.kind \notin Mine \cup {"bootstrap", "refresh"}
                                   /\ d.phase # "waiting"
<1>1. TabFits(t) /\ \A d \in Of(t) : CallFits(d)
  BY DEF SessionInv, TabsFit, CallsFit, Of
<1>2. \A c \in Of(t) \ done :
         c.kind \in Identity /\ (\A d \in done : d.kind # c.kind) => c.phase = "waiting"
  BY DEF KeepsApart, Apart
<1>3. \A d \in Of(t) \ done : d.kind # "refresh" /\ d.phase # "waiting"
  <2>. SUFFICES ASSUME \A d \in done : d.kind # "refresh"
                PROVE  \A d \in Of(t) \ done : d.kind # "refresh" /\ d.phase # "waiting"
    OBVIOUS
  <2>1. \A d \in Of(t) : d.kind # "refresh"
    <3>. SUFFICES ASSUME NEW d \in Of(t), d.kind = "refresh" PROVE FALSE
      OBVIOUS
    <3>1. d \notin done /\ d.phase # "waiting"
      BY <1>1 DEF CallFits
    <3>. QED  BY <1>2, <3>1 DEF Identity, Kinds, AuthEndpoints
  <2>. QED  BY <1>1, <2>1 DEF TabFits
<1>4. ASSUME NEW d \in Of(t) \ done, d.kind \in Mine \cup {"bootstrap"} PROVE FALSE
  <2>1. d.kind \in Identity
    BY <1>4 DEF Identity, Kinds, Mine
  <2>2. PICK e \in done : e.kind = d.kind
    BY <1>2, <1>3, <2>1
  <2>3. e = d
    BY <1>1, <1>4, <2>2 DEF TabFits, Apart
  <2>. QED  BY <2>2, <2>3
<1>. QED  BY <1>3, <1>4

LEMMA SignOffFits ==
    ASSUME SessionInv, NEW t \in Tabs, NEW done, SignsOff(t, done)
    PROVE  TabFits(t)' /\ Fits(t)'
<1>1. /\ Of(t)' = Of(t) \ done /\ calls' = calls \ done /\ done \subseteq Of(t)
      /\ tab' \in [Tabs -> TabType] /\ (Apart(t)' => Apart(t))
      /\ tab[t].open /\ tab'[t].open /\ (tab[t].crossed => tab'[t].crossed)
  <2>1. AtTab(t, done, {})
    BY DEF SignsOff
  <2>2. Of(t)' = (Of(t) \ done) \cup {} /\ calls' = (calls \ done) \cup {} /\ done \subseteq Of(t)
    BY <2>1, RequestsOfATab
  <2>. QED  BY <2>1, <2>2, RequestsOfATab
<1>2. TabFits(t)
  BY DEF SessionInv, TabsFit
<1>3. /\ tab'[t].access = NoAccess /\ tab'[t].session = 0 /\ tab'[t].user = NoOne
      /\ tab'[t].status = "unauthenticated" /\ tab'[t].saved = 0 /\ tab'[t].page \in Public
      /\ local' = 0 /\ KeepsApart(t, done)
      /\ \/ ~tab'[t].refreshing /\ \A c \in Of(t) \ done : c.kind # "refresh" /\ c.phase # "waiting"
         \/ tab'[t].refreshing = tab[t].refreshing /\ \A c \in done : c.kind # "refresh"
  BY DEF SignsOff
<1>4. Held(t)' = 0
  BY <1>3 DEF Held
<1>5. TabFits(t)'
  <2>1. tab'[t].crossed \/ \A e \in calls' : e.tab = t /\ e.kind \in Identity => e.alive
    BY <1>1, <1>2 DEF TabFits
  <2>2. /\ \A e \in Of(t)' : e.kind = "refresh" \/ e.phase = "waiting" => tab'[t].refreshing
        /\ tab'[t].refreshing => \E e \in Of(t)' : e.kind = "refresh"
    BY <1>1, <1>2, <1>3 DEF TabFits
  <2>3. /\ \A d, e \in Of(t)' : d.kind = e.kind /\ d.kind \in {"refresh", "bootstrap"} => d = e
        /\ tab'[t].crossed \/ \A d, e \in Of(t)' : d.kind = e.kind /\ d.kind \in Mine => d = e
    BY <1>1, <1>2 DEF TabFits
  <2>. QED  BY <1>1, <2>1, <2>2, <2>3 DEF TabFits
<1>6. Apart(t)' => \A d \in Of(t)' : d.kind \notin Mine \cup {"bootstrap", "refresh"}
  BY <1>1, <1>3, NothingLeft
<1>7. Same(t)'
  BY <1>3, <1>4, <1>6 DEF Same, RefreshFits, NobodyFits
<1>8. RefreshesHeld(t)' /\ HeldAccepted(t)'
  BY <1>4, <1>6 DEF RefreshesHeld, HeldAccepted
<1>9. SavesFit(t)'
  BY <1>1, <1>3, <1>6 DEF SavesFit, TabType, Mine
<1>. QED  BY <1>5, <1>7, <1>8, <1>9 DEF Fits

LEMMA RenewFits ==
    ASSUME SessionInv, NEW t \in Tabs, NEW c \in Of(t), NEW sent, Refreshes(t, c, sent)
    PROVE  TabFits(t)' /\ Fits(t)'
<1>. DEFINE done == {c} \cup Waiting(t)
<1>1. /\ Of(t)' = (Of(t) \ done) \cup sent /\ calls' = (calls \ done) \cup sent /\ done \subseteq Of(t)
      /\ UNCHANGED <<owner, valid, active, profile>> /\ (Apart(t)' => Apart(t))
      /\ tab[t].open /\ tab'[t].open /\ (tab[t].crossed => tab'[t].crossed)
      /\ \A d \in sent : d.tab = t /\ d.alive
  <2>1. AtTab(t, done, sent)
    BY DEF Refreshes
  <2>. QED  BY <2>1, RequestsOfATab
<1>2. TabFits(t) /\ Fits(t) /\ CallFits(c) /\ \A d \in Of(t) : CallFits(d)
  BY DEF SessionInv, TabsFit, CallsFit, Of
<1>3. /\ c.kind = "refresh" /\ c.phase = "ok" /\ local' = c.ref /\ c \in done
      /\ tab'[t].access.of = owner[c.ref] /\ ~tab'[t].refreshing
      /\ tab'[t].page = tab[t].page /\ tab'[t].status = tab[t].status
      /\ tab'[t].user = tab[t].user /\ tab'[t].seen = tab[t].seen /\ tab'[t].saved = tab[t].saved
  BY DEF Refreshes
<1>4. c.ref \in 1..Len(owner)
  BY <1>2, <1>3 DEF CallFits
<1>5. Held(t)' = c.ref /\ Held(t)' # 0
  BY <1>3, <1>4, SessionTypes DEF SessionInv, Held
<1>6. \A d \in sent : /\ d.phase = "sent" /\ d.retried /\ d.access = tab'[t].access
                      /\ \E w \in done : /\ w.phase = "waiting" /\ d.kind = w.kind /\ d.ref = w.ref
                                         /\ d = Again(w, tab'[t].access) /\ w.kind \in Repeatable
  <2>1. \A w \in Waiting(t) : w \in done /\ w.phase = "waiting" /\ w.kind \in Repeatable
    BY <1>1, <1>2 DEF Waiting, CallFits
  <2>. QED  BY <2>1 DEF Refreshes
<1>7. \A d \in Of(t) \ done : d.kind # "refresh" /\ d.phase # "waiting"
  BY <1>2, <1>3 DEF TabFits, Waiting
<1>8. \A d \in sent : d.kind \in Repeatable /\ d.kind # "refresh"
  BY <1>6, KindsDiffer
<1>. HIDE DEF done
<1>9. \A d, e \in Of(t)' : d.kind = e.kind /\ d.kind = "bootstrap" => d = e
  <2>. SUFFICES ASSUME NEW d \in Of(t)', NEW e \in Of(t)', d.kind = "bootstrap", e.kind = "bootstrap"
                PROVE  d = e
    OBVIOUS
  <2>1. \A b \in sent : b.kind = "bootstrap" => \E w \in done : w.kind = "bootstrap" /\ b = Again(w, tab'[t].access)
    BY <1>6
  <2>2. \A v, w \in Of(t) : v.kind = "bootstrap" /\ w.kind = "bootstrap" => v = w
    BY <1>2 DEF TabFits
  <2>. QED  BY <1>1, <2>1, <2>2
<1>10. tab'[t].crossed \/ \A d, e \in Of(t)' : d.kind = e.kind /\ d.kind \in Mine => d = e
  <2>. SUFFICES ASSUME ~tab[t].crossed, NEW d \in Of(t)', NEW e \in Of(t)', d.kind = e.kind, d.kind \in Mine
                PROVE  d = e
    BY <1>1
  <2>1. \A b \in sent : \E w \in done : w.kind = b.kind /\ b = Again(w, tab'[t].access)
    BY <1>6
  <2>2. \A v, w \in Of(t) : v.kind = w.kind /\ v.kind \in Mine => v = w
    BY <1>2 DEF TabFits
  <2>. QED  BY <1>1, <2>1, <2>2
<1>11. TabFits(t)'
  <2>1. tab'[t].crossed \/ \A e \in calls' : e.tab = t /\ e.kind \in Identity => e.alive
    BY <1>1, <1>2 DEF TabFits
  <2>2. \A e \in Of(t)' : e.kind # "refresh" /\ e.phase # "waiting"
    BY <1>1, <1>6, <1>7, <1>8
  <2>. QED  BY <1>1, <1>3, <1>9, <1>10, <2>1, <2>2 DEF TabFits
<1>12. Same(t)'
  <2>. SUFFICES ASSUME Apart(t)' PROVE Same(t)'
    BY DEF Same
  <2>1. Same(t) /\ Apart(t)
    BY <1>1, <1>2 DEF Fits
  <2>2. Held(t) # 0 /\ owner[c.ref] = owner[Held(t)]
    BY <1>3, <2>1 DEF Same, RefreshFits
  <2>3. RefreshFits(t)'
    BY <1>1, <1>7, <1>8 DEF RefreshFits
  <2>4. tab[t].status = "authenticated" => ShownFits(t)'
    <3>. SUFFICES ASSUME tab[t].status = "authenticated" PROVE ShownFits(t)'
      OBVIOUS
    <3>1. ShownFits(t)
      BY <2>1 DEF Same
    <3>2. \A d \in Of(t) : d.kind # "bootstrap" /\ (d.kind \in Mine => d.access.of = tab[t].user)
      BY <3>1 DEF ShownFits
    <3>3. \A d \in sent : d.kind # "bootstrap" /\ d.access.of = tab[t].user
      BY <1>1, <1>3, <1>6, <2>2, <3>1, <3>2 DEF ShownFits
    <3>. QED  BY <1>1, <1>3, <1>5, <2>2, <3>1, <3>2, <3>3 DEF ShownFits
  <2>5. tab[t].status # "unauthenticated"
    BY <1>3, <2>1 DEF Same, NobodyFits
  <2>6. tab[t].status = "loading" => AskingFits(t)'
    <3>. SUFFICES ASSUME tab[t].status = "loading" PROVE AskingFits(t)'
      OBVIOUS
    <3>1. AskingFits(t)
      BY <2>1 DEF Same
    <3>2. tab[t].refreshing
      BY <1>2, <1>3 DEF TabFits
    <3>3. \A d \in Of(t) \ done : d.kind # "bootstrap"
      BY <1>7, <3>1, <3>2 DEF AskingFits
    <3>4. \A d \in Of(t)' : d.kind \notin Mine \cup {"data", "logout"}
      BY <1>1, <1>6, <3>1 DEF AskingFits
    <3>5. \A d \in sent : d.retried /\ d.access.of = owner[c.ref]
      BY <1>3, <1>6
    <3>. QED  BY <1>1, <1>3, <1>5, <3>1, <3>3, <3>4, <3>5 DEF AskingFits
  <2>. QED  BY <1>3, <2>3, <2>4, <2>5, <2>6 DEF Same
<1>13. RefreshesHeld(t)'
  BY <1>1, <1>7, <1>8 DEF RefreshesHeld
<1>14. HeldAccepted(t)'
  BY <1>1, <1>2, <1>3, <1>5, KindsDiffer DEF HeldAccepted, CallFits
<1>15. SavesFit(t)'
  <2>. SUFFICES ASSUME Apart(t)', Apart(t), SavesFit(t), Same(t) PROVE SavesFit(t)'
    BY <1>1, <1>2 DEF SavesFit, Fits
  <2>1. ASSUME NEW d \in sent, d.kind = "profile" PROVE d.ref <= profile[d.access.of]
    <3>1. PICK w \in Of(t) : w.kind = "profile" /\ d.ref = w.ref
      BY <1>1, <1>6, <2>1
    <3>2. tab[t].status = "authenticated"
      BY <1>3, <3>1, SessionTypes DEF Same, AskingFits, NobodyFits, TabType, Mine, SessionInv
    <3>3. w.access.of = tab[t].user /\ d.access.of = owner[c.ref] /\ owner[c.ref] = owner[Held(t)]
          /\ owner[Held(t)] = tab[t].user
      BY <1>3, <1>6, <3>1, <3>2 DEF Same, ShownFits, RefreshFits, Mine
    <3>4. w.ref <= profile[w.access.of]
      BY <3>1 DEF SavesFit
    <3>. QED  BY <3>1, <3>3, <3>4
  <2>2. \A d \in sent : d.phase = "sent"
    BY <1>6
  <2>. QED  BY <1>1, <1>3, <2>1, <2>2 DEF SavesFit
<1>. QED  BY <1>11, <1>12, <1>13, <1>14, <1>15 DEF Fits

LEMMA TurnFits ==
    ASSUME SessionInv, NEW t \in Tabs, NEW done, NEW sent, Turns(t, done, sent),
           \A d \in sent : d.kind \in {"logout", "profile"},
           \A d, e \in sent : d = e,
           \A d \in sent : d.kind = "profile" => tab'[t].crossed \/ \A c \in Of(t) : c.kind # "profile"
    PROVE  /\ TabFits(t)' /\ RefreshesHeld(t)' /\ HeldAccepted(t)'
           /\ Of(t)' = (Of(t) \ done) \cup sent /\ done \subseteq Of(t)
           /\ UNCHANGED <<owner, valid, active, profile>> /\ tab' \in [Tabs -> TabType]
           /\ (Apart(t)' => Apart(t)) /\ Held(t)' = Held(t)
           /\ TabFits(t) /\ Same(t) /\ SavesFit(t) /\ tab[t] \in TabType /\ tab'[t] \in TabType
<1>1. /\ Of(t)' = (Of(t) \ done) \cup sent /\ calls' = (calls \ done) \cup sent /\ done \subseteq Of(t)
      /\ UNCHANGED <<owner, valid, active, profile>> /\ (Apart(t)' => Apart(t))
      /\ tab[t].open /\ tab'[t].open /\ (tab[t].crossed => tab'[t].crossed)
      /\ tab' \in [Tabs -> TabType] /\ \A d \in sent : d.tab = t /\ d.alive
  <2>1. AtTab(t, done, sent)
    BY DEF Turns
  <2>. QED  BY <2>1, RequestsOfATab
<1>2. TabFits(t) /\ Same(t) /\ SavesFit(t) /\ RefreshesHeld(t) /\ HeldAccepted(t) /\ tab[t] \in TabType
  BY SessionTypes DEF SessionInv, TabsFit, Fits
<1>3. /\ UNCHANGED local /\ tab'[t].session = tab[t].session /\ tab'[t].refreshing = tab[t].refreshing
      /\ \A c \in done : c.kind \notin {"refresh", "logout"} /\ c.phase # "waiting"
      /\ \A d \in sent : d.phase = "sent" /\ ~d.retried /\ d.access = tab[t].access
      /\ \A u \in Tabs \ {t} : tab'[u].open = tab[u].open
  BY DEF Turns, AtTab, OthersStay, Alike
<1>4. Held(t)' = Held(t) /\ Alone(t)' = Alone(t)
  BY <1>3 DEF Held, Alone
<1>5. TabFits(t)'
  <2>1. tab'[t].crossed \/ \A e \in calls' : e.tab = t /\ e.kind \in Identity => e.alive
    BY <1>1, <1>2 DEF TabFits
  <2>2. /\ \A e \in Of(t)' : e.kind = "refresh" \/ e.phase = "waiting" => tab'[t].refreshing
        /\ tab'[t].refreshing => \E e \in Of(t)' : e.kind = "refresh"
    BY <1>1, <1>2, <1>3 DEF TabFits
  <2>3. \A d, e \in Of(t)' : d.kind = e.kind /\ d.kind \in {"refresh", "bootstrap"} => d = e
    BY <1>1, <1>2 DEF TabFits
  <2>4. tab'[t].crossed \/ \A d, e \in Of(t)' : d.kind = e.kind /\ d.kind \in Mine => d = e
    <3>. SUFFICES ASSUME ~tab'[t].crossed, NEW d \in Of(t)', NEW e \in Of(t)', d.kind = e.kind,
                         d.kind \in Mine
                  PROVE  d = e
      OBVIOUS
    <3>1. \A b \in sent : b.kind \in Mine => \A c \in Of(t) : c.kind # b.kind
      BY DEF Mine
    <3>2. \A v, w \in Of(t) : v.kind = w.kind /\ v.kind \in Mine => v = w
      BY <1>1, <1>2 DEF TabFits
    <3>. QED  BY <1>1, <3>1, <3>2
  <2>. QED  BY <1>1, <2>1, <2>2, <2>3, <2>4 DEF TabFits
<1>6. RefreshesHeld(t)'
  BY <1>1, <1>2, <1>4 DEF RefreshesHeld
<1>7. HeldAccepted(t)'
  <2>1. Pending(t, {"refresh", "logout"}) => Pending(t, {"refresh", "logout"})'
    BY <1>1, <1>3 DEF Pending
  <2>. QED  BY <1>1, <1>2, <1>4, <2>1 DEF HeldAccepted
<1>. QED  BY <1>1, <1>2, <1>4, <1>5, <1>6, <1>7

LEMMA LearnFits ==
    ASSUME SessionInv, NEW t \in Tabs, NEW c \in Of(t), LearnsUser(t, c) \/ LearnsNothing(t, c)
    PROVE  TabFits(t)' /\ Fits(t)'
<1>1. /\ TabFits(t)' /\ RefreshesHeld(t)' /\ HeldAccepted(t)'
      /\ Of(t)' = Of(t) \ {c}
      /\ UNCHANGED <<owner, valid, active, profile>> /\ (Apart(t)' => Apart(t)) /\ Held(t)' = Held(t)
      /\ TabFits(t) /\ Same(t) /\ SavesFit(t) /\ tab[t] \in TabType /\ tab'[t] \in TabType
  <2>. DEFINE none == {}
  <2>1. Turns(t, {c}, none) /\ (\A d \in none : d.kind \in {"logout", "profile"})
        /\ (\A d, e \in none : d = e)
        /\ (\A d \in none : d.kind = "profile" => tab'[t].crossed \/ \A e \in Of(t) : e.kind # "profile")
    BY DEF LearnsUser, LearnsNothing
  <2>2. (Of(t) \ {c}) \cup none = Of(t) \ {c}
    OBVIOUS
  <2>. HIDE DEF none
  <2>. QED  BY <2>1, <2>2, TurnFits
<1>2. CallFits(c) /\ c \in CallType /\ (Held(t) # 0 => owner[Held(t)] \in Accounts)
  BY SessionTypes, HeldTypes DEF SessionInv, CallsFit, Of
<1>3. Turns(t, {c}, {}) /\ c.kind \in {"bootstrap", "profile"}
  BY DEF LearnsUser, LearnsNothing
<1>4. tab'[t].access = tab[t].access
  BY <1>3 DEF Turns
<1>5. CASE ~Apart(t)'
  BY <1>1, <1>5 DEF Fits, Same, SavesFit
<1>6. CASE Apart(t)' /\ c.kind = "bootstrap"
  <2>1. Apart(t) /\ tab[t].status = "loading" /\ AskingFits(t)
    BY <1>1, <1>6 DEF Same, ShownFits, NobodyFits, TabType
  <2>2. \A d \in Of(t)' : d.kind \notin Mine \cup {"data", "logout", "bootstrap"}
    BY <1>1, <1>6, <2>1 DEF AskingFits, TabFits
  <2>3. tab'[t].saved = 0 /\ tab'[t].saved <= tab'[t].seen
    BY <1>1, <1>6, <2>1 DEF LearnsUser, LearnsNothing, AskingFits, TabType
  <2>4. SavesFit(t)'
    BY <2>2, <2>3 DEF SavesFit, Mine
  <2>5. CASE LearnsUser(t, c)
    <3>1. c.access.fresh /\ c.phase = "ok"
      BY <1>2, <1>6, <2>5, KindsDiffer DEF LearnsUser, CallFits
    <3>2. c.access.of = owner[Held(t)] /\ tab[t].access.of = owner[Held(t)] /\ Held(t) # 0
      BY <1>6, <2>1, <3>1, NoAccessTypeOK DEF AskingFits
    <3>3. tab'[t].user = owner[Held(t)] /\ tab'[t].status = "authenticated"
      BY <2>5, <3>2 DEF LearnsUser
    <3>4. Role[tab'[t].user] \in Entitled(tab'[t].page)
      BY <1>2, <1>3, <2>1, <3>2, <3>3 DEF Turns, AskingFits
    <3>5. ShownFits(t)'
      BY <1>1, <1>4, <2>2, <3>2, <3>3, <3>4 DEF ShownFits
    <3>6. RefreshFits(t)'
      BY <1>1, <2>1 DEF Same, RefreshFits
    <3>. QED  BY <1>1, <2>4, <3>3, <3>5, <3>6 DEF Fits, Same
  <2>6. CASE LearnsNothing(t, c)
    <3>1. tab[t].access = NoAccess /\ tab'[t].user = NoOne /\ tab'[t].status = "unauthenticated"
      BY <1>6, <2>1, <2>6 DEF LearnsNothing, AskingFits
    <3>2. tab'[t].page \in Public
      BY <1>3, <2>1, <3>1 DEF Turns
    <3>3. \A d \in Of(t) : d.kind # "refresh"
      BY <1>1, <1>6, <2>1, <2>6 DEF LearnsNothing, AskingFits, TabFits
    <3>4. NobodyFits(t)' /\ RefreshFits(t)'
      BY <1>1, <1>4, <2>2, <3>1, <3>2, <3>3 DEF NobodyFits, RefreshFits
    <3>. QED  BY <1>1, <2>4, <3>1, <3>4 DEF Fits, Same
  <2>. QED  BY <2>5, <2>6
<1>7. CASE Apart(t)' /\ c.kind = "profile"
  <2>1. Apart(t) /\ tab[t].status = "authenticated" /\ ShownFits(t) /\ c.access.of = tab[t].user
    BY <1>1, <1>7 DEF Same, ShownFits, AskingFits, NobodyFits, TabType, Mine
  <2>2. /\ tab'[t].user = tab[t].user /\ tab'[t].status = "authenticated"
        /\ tab'[t].saved = c.ref /\ tab'[t].seen = c.edits /\ c.phase = "ok"
    BY <1>7, <2>1 DEF LearnsUser, LearnsNothing
  <2>3. Role[tab'[t].user] \in Entitled(tab'[t].page)
    BY <1>2, <1>3, <2>1, <2>2 DEF Turns, ShownFits
  <2>4. ShownFits(t)' /\ RefreshFits(t)'
    BY <1>1, <1>4, <2>1, <2>2, <2>3 DEF Same, ShownFits, RefreshFits
  <2>5. SavesFit(t)'
    BY <1>1, <1>7, <2>1, <2>2 DEF SavesFit
  <2>. QED  BY <1>1, <2>2, <2>4, <2>5 DEF Fits, Same
<1>. QED  BY <1>3, <1>5, <1>6, <1>7

LEMMA MoveFits ==
    ASSUME SessionInv, NEW t \in Tabs, NEW done, NEW sent, Moves(t, done, sent)
    PROVE  TabFits(t)' /\ Fits(t)'
<1>1. /\ TabFits(t)' /\ RefreshesHeld(t)' /\ HeldAccepted(t)'
      /\ Of(t)' = (Of(t) \ done) \cup sent /\ done \subseteq Of(t)
      /\ UNCHANGED <<owner, valid, active, profile>> /\ (Apart(t)' => Apart(t)) /\ Held(t)' = Held(t)
      /\ TabFits(t) /\ Same(t) /\ SavesFit(t) /\ tab[t] \in TabType /\ tab'[t] \in TabType
  <2>1. Turns(t, done, sent) /\ (\A d \in sent : d.kind \in {"logout", "profile"})
        /\ (\A d, e \in sent : d = e)
        /\ (\A d \in sent : d.kind = "profile" => tab'[t].crossed \/ \A c \in Of(t) : c.kind # "profile")
    BY DEF Moves
  <2>. QED  BY <2>1, TurnFits
<1>2. /\ tab'[t].user = tab[t].user /\ tab'[t].status = tab[t].status
      /\ tab'[t].seen = tab[t].seen /\ tab'[t].saved = tab[t].saved
      /\ tab'[t].access = tab[t].access /\ tab'[t].refreshing = tab[t].refreshing
      /\ \A d \in sent : d.phase = "sent" /\ ~d.retried /\ d.access = tab[t].access
      /\ \A c \in done : c.kind # "bootstrap"
      /\ \/ tab'[t].page = tab[t].page
         \/ tab'[t].status # "loading" =>
              /\ tab'[t].user = NoOne => tab'[t].page \in Public
              /\ tab'[t].user \in Accounts => Role[tab'[t].user] \in Entitled(tab'[t].page)
  BY DEF Moves, Turns
<1>3. \A d \in sent :
         \/ d.kind = "logout" /\ (\E c \in done : c.kind = "delete")
         \/ d.kind = "profile" /\ \E c \in done : c.kind = "save" /\ c.phase = "ok" /\ d.ref = c.edits
  BY DEF Moves
<1>4. CASE ~Apart(t)'
  BY <1>1, <1>4 DEF Fits, Same, SavesFit
<1>5. CASE Apart(t)'
  <2>1. Apart(t) /\ tab[t].status \in {"loading", "authenticated", "unauthenticated"}
    BY <1>1, <1>5 DEF TabType
  <2>2. \A d \in sent : \E c \in Of(t) : c.kind \in Mine
    BY <1>1, <1>3 DEF Mine
  <2>3. \A d \in sent : d.kind \notin {"refresh", "bootstrap", "data", "save"}
    BY <1>3
  <2>4. RefreshFits(t)'
    BY <1>1, <2>1, <2>3 DEF Same, RefreshFits
  <2>5. CASE tab[t].status = "authenticated"
    <3>1. ShownFits(t) /\ tab[t].user \in Accounts
      BY <1>1, <2>1, <2>5, HeldTypes DEF Same, ShownFits, SessionInv
    <3>2. Role[tab'[t].user] \in Entitled(tab'[t].page)
      BY <1>2, <2>5, <3>1 DEF ShownFits
    <3>3. ShownFits(t)'
      BY <1>1, <1>2, <2>3, <3>1, <3>2 DEF ShownFits
    <3>4. \A d \in sent : d.kind = "profile" => d.ref <= profile[d.access.of]
      <4>. SUFFICES ASSUME NEW d \in sent, d.kind = "profile" PROVE d.ref <= profile[d.access.of]
        OBVIOUS
      <4>1. PICK c \in Of(t) : c.kind = "save" /\ c.phase = "ok" /\ d.ref = c.edits
        BY <1>1, <1>3
      <4>2. c.edits <= profile[c.access.of] /\ c.access.of = tab[t].user
        BY <1>1, <2>1, <3>1, <4>1 DEF SavesFit, ShownFits, Mine
      <4>. QED  BY <1>2, <3>1, <4>1, <4>2 DEF ShownFits
    <3>5. SavesFit(t)'
      BY <1>1, <1>2, <2>1, <2>3, <3>4 DEF SavesFit
    <3>. QED  BY <1>1, <1>2, <2>4, <2>5, <3>3, <3>5 DEF Fits, Same
  <2>6. CASE tab[t].status # "authenticated"
    <3>1. sent = {}
      BY <1>1, <2>1, <2>2, <2>6 DEF Same, NobodyFits, AskingFits
    <3>2. Of(t)' = Of(t) \ done
      BY <1>1, <3>1
    <3>3. SavesFit(t)'
      BY <1>1, <1>2, <2>1, <3>2 DEF SavesFit
    <3>4. tab[t].status = "unauthenticated" => NobodyFits(t)'
      BY <1>1, <1>2, <2>1, <3>2 DEF Same, NobodyFits
    <3>5. tab[t].status = "loading" => AskingFits(t)'
      BY <1>1, <1>2, <2>1, <3>2 DEF Same, AskingFits
    <3>. QED  BY <1>1, <1>2, <2>1, <2>4, <2>6, <3>3, <3>4, <3>5 DEF Fits, Same
  <2>. QED  BY <2>5, <2>6
<1>. QED  BY <1>4, <1>5

LEMMA StartFits ==
    ASSUME SessionInv, NEW t \in Tabs, Starts(t)
    PROVE  TabFits(t)' /\ Fits(t)'
<1>1. /\ UNCHANGED <<owner, valid, active, profile, local>> /\ \A u \in Tabs \ {t} : tab'[u] = tab[u]
      /\ tab'[t].open /\ ~tab'[t].refreshing /\ tab'[t].user = NoOne /\ tab'[t].saved = 0
      /\ tab'[t].access = NoAccess /\ tab' \in [Tabs -> TabType]
      /\ ~tab'[t].crossed => \/ ~tab[t].open
                             \/ ~tab[t].crossed /\ ~Pending(t, Identity)
  BY DEF Starts, StoresFit, server
<1>2. /\ \A c \in calls' : c.tab = t => ~c.alive \/ (c.kind = "bootstrap" /\ c.phase = "sent")
      /\ \A c : c.tab # t => (c \in calls <=> c \in calls')
  BY CallsOfAStart DEF SessionInv
<1>3. TabFits(t) /\ Fits(t) /\ (tab'[t].seen \in Nat)
  BY <1>1 DEF SessionInv, TabsFit, TabType
<1>4. \A c \in Of(t) : Orphan(c) \in CallType /\ ~Orphan(c).alive /\ Orphan(c).kind = c.kind
  <2>1. \A c \in Of(t) : c \in CallType /\ CallFits(c)
    BY SessionTypes DEF SessionInv, CallsFit, Of
  <2>. QED  BY <2>1, OrphanFits
<1>5. \A d \in Left(t) : d.tab = t =>
         /\ ~d.alive
         /\ d \in calls \/ \E c \in Of(t) : c.kind = d.kind
  BY <1>4 DEF Left, Of
<1>6. ASSUME ~tab'[t].crossed, NEW d \in Left(t), d.tab = t PROVE d.kind \notin Identity
  <2>1. CASE ~tab[t].open
    BY <1>3, <1>5, <1>6, <2>1 DEF TabFits, Of
  <2>2. CASE tab[t].open
    <3>1. ~tab[t].crossed /\ ~Pending(t, Identity)
      BY <1>1, <1>6, <2>2
    <3>2. \A c \in Of(t) : c.kind \notin Identity
      BY <3>1 DEF Pending
    <3>3. \A c \in calls \ Of(t) : c.tab = t => c.kind \notin Identity
      BY <1>3, <3>1 DEF TabFits, Of
    <3>4. d \in calls \ Of(t) \/ \E c \in Of(t) : c.kind = d.kind
      BY <1>5, <1>6
    <3>. QED  BY <1>6, <3>2, <3>3, <3>4
  <2>. QED  BY <2>1, <2>2
<1>7. CASE tab'[t].status = "unauthenticated"
  <2>1. /\ tab'[t].page \in Public /\ Held(t)' = 0 /\ calls' = Left(t)
    BY <1>1, <1>7 DEF Starts, Held
  <2>2. Of(t)' = {}
    BY <1>5, <2>1 DEF Of
  <2>3. TabFits(t)'
    BY <1>1, <1>6, <2>1, <2>2 DEF TabFits
  <2>4. Same(t)'
    BY <1>1, <1>7, <2>1, <2>2 DEF Same, RefreshFits, NobodyFits
  <2>5. SavesFit(t)' /\ RefreshesHeld(t)' /\ HeldAccepted(t)'
    BY <1>1, <1>3, <2>1, <2>2 DEF SavesFit, RefreshesHeld, HeldAccepted
  <2>. QED  BY <2>3, <2>4, <2>5 DEF Fits
<1>8. CASE tab'[t].status # "unauthenticated"
  <2>1. tab'[t].status = "loading" /\ tab'[t].session = tab[t].session /\ Held(t) # 0
    BY <1>8 DEF Starts
  <2>2. PICK b : /\ calls' = Left(t) \cup {b} /\ b.tab = t /\ b.kind = "bootstrap" /\ b.alive
                 /\ b.phase = "sent" /\ ~b.retried /\ b.access = NoAccess
    BY <1>8 DEF Starts
  <2>3. Held(t)' = Held(t)
    BY <1>1, <2>1 DEF Held
  <2>4. Of(t)' = {b}
    BY <1>5, <2>2 DEF Of
  <2>5. TabFits(t)'
    BY <1>1, <1>6, <2>2, <2>4 DEF TabFits, Mine
  <2>6. AskingFits(t)' /\ RefreshFits(t)'
    BY <1>1, <2>1, <2>2, <2>3, <2>4 DEF RefreshFits, AskingFits, Mine
  <2>7. Same(t)'
    BY <2>1, <2>6 DEF Same
  <2>8. SavesFit(t)' /\ RefreshesHeld(t)'
    BY <1>1, <1>3, <2>2, <2>4 DEF SavesFit, RefreshesHeld
  <2>9. HeldAccepted(t)'
    <3>. SUFFICES ASSUME Alone(t)', Apart(t)', owner[Held(t)] \in active PROVE Held(t) \in valid
      BY <1>1, <2>3 DEF HeldAccepted
    <3>1. Alone(t)
      BY <1>1 DEF Alone
    <3>2. tab[t].open
      BY <3>1, SessionAssumption DEF SessionInv, Alone
    <3>3. ~tab[t].crossed /\ ~Pending(t, {"refresh", "logout"})
      BY <1>1, <3>2 DEF Apart, Pending, Identity, Kinds, AuthEndpoints
    <3>. QED  BY <1>3, <2>1, <3>1, <3>2, <3>3 DEF Fits, HeldAccepted, Apart
  <2>. QED  BY <2>5, <2>7, <2>8, <2>9 DEF Fits
<1>. QED  BY <1>7, <1>8

\* An access token that runs out still says whose it is.
LEMMA ExpireKeeps ==
    ASSUME SessionInv, NEW t \in Tabs, Expire(t)
    PROVE  /\ CallsFit' /\ Known' /\ NewTokens' /\ StoresIssued' /\ tab' \in [Tabs -> TabType]
           /\ tab'[First].open /\ TabsFit' /\ \A u \in Tabs : Fits(u)'
<1>1. /\ UNCHANGED <<owner, valid, active, profile, local, calls>> /\ tab[t].access.fresh
      /\ tab' = [tab EXCEPT ![t].access.fresh = FALSE] /\ UNCHANGED server
  BY DEF Expire, server
<1>2. tab \in [Tabs -> TabType] /\ tab[t].access \in AccessType /\ First \in Tabs
  BY SessionAssumption DEF SessionInv, SessionTypeOK, TabType
<1>3. PICK access, rec : access = [tab[t].access EXCEPT !.fresh = FALSE]
                         /\ rec = [tab[t] EXCEPT !.access = access]
  OBVIOUS
<1>4. access \in AccessType /\ access.of = tab[t].access.of
  BY <1>2, <1>3 DEF AccessType
<1>5. /\ rec \in TabType /\ rec.access.of = tab[t].access.of
      /\ rec.open = tab[t].open /\ rec.page = tab[t].page /\ rec.status = tab[t].status
      /\ rec.user = tab[t].user /\ rec.seen = tab[t].seen /\ rec.saved = tab[t].saved
      /\ rec.session = tab[t].session /\ rec.refreshing = tab[t].refreshing
      /\ rec.crossed = tab[t].crossed
  BY <1>2, <1>3, <1>4 DEF TabType
<1>6. tab' = [tab EXCEPT ![t] = rec]
  BY <1>1, <1>2, <1>3
<1>7. tab' \in [Tabs -> TabType] /\ \A u \in Tabs :
        /\ tab'[u].access.of = tab[u].access.of /\ (u # t => tab'[u] = tab[u])
        /\ tab'[u].open = tab[u].open /\ tab'[u].page = tab[u].page /\ tab'[u].status = tab[u].status
        /\ tab'[u].user = tab[u].user /\ tab'[u].seen = tab[u].seen /\ tab'[u].saved = tab[u].saved
        /\ tab'[u].session = tab[u].session /\ tab'[u].refreshing = tab[u].refreshing
        /\ tab'[u].crossed = tab[u].crossed
  BY <1>2, <1>5, <1>6
<1>8. CallsFit' /\ Known' /\ NewTokens' /\ StoresIssued' /\ tab'[First].open
  <2>1. CallsFit'
    BY <1>1, StillFits DEF SessionInv, CallsFit
  <2>. QED  BY <1>1, <1>2, <1>7, <2>1 DEF SessionInv, Known, NewTokens, StoresIssued
<1>9. tab[t].access # NoAccess
  BY <1>1, NoAccessTypeOK
<1>10. ASSUME NEW u \in Tabs PROVE TabFits(u)' /\ Fits(u)'
  <2>1. /\ Of(u)' = Of(u) /\ Held(u)' = Held(u) /\ Apart(u)' = Apart(u) /\ Alone(u)' = Alone(u)
    BY <1>1, <1>7 DEF Of, Held, Apart, Alone
  <2>2. TabFits(u) /\ Fits(u)
    BY DEF SessionInv, TabsFit
  <2>3. TabFits(u)'
    BY <1>1, <1>7, <1>9, <2>1, <2>2 DEF TabFits
  <2>4. Same(u)'
    <3>. SUFFICES ASSUME Apart(u) PROVE Same(u)'
      BY <2>1 DEF Same
    <3>1. Same(u)
      BY <2>2 DEF Fits
    <3>2. RefreshFits(u)'
      BY <1>1, <2>1, <3>1 DEF Same, RefreshFits
    <3>3. tab[u].status = "authenticated" => ShownFits(u)'
      BY <1>1, <1>7, <2>1, <3>1 DEF Same, ShownFits
    <3>4. tab[u].status = "unauthenticated" => NobodyFits(u)'
      BY <1>1, <1>7, <1>9, <2>1, <3>1 DEF Same, NobodyFits
    <3>5. tab[u].status = "loading" => AskingFits(u)'
      BY <1>1, <1>7, <1>9, <2>1, <3>1 DEF Same, AskingFits
    <3>. QED  BY <1>7, <3>2, <3>3, <3>4, <3>5 DEF Same
  <2>5. RefreshesHeld(u)' /\ HeldAccepted(u)'
    BY <1>1, <2>1, <2>2 DEF Fits, RefreshesHeld, HeldAccepted, Pending
  <2>6. SavesFit(u)'
    BY <1>1, <1>7, <2>1, <2>2 DEF Fits, SavesFit
  <2>. QED  BY <2>3, <2>4, <2>5, <2>6 DEF Fits
<1>. QED  BY <1>7, <1>8, <1>10 DEF TabsFit

-----------------------------------------------------------------------------
(* The steps of the server and of the network                              *)

\* An account that is blocked or deleted stays so, and a token revoked too.
LEMMA AcceptedBefore ==
    ASSUME SessionTypeOK, Known, ServerMoves, NEW n \in 1..Len(owner)
    PROVE  /\ owner'[n] = owner[n] /\ n \in 1..Len(owner')
           /\ n \in valid' => n \in valid
           /\ owner'[n] \in active' => owner[n] \in active
<1>1. owner'[n] = owner[n] /\ (n \in valid' => n \in valid)
  BY DEF ServerMoves
<1>2. profile[owner[n]] # 0
  BY DEF Known
<1>3. n \in 1..Len(owner')
  BY SessionTypes DEF ServerMoves
<1>. QED  BY <1>1, <1>2, <1>3 DEF ServerMoves

LEMMA ReplyKeepsCalls ==
    ASSUME SessionInv, NEW c \in calls, ServerMoves, NEW d, Reply(c, d), UNCHANGED <<tab, local>>
    PROVE  CallsFit' /\ NewTokens' /\ StoresIssued' /\ calls' \subseteq CallType
<1>1. /\ SessionTypeOK /\ CallsFit /\ Known /\ NewTokens /\ StoresIssued
      /\ Len(owner) \in Nat /\ Len(owner') \in Nat /\ Len(owner) <= Len(owner')
  BY SessionTypes DEF SessionInv, ServerMoves
<1>2. /\ d \in CallType /\ calls' = (calls \ {c}) \cup {d} /\ CallFits(d)'
      /\ AnswerOf(c, d) /\ Told(c, d)
  BY DEF Reply
<1>3. ASSUME NEW e \in calls \ {c} PROVE CallFits(e)'
  <2>1. CallFits(e)
    BY <1>1 DEF CallsFit
  <2>2. 0..Len(owner) \subseteq 0..Len(owner')
    BY <1>1
  <2>3. e.kind \in {"login", "register"} /\ e.phase = "ok" =>
          e.ref \in 1..Len(owner') /\ owner'[e.ref] = e.who
    BY <1>1, <2>1, AcceptedBefore DEF CallFits
  <2>4. e.kind = "refresh" => e.ref \in 1..Len(owner')
    BY <1>1, <2>1, AcceptedBefore DEF CallFits
  <2>5. ASSUME e.kind \in Issuing, e.phase = "ok", owner'[e.ref] \in active' PROVE e.ref \in valid'
    <3>1. e.ref \in 1..Len(owner)
      BY <2>1, <2>5 DEF CallFits, Issuing
    <3>2. e.ref \in valid
      BY <1>1, <2>1, <2>5, <3>1, AcceptedBefore DEF CallFits
    <3>3. c.kind \in Issuing \cup {"logout"} => c.ref # e.ref
      BY <1>1, <2>5 DEF NewTokens
    <3>4. owner[e.ref] \in active'
      BY <1>1, <2>5, <3>1, AcceptedBefore
    <3>. QED  BY <1>2, <3>2, <3>3, <3>4 DEF Told, Issuing
  <2>6. e.kind = "refresh" /\ e.phase = "unauthorized" => e.ref \notin valid' \/ owner'[e.ref] \notin active'
    BY <1>1, <2>1, AcceptedBefore DEF CallFits
  <2>. QED  BY <2>1, <2>2, <2>3, <2>4, <2>5, <2>6 DEF CallFits
<1>4. CallsFit'
  BY <1>2, <1>3 DEF CallsFit
<1>5. NewTokens'
  <2>. SUFFICES ASSUME NEW e \in calls', e.kind \in Issuing, e.phase = "ok"
                PROVE  /\ e.ref # local
                       /\ \A u \in Tabs : e.ref # tab[u].session
                       /\ \A f \in calls' \ {e} : f.kind \in Issuing \cup {"logout"} => f.ref # e.ref
    BY DEF NewTokens
  <2>1. CASE e = d
    <3>1. e.ref = Len(owner) + 1
      BY <1>2, <2>1 DEF AnswerOf
    <3>2. local \in 0..Len(owner) /\ \A u \in Tabs : tab[u].session \in 0..Len(owner)
      BY <1>1 DEF SessionTypeOK, StoresIssued
    <3>3. \A f \in calls : f.kind \in Issuing \cup {"logout"} => f.ref \in 0..Len(owner)
      BY <1>1 DEF CallsFit, CallFits
    <3>4. \A n \in 0..Len(owner) : n # Len(owner) + 1
      BY <1>1
    <3>. QED  BY <1>2, <2>1, <3>1, <3>2, <3>3, <3>4
  <2>2. CASE e # d
    <3>1. e \in calls \ {c}
      BY <1>2, <2>2
    <3>2. /\ e.ref # local /\ \A u \in Tabs : e.ref # tab[u].session
          /\ \A f \in calls \ {e} : f.kind \in Issuing \cup {"logout"} => f.ref # e.ref
      BY <1>1, <3>1 DEF NewTokens
    <3>3. d.kind \in Issuing \cup {"logout"} => d.ref # e.ref
      <4>1. e.ref # Len(owner) + 1
        <5>1. e.ref \in 0..Len(owner)
          BY <1>1, <3>1 DEF CallsFit, CallFits
        <5>. QED  BY <1>1, <5>1
      <4>2. d.kind = c.kind /\ (d.ref = c.ref \/ d.ref = Len(owner) + 1)
        BY <1>2 DEF AnswerOf
      <4>. QED  BY <3>1, <3>2, <4>1, <4>2
    <3>. QED  BY <1>2, <3>1, <3>2, <3>3
  <2>. QED  BY <2>1, <2>2
<1>6. StoresIssued'
  <2>1. 0..Len(owner) \subseteq 0..Len(owner')
    BY <1>1
  <2>. QED  BY <1>1, <2>1 DEF StoresIssued
<1>7. calls' \subseteq CallType
  BY <1>1, <1>2 DEF SessionTypeOK
<1>. QED  BY <1>4, <1>5, <1>6, <1>7

\* In a tab whose traffic has not crossed, a profile is asked for by an account.
LEMMA MineNamesTheUser ==
    ASSUME SessionInv, NEW t \in Tabs, Apart(t), NEW c \in Of(t), c.kind \in Mine
    PROVE  c.access.of \in Accounts
<1>1. Fits(t) /\ tab[t].status \in {"loading", "authenticated", "unauthenticated"}
  BY SessionTypes DEF SessionInv, TabType
<1>2. tab[t].status = "authenticated"
  BY <1>1 DEF Fits, Same, NobodyFits, AskingFits
<1>3. Held(t) # 0 /\ owner[Held(t)] = tab[t].user /\ c.access.of = tab[t].user
  BY <1>1, <1>2 DEF Fits, Same, ShownFits
<1>. QED  BY <1>3, HeldTypes DEF SessionInv

LEMMA ReplyFits ==
    ASSUME SessionInv, NEW t \in Tabs, NEW c \in calls, ServerMoves, NEW d, Reply(c, d),
           UNCHANGED <<tab, local>>
    PROVE  TabFits(t)' /\ Fits(t)'
<1>1. /\ SessionTypeOK /\ CallsFit /\ Known /\ StoresIssued /\ TabFits(t) /\ Fits(t)
      /\ tab[t] \in TabType
  BY SessionTypes DEF SessionInv, TabsFit
<1>2. /\ calls' = (calls \ {c}) \cup {d} /\ AnswerOf(c, d) /\ Told(c, d)
  BY DEF Reply
<1>3. /\ d.tab = c.tab /\ d.kind = c.kind /\ d.access = c.access /\ d.retried = c.retried
      /\ d.alive = c.alive /\ c.phase \in {"sent", "ok"} /\ d.phase \notin {"sent", "waiting"}
      /\ ~(d.kind \in Issuing /\ d.phase = "ok") => d.ref = c.ref
  BY <1>2 DEF AnswerOf
<1>4. /\ \A e \in Of(t)' : e \in Of(t) \/ (e = d /\ c \in Of(t))
      /\ \A e \in Of(t) : e \in Of(t)' \/ (e = c /\ d \in Of(t)')
      /\ c \in Of(t)' => c = d
  BY <1>2, <1>3 DEF Of
<1>5. /\ Held(t)' = Held(t) /\ Apart(t)' = Apart(t) /\ Alone(t)' = Alone(t)
  BY DEF Held, Apart, Alone
<1>6. TabFits(t)'
  <2>1. ~tab'[t].open => /\ tab'[t].status = "unauthenticated" /\ tab'[t].saved = 0
                         /\ tab'[t].access = NoAccess /\ \A e \in calls' : e.tab # t
    BY <1>1, <1>2, <1>3 DEF TabFits
  <2>2. tab'[t].crossed \/ \A e \in calls' : e.tab = t /\ e.kind \in Identity => e.alive
    BY <1>1, <1>2, <1>3 DEF TabFits
  <2>3. /\ \A e \in Of(t)' : e.kind = "refresh" \/ e.phase = "waiting" => tab'[t].refreshing
        /\ tab'[t].refreshing => \E e \in Of(t)' : e.kind = "refresh"
    BY <1>1, <1>3, <1>4 DEF TabFits
  <2>4. \A e, f \in Of(t)' : e.kind = f.kind /\ e.kind \in {"refresh", "bootstrap"} => e = f
    BY <1>1, <1>3, <1>4 DEF TabFits
  <2>5. tab'[t].crossed \/ \A e, f \in Of(t)' : e.kind = f.kind /\ e.kind \in Mine => e = f
    BY <1>1, <1>3, <1>4 DEF TabFits
  <2>. QED  BY <2>1, <2>2, <2>3, <2>4, <2>5 DEF TabFits
<1>7. Held(t) # 0 => owner'[Held(t)] = owner[Held(t)] /\ Held(t) \in 1..Len(owner)
  BY <1>1, HeldTypes, AcceptedBefore
<1>8. Same(t)'
  <2>. SUFFICES ASSUME Apart(t) PROVE Same(t)'
    BY <1>5 DEF Same
  <2>1. Same(t)
    BY <1>1 DEF Fits
  <2>2. RefreshFits(t)'
    <3>. SUFFICES ASSUME NEW e \in Of(t)', e.kind = "refresh"
                  PROVE  Held(t) # 0 /\ owner'[e.ref] = owner[Held(t)]
      BY <1>5, <1>7 DEF RefreshFits
    <3>1. ASSUME NEW b \in Of(t), b.kind = "refresh"
          PROVE  Held(t) # 0 /\ owner[b.ref] = owner[Held(t)] /\ owner'[b.ref] = owner[b.ref]
      <4>1. b.ref \in 1..Len(owner)
        BY <1>1, <3>1 DEF CallsFit, CallFits, Of
      <4>. QED  BY <1>1, <2>1, <3>1, <4>1, AcceptedBefore DEF Same, RefreshFits
    <3>2. CASE e \in Of(t)
      BY <3>1, <3>2
    <3>3. CASE e = d /\ c \in Of(t)
      BY <1>2, <1>3, <3>1, <3>3 DEF Told
    <3>. QED  BY <1>4, <3>2, <3>3
  <2>3. tab[t].status = "authenticated" => ShownFits(t)'
    BY <1>3, <1>4, <1>5, <1>7, <2>1 DEF Same, ShownFits
  <2>4. tab[t].status = "unauthenticated" => NobodyFits(t)'
    BY <1>3, <1>4, <1>5, <2>1 DEF Same, NobodyFits
  <2>5. tab[t].status = "loading" => AskingFits(t)'
    BY <1>3, <1>4, <1>5, <1>7, <2>1 DEF Same, AskingFits
  <2>. QED  BY <2>2, <2>3, <2>4, <2>5 DEF Same
<1>9. RefreshesHeld(t)'
  <2>. SUFFICES ASSUME Alone(t), Apart(t), NEW e \in Of(t)', e.kind = "refresh",
                       e.phase \in {"sent", "unauthorized"}
                PROVE  e.ref = Held(t)
    BY <1>5 DEF RefreshesHeld
  <2>1. \A b \in Of(t) : b.kind = "refresh" /\ b.phase \in {"sent", "unauthorized"} => b.ref = Held(t)
    BY <1>1 DEF Fits, RefreshesHeld
  <2>2. e = d => c.phase = "sent" /\ d.ref = c.ref
    BY <1>2, <1>3 DEF Told
  <2>. QED  BY <1>3, <1>4, <2>1, <2>2
<1>10. HeldAccepted(t)'
  <2>. SUFFICES ASSUME Alone(t), Apart(t), ~Pending(t, {"refresh", "logout"})', Held(t) # 0,
                       owner'[Held(t)] \in active', Held(t) \notin valid'
                PROVE  FALSE
    BY <1>5 DEF HeldAccepted
  <2>1. ~Pending(t, {"refresh", "logout"})
    BY <1>3, <1>4 DEF Pending
  <2>2. owner[Held(t)] \in active /\ owner[Held(t)] \in active'
    BY <1>1, <1>7, AcceptedBefore
  <2>3. Held(t) \in valid
    BY <1>1, <2>1, <2>2 DEF Fits, HeldAccepted
  <2>4. c.kind \in {"refresh", "logout"}
    BY <1>2, <2>2, <2>3 DEF Told
  <2>5. c.tab \in Tabs
    BY SessionTypes, <1>1
  <2>6. c.tab = t
    BY <2>5 DEF SessionInv, TabsFit, TabFits, Alone
  <2>7. c.alive
    BY <1>1, <2>4, <2>6 DEF TabFits, Apart, Identity, Kinds, AuthEndpoints
  <2>. QED  BY <2>1, <2>4, <2>6, <2>7 DEF Pending, Of
<1>11. SavesFit(t)'
  <2>. SUFFICES ASSUME Apart(t) PROVE SavesFit(t)'
    BY <1>5 DEF SavesFit
  <2>1. /\ tab[t].saved <= tab[t].seen
        /\ \A e \in Of(t) :
             /\ e.kind = "save" /\ e.phase = "ok" => e.edits <= profile[e.access.of]
             /\ e.kind = "profile" => e.ref <= profile[e.access.of]
             /\ e.kind = "profile" /\ e.phase = "ok" => e.ref <= e.edits
    BY <1>1 DEF Fits, SavesFit
  <2>2. \A e \in Of(t) : e.kind \in Mine =>
           /\ profile[e.access.of] \in Nat /\ profile'[e.access.of] \in Nat
           /\ profile[e.access.of] <= profile'[e.access.of]
    BY <1>1, MineNamesTheUser DEF ServerMoves, SessionTypeOK
  <2>3. \A e \in Of(t) : e.edits \in Nat /\ e.ref \in Nat
    BY <1>1 DEF SessionTypeOK, CallType, Of
  <2>4. ASSUME NEW e \in Of(t)', e.kind \in Mine
        PROVE  /\ e.kind = "save" /\ e.phase = "ok" => e.edits <= profile'[e.access.of]
               /\ e.kind = "profile" => e.ref <= profile'[e.access.of]
               /\ e.kind = "profile" /\ e.phase = "ok" => e.ref <= e.edits
    <3>1. CASE e \in Of(t)
      BY <2>1, <2>2, <2>3, <2>4, <3>1 DEF Mine
    <3>2. CASE e = d /\ c \in Of(t)
      <4>1. /\ c.kind \in Mine /\ e.ref = c.ref /\ e.access = c.access /\ e.kind = c.kind
            /\ e.phase = "ok" => e.edits = profile'[e.access.of]
        BY <1>2, <1>3, <2>4, <3>2 DEF Told, Mine, Issuing
      <4>. QED  BY <2>1, <2>2, <2>3, <3>2, <4>1
    <3>. QED  BY <1>4, <3>1, <3>2
  <2>. QED  BY <2>1, <2>4 DEF SavesFit, Mine
<1>. QED  BY <1>6, <1>8, <1>9, <1>10, <1>11 DEF Fits

-----------------------------------------------------------------------------
(* Steps that change no tab                                                *)

\* A blocked account: what is held need not be accepted any more.
LEMMA BlockKeeps ==
    ASSUME SessionInv, NEW a \in Accounts, Block(a)
    PROVE  /\ CallsFit' /\ Known' /\ NewTokens' /\ StoresIssued'
           /\ TabsFit' /\ \A t \in Tabs : Fits(t)'
<1>1. active' = active \ {a} /\ UNCHANGED <<owner, valid, profile, links, local, tab, calls>>
  BY DEF Block
<1>2. ASSUME NEW c, CallFits(c) PROVE CallFits(c)'
  BY <1>1, <1>2 DEF CallFits
<1>3. CallsFit' /\ Known' /\ NewTokens' /\ StoresIssued'
  BY <1>1, <1>2 DEF SessionInv, CallsFit, Known, NewTokens, StoresIssued
<1>4. ASSUME NEW t \in Tabs PROVE TabFits(t)' /\ Fits(t)'
  <2>1. TabFits(t) /\ Fits(t)
    BY DEF SessionInv, TabsFit
  <2>2. /\ Of(t)' = Of(t) /\ Held(t)' = Held(t) /\ Apart(t)' = Apart(t) /\ Alone(t)' = Alone(t)
    BY <1>1 DEF Of, Held, Apart, Alone
  <2>3. TabFits(t)'
    BY <1>1, <2>1, <2>2 DEF TabFits
  <2>4. Same(t)'
    BY <1>1, <2>1, <2>2 DEF Fits, Same, RefreshFits, ShownFits, NobodyFits, AskingFits
  <2>5. RefreshesHeld(t)' /\ HeldAccepted(t)' /\ SavesFit(t)'
    BY <1>1, <2>1, <2>2 DEF Fits, RefreshesHeld, HeldAccepted, SavesFit, Pending
  <2>. QED  BY <2>3, <2>4, <2>5 DEF Fits
<1>. QED  BY <1>3, <1>4 DEF TabsFit

\* A step that at most forgets an answer nobody waits for.
LEMMA StillKeeps ==
    ASSUME SessionInv, UNCHANGED <<server, local, tab>>, calls' \subseteq calls,
           \A c \in calls \ calls' : ~c.alive
    PROVE  /\ CallsFit' /\ Known' /\ NewTokens' /\ StoresIssued'
           /\ TabsFit' /\ \A t \in Tabs : Fits(t)'
<1>1. UNCHANGED <<owner, valid, active, profile, local, tab>>
  BY DEF server
<1>2. CallsFit' /\ Known' /\ NewTokens' /\ StoresIssued'
  <2>1. CallsFit'
    BY StillFits DEF SessionInv, CallsFit
  <2>. QED  BY <1>1, <2>1 DEF SessionInv, Known, NewTokens, StoresIssued
<1>3. ASSUME NEW t \in Tabs PROVE TabFits(t)' /\ Fits(t)'
  <2>1. TabFits(t) /\ Fits(t)
    BY DEF SessionInv, TabsFit
  <2>2. /\ Of(t)' = Of(t) /\ Held(t)' = Held(t) /\ Apart(t)' = Apart(t) /\ Alone(t)' = Alone(t)
    BY <1>1 DEF Of, Held, Apart, Alone
  <2>3. TabFits(t)'
    BY <1>1, <2>1, <2>2 DEF TabFits
  <2>4. Same(t)'
    BY <1>1, <2>1, <2>2 DEF Fits, Same, RefreshFits, ShownFits, NobodyFits, AskingFits
  <2>5. RefreshesHeld(t)' /\ HeldAccepted(t)' /\ SavesFit(t)'
    BY <1>1, <2>1, <2>2 DEF Fits, RefreshesHeld, HeldAccepted, SavesFit, Pending
  <2>. QED  BY <2>3, <2>4, <2>5 DEF Fits
<1>. QED  BY <1>2, <1>3 DEF TabsFit

-----------------------------------------------------------------------------
(* The invariant is inductive                                              *)

\* What is left of the bounds stays a number.
LEMMA BudgetFits ==
    ASSUME SessionTypeOK, [Next]_vars
    PROVE  budget' \in BudgetType
<1>1. budget \in BudgetType
  BY DEF SessionTypeOK
<1>2. ASSUME NEW what \in {"logins", "registrations", "resets", "logouts", "saves", "deletions",
                           "requests", "visits", "reloads", "expiries", "refusals", "losses", "blocks"},
             budget[what] > 0, budget' = [budget EXCEPT ![what] = @ - 1]
      PROVE  budget' \in BudgetType
  BY <1>1, <1>2 DEF BudgetType
<1>3. CASE \E c \in calls : Serve(c) \/ Refuse(c) \/ Lose(c) \/ Arrive(c) \/ Forget(c)
  <2>1. PICK c \in calls : Serve(c) \/ Refuse(c) \/ Lose(c) \/ Arrive(c) \/ Forget(c)
    BY <1>3
  <2>2. \/ budget' = budget
        \/ budget.refusals > 0 /\ budget' = [budget EXCEPT !.refusals = @ - 1]
        \/ budget.losses > 0 /\ budget' = [budget EXCEPT !.losses = @ - 1]
    BY <2>1 DEF Serve, Refuse, Lose, Arrive, Forget
  <2>. QED  BY <1>1, <1>2, <2>2
<1>4. CASE \E a \in Accounts : Block(a)
  <2>1. budget.blocks > 0 /\ budget' = [budget EXCEPT !.blocks = @ - 1]
    BY <1>4 DEF Block
  <2>. QED  BY <1>2, <2>1
<1>5. CASE \E t \in Tabs : Expire(t) \/ Reload(t) \/ OpenTab(t) \/ Navigate(t)
  <2>1. \/ budget.expiries > 0 /\ budget' = [budget EXCEPT !.expiries = @ - 1]
        \/ budget.reloads > 0 /\ budget' = [budget EXCEPT !.reloads = @ - 1]
        \/ budget.visits > 0 /\ budget' = [budget EXCEPT !.visits = @ - 1]
    BY <1>5 DEF Expire, Reload, OpenTab, Navigate
  <2>. QED  BY <1>2, <2>1
<1>6. CASE \E t \in Tabs : \/ SubmitLogin(t) \/ SubmitRegister(t) \/ AskForLink(t) \/ SetPassword(t)
                           \/ SubmitProfile(t) \/ SubmitDeletion(t) \/ Query(t) \/ Logout(t)
  <2>1. PICK what \in {"logins", "registrations", "resets", "saves", "deletions", "requests", "logouts"} :
           budget[what] > 0 /\ budget' = [budget EXCEPT ![what] = @ - 1]
    BY <1>6 DEF SubmitLogin, SubmitRegister, AskForLink, SetPassword, SubmitProfile, SubmitDeletion,
                Query, Logout, Send
  <2>. QED  BY <1>2, <2>1
<1>7. CASE UNCHANGED vars
  BY <1>1, <1>7 DEF vars
<1>. QED  BY <1>3, <1>4, <1>5, <1>6, <1>7 DEF Next

\* What a step of tab t can be.
Acts(t) ==
    \/ \E d : Asked(t, d)
    \/ \E c \in Of(t) : \E sent : Parks(t, c, sent)
    \/ \E c \in Of(t) : \E sent : Refreshes(t, c, sent)
    \/ \E c \in Of(t) : SignsIn(t, c)
    \/ \E c \in Of(t) : LearnsUser(t, c) \/ LearnsNothing(t, c)
    \/ \E done, sent : Moves(t, done, sent)
    \/ \E done : SignsOff(t, done)

LEMMA ArriveStep ==
    ASSUME SessionInv, NEW c \in calls, Arrive(c)
    PROVE  Acts(c.tab)
<1>1. /\ SessionTypeOK /\ CallsFit /\ StoresIssued /\ TabsFit
      /\ c.alive /\ tab[c.tab].open /\ c \in Of(c.tab) /\ UNCHANGED server
  BY TabOfACall DEF SessionInv, Arrive
<1>2. CASE BeginRefresh(c) \/ JoinRefresh(c)
  <2>1. \E sent : Parks(c.tab, c, sent)
    BY <1>1, <1>2, ParkStep
  <2>. QED  BY <1>1, <2>1 DEF Acts
<1>3. CASE RefreshFails(c)
  <2>1. SignsOff(c.tab, {c} \cup Waiting(c.tab))
    BY <1>1, <1>3, RefreshFailsStep
  <2>. QED  BY <2>1, Zenon DEF Acts
<1>4. CASE RefreshSucceeds(c)
  <2>1. \E sent : Refreshes(c.tab, c, sent)
    BY <1>1, <1>4, RefreshStep
  <2>. QED  BY <1>1, <2>1 DEF Acts
<1>5. CASE RetryFails(c) \/ LogoutAnswered(c) \/ (DeletionAnswered(c) /\ Held(c.tab) = 0)
  <2>1. SignsOff(c.tab, {c})
    BY <1>1, <1>5, LeaveStep
  <2>. QED  BY <2>1, Zenon DEF Acts
<1>6. CASE SignInAnswered(c)
  <2>1. SignsIn(c.tab, c)
    BY <1>1, <1>6, SignInStep
  <2>. QED  BY <1>1, <2>1 DEF Acts
<1>7. CASE BootstrapAnswered(c) \/ ProfileAnswered(c)
  <2>1. LearnsUser(c.tab, c) \/ LearnsNothing(c.tab, c)
    BY <1>1, <1>7, LearnStep
  <2>. QED  BY <1>1, <2>1 DEF Acts
<1>8. CASE \/ SaveAnswered(c) \/ (DeletionAnswered(c) /\ Held(c.tab) # 0)
           \/ ConfirmAnswered(c) \/ JustAnswered(c)
  <2>1. \E sent : Moves(c.tab, {c}, sent)
    BY <1>1, <1>8, MoveStep
  <2>. QED  BY <2>1, Zenon DEF Acts
<1>. QED  BY <1>2, <1>3, <1>4, <1>5, <1>6, <1>7, <1>8 DEF Arrive

\* The kinds of steps: of one tab, a page loaded anew, an answer on its way, and the rest.
LEMMA StepKinds ==
    ASSUME SessionInv, [Next]_vars
    PROVE  \/ \E t \in Tabs : Acts(t) \/ Starts(t) \/ Expire(t)
           \/ /\ ServerMoves /\ UNCHANGED <<tab, local>>
              /\ \E c \in calls : \E d : Reply(c, d)
           \/ \E a \in Accounts : Block(a)
           \/ /\ UNCHANGED <<server, local, tab>> /\ calls' \subseteq calls
              /\ \A c \in calls \ calls' : ~c.alive
<1>1. SessionTypeOK /\ CallsFit /\ StoresIssued /\ Known
  BY DEF SessionInv
<1>2. CASE \E c \in calls : Serve(c) \/ Refuse(c) \/ Lose(c)
  BY <1>1, <1>2, ReplyStep
<1>3. CASE \E c \in calls : Arrive(c)
  <2>1. PICK c \in calls : Arrive(c)
    BY <1>3
  <2>2. c.tab \in Tabs
    BY <1>1, SessionTypes
  <2>. QED  BY <2>1, <2>2, ArriveStep
<1>4. CASE \E c \in calls : Forget(c)
  BY <1>4 DEF Forget
<1>5. CASE \E t \in Tabs : Expire(t)
  BY <1>5
<1>6. CASE \E t \in Tabs : Reload(t) \/ OpenTab(t)
  BY <1>1, <1>6, StartStep
<1>7. CASE \E t \in Tabs : Navigate(t)
  <2>1. PICK t \in Tabs : Navigate(t)
    BY <1>7
  <2>2. Moves(t, {}, {})
    BY <1>1, <2>1, NavigateStep
  <2>3. Acts(t)
    BY <2>2, Zenon DEF Acts
  <2>. QED  BY <2>3
<1>8. CASE \E t \in Tabs : Asks(t)
  <2>1. PICK t \in Tabs : Asks(t)
    BY <1>8
  <2>2. Acts(t)
    BY <1>1, <2>1, AskStep DEF Acts
  <2>. QED  BY <2>2
<1>9. CASE \E t \in Tabs : Logout(t) /\ Held(t) = 0
  <2>1. PICK t \in Tabs : Logout(t) /\ Held(t) = 0
    BY <1>9
  <2>2. SignsOff(t, {})
    BY <1>1, <2>1, LogoutStep
  <2>3. Acts(t)
    BY <2>2, Zenon DEF Acts
  <2>. QED  BY <2>3
<1>10. CASE UNCHANGED vars
  <2>1. UNCHANGED <<server, local, tab, calls>>
    BY <1>10 DEF vars
  <2>. QED  BY <2>1
<1>11. CASE Next
  BY <1>2, <1>3, <1>4, <1>5, <1>6, <1>7, <1>8, <1>9, <1>11 DEF Next, Asks
<1>. QED  BY <1>10, <1>11

\* Whatever a tab does, it and the requests it has still fit.
LEMMA ActsFit ==
    ASSUME SessionInv, NEW t \in Tabs, Acts(t)
    PROVE  TabFits(t)' /\ Fits(t)' /\ \E done, sent : AtTab(t, done, sent)
<1>1. CASE \E d : Asked(t, d)
  <2>1. PICK d : Asked(t, d)
    BY <1>1
  <2>2. AtTab(t, {}, {d})
    BY <2>1, AskedAtTab DEF SessionInv
  <2>3. \E done, sent : AtTab(t, done, sent)
    BY <2>2, Zenon
  <2>. QED  BY <2>1, <2>3, AskFits
<1>2. CASE \E c \in Of(t) : \E sent : Parks(t, c, sent)
  <2>1. PICK c, sent : c \in Of(t) /\ Parks(t, c, sent)
    BY <1>2
  <2>2. AtTab(t, {c}, sent)
    BY <2>1 DEF Parks
  <2>3. \E done, new : AtTab(t, done, new)
    BY <2>2, Zenon
  <2>. QED  BY <2>1, <2>3, ParkFits
<1>3. CASE \E c \in Of(t) : \E sent : Refreshes(t, c, sent)
  <2>1. PICK c, sent : c \in Of(t) /\ Refreshes(t, c, sent)
    BY <1>3
  <2>2. AtTab(t, {c} \cup Waiting(t), sent)
    BY <2>1 DEF Refreshes
  <2>3. \E done, new : AtTab(t, done, new)
    BY <2>2, Zenon
  <2>. QED  BY <2>1, <2>3, RenewFits
<1>4. CASE \E c \in Of(t) : SignsIn(t, c)
  <2>1. PICK c \in Of(t) : SignsIn(t, c)
    BY <1>4
  <2>2. AtTab(t, {c}, {})
    BY <2>1 DEF SignsIn
  <2>3. \E done, new : AtTab(t, done, new)
    BY <2>2, Zenon
  <2>. QED  BY <2>1, <2>3, SignInFits
<1>5. CASE \E c \in Of(t) : LearnsUser(t, c) \/ LearnsNothing(t, c)
  <2>1. PICK c \in Of(t) : LearnsUser(t, c) \/ LearnsNothing(t, c)
    BY <1>5
  <2>2. AtTab(t, {c}, {})
    BY <2>1 DEF LearnsUser, LearnsNothing, Turns
  <2>3. \E done, new : AtTab(t, done, new)
    BY <2>2, Zenon
  <2>. QED  BY <2>1, <2>3, LearnFits
<1>6. CASE \E done, sent : Moves(t, done, sent)
  <2>1. PICK done, sent : Moves(t, done, sent)
    BY <1>6
  <2>2. AtTab(t, done, sent)
    BY <2>1 DEF Moves, Turns
  <2>. QED  BY <2>1, <2>2, MoveFits
<1>7. CASE \E done : SignsOff(t, done)
  <2>1. PICK done : SignsOff(t, done)
    BY <1>7
  <2>2. AtTab(t, done, {})
    BY <2>1 DEF SignsOff
  <2>3. \E ended, new : AtTab(t, ended, new)
    BY <2>2, Zenon
  <2>. QED  BY <2>1, <2>3, SignOffFits
<1>. QED  BY <1>1, <1>2, <1>3, <1>4, <1>5, <1>6, <1>7 DEF Acts

LEMMA InitFits ==
    Init => SessionInv
<1>. SUFFICES ASSUME Init PROVE SessionInv
  OBVIOUS
<1>1. PICK a \in Accounts : /\ active = Accounts \ {a}
                            /\ profile = [b \in Accounts |-> IF b = a THEN 0 ELSE 1]
  BY DEF Init
<1>2. /\ owner = <<>> /\ valid = {} /\ links = {} /\ local = 0 /\ calls = {} /\ budget \in Budgets
      /\ tab = [t \in Tabs |-> [Blank("home") EXCEPT !.open = (t = First)]]
  BY DEF Init
<1>3. Blank("home") \in TabType
  BY BlankTypeOK, PagesAreSplit
<1>4. ASSUME NEW t \in Tabs
      PROVE  /\ tab[t] \in TabType /\ tab[t].open = (t = First) /\ tab[t].page = "home"
             /\ tab[t].status = "unauthenticated" /\ tab[t].user = NoOne /\ tab[t].seen = 0
             /\ tab[t].saved = 0 /\ tab[t].access = NoAccess /\ tab[t].session = 0
             /\ ~tab[t].refreshing
  <2>1. PICK open \in BOOLEAN : open = (t = First)
    OBVIOUS
  <2>2. tab[t] = [Blank("home") EXCEPT !.open = open]
    BY <1>2, <2>1
  <2>3. /\ Blank("home").page = "home" /\ Blank("home").status = "unauthenticated"
        /\ Blank("home").user = NoOne /\ Blank("home").seen = 0 /\ Blank("home").saved = 0
        /\ Blank("home").access = NoAccess /\ Blank("home").session = 0 /\ ~Blank("home").refreshing
    BY DEF Blank
  <2>. QED  BY <1>3, <2>1, <2>2, <2>3 DEF TabType
<1>5. tab \in [Tabs -> TabType]
  <2>1. tab = [t \in Tabs |-> tab[t]]
    BY <1>2
  <2>. QED  BY <1>4, <2>1
<1>6. SessionTypeOK
  <2>1. owner \in Seq(Accounts) /\ Len(owner) = 0 /\ 0 \in 0..Len(owner)
    BY <1>2
  <2>. QED  BY <1>1, <1>2, <1>5, <2>1, SessionAssumption DEF SessionTypeOK
<1>7. Len(owner) = 0
  BY <1>2
<1>8. CallsFit /\ Known /\ NewTokens /\ StoresIssued
  BY <1>1, <1>2, <1>4, <1>7 DEF CallsFit, Known, NewTokens, StoresIssued
<1>9. ASSUME NEW t \in Tabs PROVE TabFits(t) /\ Fits(t) /\ Of(t) = {} /\ Held(t) = 0
  <2>1. Of(t) = {} /\ Held(t) = 0
    BY <1>2, <1>4 DEF Of, Held
  <2>2. TabFits(t)
    BY <1>2, <1>4, <2>1 DEF TabFits
  <2>3. Same(t)
    BY <1>4, <2>1, PagesAreSplit DEF Same, RefreshFits, NobodyFits
  <2>4. RefreshesHeld(t) /\ HeldAccepted(t) /\ SavesFit(t)
    BY <1>4, <2>1 DEF RefreshesHeld, HeldAccepted, SavesFit
  <2>. QED  BY <2>1, <2>2, <2>3, <2>4 DEF Fits
<1>10. tab[First].open
  BY <1>4, SessionAssumption
<1>. QED  BY <1>6, <1>8, <1>9, <1>10 DEF SessionInv, TabsFit

LEMMA ActsKeep ==
    ASSUME SessionInv, NEW t \in Tabs, Acts(t), budget' \in BudgetType
    PROVE  SessionInv'
<1>1. TabFits(t)' /\ Fits(t)'
  BY ActsFit
<1>2. PICK done, sent : AtTab(t, done, sent)
  BY ActsFit
<1>3. CallsFit' /\ Known' /\ NewTokens' /\ StoresIssued' /\ calls' \subseteq CallType
  BY <1>2, CallsOfATab DEF SessionInv
<1>4. StoresFit /\ OthersStay(t) /\ tab'[t].open
  BY <1>2 DEF AtTab
<1>5. \A c : c.tab # t => (c \in calls <=> c \in calls')
  BY <1>2, RequestsOfATab
<1>6. \A u \in Tabs : TabFits(u)' /\ Fits(u)'
  BY <1>1, <1>4, <1>5, OthersFit DEF SessionInv, TabsFit
<1>7. SessionTypeOK'
  BY <1>3, <1>4 DEF SessionInv, SessionTypeOK, StoresFit, server
<1>8. tab'[First].open
  BY <1>4, SessionAssumption DEF SessionInv, OthersStay, Alike
<1>. QED  BY <1>3, <1>6, <1>7, <1>8 DEF SessionInv, TabsFit

LEMMA StartKeeps ==
    ASSUME SessionInv, NEW t \in Tabs, Starts(t), budget' \in BudgetType
    PROVE  SessionInv'
<1>1. TabFits(t)' /\ Fits(t)'
  BY StartFits
<1>2. /\ CallsFit' /\ Known' /\ NewTokens' /\ StoresIssued' /\ calls' \subseteq CallType
      /\ \A c : c.tab # t => (c \in calls <=> c \in calls')
  BY CallsOfAStart DEF SessionInv
<1>3. StoresFit /\ tab'[t].open /\ local' = local /\ \A u \in Tabs \ {t} : tab'[u] = tab[u]
  BY DEF Starts
<1>4. OthersStay(t)
  BY <1>3 DEF OthersStay, Alike
<1>5. \A u \in Tabs : TabFits(u)' /\ Fits(u)'
  BY <1>1, <1>2, <1>3, <1>4, OthersFit DEF SessionInv, TabsFit
<1>6. SessionTypeOK'
  BY <1>2, <1>3 DEF SessionInv, SessionTypeOK, StoresFit, server
<1>7. tab'[First].open
  BY <1>3, SessionAssumption DEF SessionInv
<1>. QED  BY <1>2, <1>5, <1>6, <1>7 DEF SessionInv, TabsFit

LEMMA ReplyKeeps ==
    ASSUME SessionInv, ServerMoves, UNCHANGED <<tab, local>>, NEW c \in calls, NEW d, Reply(c, d),
           budget' \in BudgetType
    PROVE  SessionInv'
<1>1. CallsFit' /\ NewTokens' /\ StoresIssued' /\ calls' \subseteq CallType
  BY ReplyKeepsCalls
<1>2. \A t \in Tabs : TabFits(t)' /\ Fits(t)'
  BY ReplyFits
<1>3. local' \in 0..Len(owner')
  BY SessionTypes DEF SessionInv, SessionTypeOK, ServerMoves
<1>4. valid' \subseteq DOMAIN owner'
  BY DEF ServerMoves
<1>5. SessionTypeOK'
  BY <1>1, <1>3, <1>4 DEF SessionInv, SessionTypeOK, ServerMoves
<1>6. Known'
  BY DEF ServerMoves
<1>. QED  BY <1>1, <1>2, <1>5, <1>6 DEF SessionInv, TabsFit

LEMMA StepKeeps ==
    SessionInv /\ [Next]_vars => SessionInv'
<1>. SUFFICES ASSUME SessionInv, [Next]_vars PROVE SessionInv'
  OBVIOUS
<1>1. SessionTypeOK /\ budget' \in BudgetType
  BY BudgetFits DEF SessionInv
<1>2. CASE \E t \in Tabs : Acts(t) \/ Starts(t)
  BY <1>1, <1>2, ActsKeep, StartKeeps
<1>3. CASE \E t \in Tabs : Expire(t)
  <2>1. PICK t \in Tabs : Expire(t)
    BY <1>3
  <2>2. /\ CallsFit' /\ Known' /\ NewTokens' /\ StoresIssued' /\ tab' \in [Tabs -> TabType]
        /\ tab'[First].open /\ TabsFit' /\ \A u \in Tabs : Fits(u)'
    BY <2>1, ExpireKeeps
  <2>3. UNCHANGED <<owner, valid, active, profile, links, local, calls>>
    BY <2>1 DEF Expire, server
  <2>4. SessionTypeOK'
    BY <1>1, <2>2, <2>3 DEF SessionTypeOK
  <2>. QED  BY <2>2, <2>4 DEF SessionInv
<1>4. CASE ServerMoves /\ UNCHANGED <<tab, local>> /\ \E c \in calls : \E d : Reply(c, d)
  BY <1>1, <1>4, ReplyKeeps
<1>5. CASE \E a \in Accounts : Block(a)
  <2>1. PICK a \in Accounts : Block(a)
    BY <1>5
  <2>2. /\ CallsFit' /\ Known' /\ NewTokens' /\ StoresIssued' /\ TabsFit'
        /\ \A t \in Tabs : Fits(t)'
    BY <2>1, BlockKeeps
  <2>3. active' = active \ {a} /\ UNCHANGED <<owner, valid, profile, links, local, tab, calls>>
    BY <2>1 DEF Block
  <2>4. SessionTypeOK'
    BY <1>1, <2>3 DEF SessionTypeOK
  <2>. QED  BY <2>2, <2>3, <2>4 DEF SessionInv
<1>6. CASE /\ UNCHANGED <<server, local, tab>> /\ calls' \subseteq calls
           /\ \A c \in calls \ calls' : ~c.alive
  <2>1. /\ CallsFit' /\ Known' /\ NewTokens' /\ StoresIssued' /\ TabsFit'
        /\ \A t \in Tabs : Fits(t)'
    BY <1>6, StillKeeps
  <2>2. SessionTypeOK'
    BY <1>1, <1>6 DEF SessionTypeOK, server
  <2>. QED  BY <1>6, <2>1, <2>2 DEF SessionInv
<1>. QED  BY <1>2, <1>3, <1>4, <1>5, <1>6, StepKinds

LEMMA SessionInvariant == Spec => []SessionInv
BY InitFits, StepKeeps, PTL DEF Spec

-----------------------------------------------------------------------------
(* The properties                                                          *)

\* Every variable stays in its domain, and what a browser stores was issued by the server.
THEOREM SessionTypeCorrect == Spec => []SessionTypeOK
<1>1. SessionInv => SessionTypeOK
  BY DEF SessionInv
<1>. QED  BY <1>1, SessionInvariant, PTL

\* A tab whose traffic has not crossed acts as the account it shows and on that account's
\* pages, and holds no access token once it shows nobody.
THEOREM SessionActsAsShown == Spec => []ActsAsShown
<1>1. SessionInv => ActsAsShown
  BY DEF SessionInv, ActsAsShown, Fits, Same, Apart, ShownFits, NobodyFits
<1>. QED  BY <1>1, SessionInvariant, PTL

\* The only tab holds a refresh token that the server still accepts, whenever no request that
\* rotates, revokes or replaces it is on its way and its account is active.
THEOREM SessionHeldIsAccepted == Spec => []HeldIsAccepted
<1>1. SessionInv => HeldIsAccepted
  BY DEF SessionInv, HeldIsAccepted, Fits, HeldAccepted, Apart, Pending
<1>. QED  BY <1>1, SessionInvariant, PTL

\* The profile shown is at least the one whose saving was confirmed.
THEOREM SessionSavedIsShown == Spec => []SavedIsShown
<1>1. SessionInv => SavedIsShown
  <2>. SUFFICES ASSUME SessionInv, NEW t \in Tabs, ~tab[t].crossed PROVE tab[t].seen >= tab[t].saved
    BY DEF SavedIsShown
  <2>1. tab[t].seen \in Nat /\ tab[t].saved \in Nat
    BY SessionTypes DEF SessionInv, TabType
  <2>2. CASE tab[t].open
    BY <2>1, <2>2 DEF SessionInv, Fits, SavesFit, Apart
  <2>3. CASE ~tab[t].open
    BY <2>1, <2>3 DEF SessionInv, TabsFit, TabFits
  <2>. QED  BY <2>2, <2>3
<1>. QED  BY <1>1, SessionInvariant, PTL

\* One step ends a session of the only tab for one of the reasons the property names.
LEMMA SessionEnds ==
    ASSUME SessionInv, [Next]_vars, NEW t \in Tabs, Alone(t), ~tab[t].crossed,
           tab[t].status = "authenticated", tab'[t].status = "unauthenticated"
    PROVE  \/ Held(t) \notin valid \/ owner[Held(t)] \notin active
           \/ \E c \in Of(t) \ calls' : c.kind = "logout" \/ c.retried \/ c.phase = "lost"
<1>1. /\ tab[t].open /\ TabFits(t) /\ Fits(t) /\ tab \in [Tabs -> TabType]
      /\ \A c \in Of(t) : CallFits(c)
  BY DEF SessionInv, TabsFit, TabFits, SessionTypeOK, CallsFit, Of
<1>2. ShownFits(t) /\ \A c \in Of(t) : c.kind = "refresh" /\ c.phase = "unauthorized" => c.ref = Held(t)
  BY <1>1 DEF Fits, Same, RefreshesHeld, Apart
<1>3. Held(t) # 0 /\ \A c \in Of(t) : c.kind # "bootstrap"
  BY <1>2 DEF ShownFits
<1>4. ASSUME Acts(t) PROVE \E done : SignsOff(t, done)
  <2>1. ~\E d : Asked(t, d)
    BY DEF Asked
  <2>2. ~\E c \in Of(t) : \E sent : Parks(t, c, sent)
    <3>. SUFFICES ASSUME tab' = [tab EXCEPT ![t].refreshing = TRUE] PROVE FALSE
      BY DEF Parks
    <3>. QED  BY <1>1 DEF TabType
  <2>3. ~\E c \in Of(t) : \E sent : Refreshes(t, c, sent)
    BY DEF Refreshes
  <2>4. ~\E c \in Of(t) : SignsIn(t, c)
    BY DEF SignsIn
  <2>5. ~\E c \in Of(t) : LearnsUser(t, c) \/ LearnsNothing(t, c)
    BY <1>3 DEF LearnsUser, LearnsNothing
  <2>6. ~\E done, sent : Moves(t, done, sent)
    BY DEF Moves
  <2>. QED  BY <1>4, <2>1, <2>2, <2>3, <2>4, <2>5, <2>6 DEF Acts
<1>5. ASSUME NEW u \in Tabs \ {t}, Acts(u) PROVE FALSE
  <2>1. PICK done, sent : AtTab(u, done, sent)
    BY <1>5, ActsFit
  <2>. QED  BY <2>1 DEF AtTab, OthersStay, Alike
<1>6. ASSUME NEW u \in Tabs, Starts(u) PROVE FALSE
  BY <1>1, <1>3, <1>6 DEF Starts
<1>7. ASSUME NEW u \in Tabs, Expire(u) PROVE FALSE
  <2>1. tab' = [tab EXCEPT ![u].access.fresh = FALSE]
    BY <1>7 DEF Expire
  <2>2. PICK access : access = [tab[u].access EXCEPT !.fresh = FALSE]
    OBVIOUS
  <2>3. tab' = [tab EXCEPT ![u].access = access]
    BY <1>1, <2>1, <2>2
  <2>. QED  BY <1>1, <2>3 DEF TabType
<1>8. tab' # tab
  OBVIOUS
<1>9. Acts(t)
  BY <1>5, <1>6, <1>7, <1>8, StepKinds DEF Block
<1>10. PICK done : SignsOff(t, done)
  BY <1>4, <1>9
<1>11. Ends(t, done)
  BY <1>10 DEF SignsOff
<1>12. calls' = calls \ done /\ done \subseteq Of(t)
  <2>1. AtTab(t, done, {})
    BY <1>10 DEF SignsOff
  <2>. QED  BY <2>1 DEF AtTab, Swaps
<1>13. PICK c \in done : \/ c.kind = "logout" \/ c.retried \/ c.phase = "lost"
                         \/ c.kind = "refresh" /\ c.phase = "unauthorized"
  BY <1>3, <1>11 DEF Ends
<1>14. c \in Of(t) \ calls'
  BY <1>12, <1>13
<1>15. CASE c.kind = "refresh" /\ c.phase = "unauthorized"
  BY <1>1, <1>2, <1>14, <1>15 DEF CallFits
<1>. QED  BY <1>13, <1>14, <1>15

\* The only tab loses its session by its own logout, with a token the server no longer
\* accepts, by a refresh the network lost or by a request that failed again after it: never
\* because several requests met an expired access token at once.
THEOREM SessionLosesOnlyADeadSession == Spec => LosesOnlyADeadSession
<1>. DEFINE Ending == \A t \in Tabs :
         /\ Alone(t) /\ ~tab[t].crossed
         /\ tab[t].status = "authenticated" /\ tab'[t].status = "unauthenticated"
         => \/ Held(t) \notin valid \/ owner[Held(t)] \notin active
            \/ \E c \in Of(t) \ calls' : c.kind = "logout" \/ c.retried \/ c.phase = "lost"
<1>1. SessionInv /\ [Next]_vars => [Ending]_vars
  BY SessionEnds
<1>. HIDE DEF Ending
<1>2. Spec => [][Ending]_vars
  BY <1>1, SessionInvariant, PTL DEF Spec
<1>. QED  BY <1>2 DEF LosesOnlyADeadSession, Ending
=============================================================================
