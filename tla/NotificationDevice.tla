------------------------- MODULE NotificationDevice -------------------------
(***************************************************************************)
(* Web Push on one browser: push_notifications.ts in every open page,      *)
(* service-worker.js shared by all of them, and what the gateway does with *)
(* sessions and push registrations.                                        *)
(*                                                                         *)
(* A session is a generation: the browser's cookie names one, the gateway  *)
(* accepts the valid ones, a registration of an endpoint is bound to one.  *)
(* A session that is too old is accepted no more, but its token, which the *)
(* browser may still send, and its registrations stay until a delivery, a  *)
(* log-in or a log-out removes them.  A page works with the generation of  *)
(* its last bootstrap and may be behind the cookie.  A request is sent and *)
(* served at once, except a save, which carries the cookie of the moment   *)
(* it was sent at; a request whose session ends on the way is one that     *)
(* fails.  localStorage and the browser's push subscription are shared by  *)
(* the pages, the worker keeps the account it was last told of.            *)
(***************************************************************************)
EXTENDS Integers, Sequences, FiniteSets

CONSTANTS
    Users, Tabs,
    LeaseLimit,     \* NOTIFICATION_CLIENT_LEASE_LIMIT, 32
    MaxPushes,      \* bound of the model: notifications sent to the browser
    MaxSteps,       \* bound of the model: what users and others do
    MaxDrops,       \* bound of the model: requests that fail
    None

ASSUME DeviceAssumption ==
    /\ LeaseLimit \in Nat \ {0} /\ MaxPushes \in Nat /\ MaxSteps \in Nat /\ MaxDrops \in Nat
    /\ None \notin Users \cup Nat

VARIABLES
    owner,      \* the user of every generation made so far
    valid,      \* generations whose token is in the database and not too old
    cookie,     \* the generation of the browser's cookie, 0 when signed out
    rows,       \* push registrations
    removed,    \* generations that lost their last one to DeleteExpired; read by a property only
    unread,     \* notifications that are not read
    muted,      \* notifications that are not wanted, for now or for good
    endpoint,   \* the browser's push subscription, 0 when there is none
    made,       \* endpoints and installation ids made so far
    stored,     \* the installation record in localStorage
    pages,
    tasks,      \* synchronizations and set-ups under way in the pages
    mail,       \* messages from the pages to the worker
    leases,     \* healthy clients as the worker knows them, oldest first
    account,    \* the generation in the worker's cache, 0 for none
    refreshes,  \* account refreshes, one after the other; who waits for each
    fetched,    \* the answer the first of them has, None before it has one
    handlers,   \* pushes and clicks
    shown,      \* notifications on the screen
    spent       \* what the bounds count

vars == <<owner, valid, cookie, rows, removed, unread, muted, endpoint, made, stored, pages, tasks,
          mail, leases, account, refreshes, fetched, handlers, shown, spent>>

session == <<owner, valid, cookie>>
registry == <<rows, removed>>
notes == <<unread, muted>>
browser == <<endpoint, made, stored>>
worker == <<mail, leases, account, refreshes, fetched, handlers, shown>>

-----------------------------------------------------------------------------
Spends(n) == spent.steps + n <= MaxSteps /\ spent' = [spent EXCEPT !.steps = @ + n]
Unlucky ==
    /\ spent.drops < MaxDrops /\ spent.steps < MaxSteps
    /\ spent' = [spent EXCEPT !.drops = @ + 1, !.steps = @ + 1]

Closed == [open |-> FALSE, visible |-> FALSE, user |-> None, trusted |-> FALSE, gen |-> 0, inst |-> 0,
           healthy |-> FALSE, subscribed |-> FALSE, loading |-> FALSE,
           boot |-> [stage |-> "idle", gen |-> 0, inst |-> 0]]

UserOf(g) == IF g = 0 THEN None ELSE owner[g]

\* The session a request of the browser is of, 0 when it has none that is valid.
Live == IF cookie \in valid THEN cookie ELSE 0

\* The members of a sequence at some of its places, in their order.
Nth(places, n) == CHOOSE i \in places : Cardinality({j \in places : j <= i}) = n
Only(s, places) == [n \in 1..Cardinality(places) |-> s[Nth(places, n)]]

RefreshMessage == [type |-> "refresh"]

\* synchronizeServiceWorkerClientLease posts the lease again when it changes.
LeaseMessage(t, p) ==
    [type |-> "lease", tab |-> t, gen |-> IF p.user # None /\ p.gen # 0 /\ p.healthy THEN p.gen ELSE 0]

-----------------------------------------------------------------------------
(* Sessions and registrations (the gateway).                               *)

\* What the handlers under way have seen of the session; read by properties only.
Active(h) == h.stage \in {"refreshing", "matching", "asking", "eligible"}
Witness(g) ==
    {IF Active(h) THEN [h EXCEPT !.had = @ \/ g = h.gen, !.moved = @ \/ g # h.gen] ELSE h : h \in handlers}

\* The page that posts the form goes; tasks it had begun can still act.
Superseded(t) == {[k EXCEPT !.current = FALSE] : k \in {k \in tasks : k.tab = t /\ k.stage # "looking"}}
Others(t) == {k \in tasks : k.tab # t}
\* Mutant: a new task does not supersede the ones before it.
WithoutSuperseding(t) == tasks

Without(t) == Others(t) \cup Superseded(t)

\* clearNotificationServerRegistration
Cleared == [stored EXCEPT !.confirmed = FALSE]

\* A page that goes takes its client along: no window matches its lease
\* any more, which from then on only counts to the limit until it expires.
LeasesOf(ps) == Only(leases, {i \in DOMAIN leases : ps[leases[i].tab].open})
MailOf(ps) == Only(mail, {i \in DOMAIN mail : mail[i].type = "refresh" \/ ps[mail[i].tab].open})

\* A page is loaded with the account of session g: signed out, it drops
\* the record's confirmation, and either way it asks the worker to refresh.
Loaded(g, user) ==
    [Closed EXCEPT !.open = TRUE, !.visible = TRUE, !.user = user, !.trusted = TRUE,
                   !.boot.stage = IF g = 0 THEN "idle" ELSE "sent"]

Loads(t, g, ps) ==
    /\ pages' = ps
    /\ tasks' = Without(t)
    /\ stored' = IF g = 0 THEN Cleared ELSE stored
    /\ mail' = Append(MailOf([ps EXCEPT ![t] = Closed]), RefreshMessage)
    /\ leases' = LeasesOf([ps EXCEPT ![t] = Closed])

\* The cookie is g from now on.
Renewed(g) ==
    /\ cookie' = g
    /\ handlers' = Witness(g)
    /\ UNCHANGED <<removed, notes, endpoint, made, account, refreshes, fetched, shown>>

\* The registrations of session g are those of session next.
Rebound(g, next) == {IF r.gen = g THEN [r EXCEPT !.gen = next] ELSE r : r \in rows}
Unbound(gens) == {r \in rows : r.gen \notin gens}

\* The next generation of the same user takes the registrations over.
Rotate ==
    /\ cookie \in valid /\ Spends(1)
    /\ LET next == Len(owner) + 1
       IN /\ owner' = Append(owner, owner[cookie])
          /\ valid' = (valid \ {cookie}) \cup {next}
          /\ rows' = Rebound(cookie, next)
          /\ Renewed(next)
    /\ UNCHANGED <<pages, tasks, stored, mail, leases>>

\* The page that posts the form is answered with the page of the session
\* that is left or made; the tokens of the others are of the old one.
Redirected(t, g, user) ==
    /\ Renewed(g)
    /\ Loads(t, g, [u \in Tabs |-> IF u = t THEN Loaded(g, user) ELSE [pages[u] EXCEPT !.trusted = FALSE]])

SessionsOf(user) == {g \in 1..Len(owner) : owner[g] = user}

\* A new password ends every session of the user and what hangs on them.
ResetPassword(t) ==
    /\ cookie \in valid /\ pages[t].open /\ pages[t].trusted /\ Spends(2)
    /\ LET next == Len(owner) + 1
           gone == SessionsOf(owner[cookie])
       IN /\ owner' = Append(owner, owner[cookie])
          /\ valid' = (valid \ gone) \cup {next}
          /\ rows' = Unbound(gone)
          /\ Redirected(t, next, owner[cookie])

LogOut(t) ==
    /\ cookie # 0 /\ pages[t].open /\ pages[t].trusted /\ Spends(1)
    /\ valid' = valid \ {cookie}
    /\ rows' = Unbound({cookie})
    /\ Redirected(t, 0, None)
    /\ UNCHANGED owner

\* Another account's session is revoked if it is still valid.  The user's own,
\* too old, is replaced by a log-in with the password and left by one without.
LogIn(t, user) ==
    /\ UserOf(Live) # user /\ Spends(IF Live = 0 THEN 1 ELSE 2)
    /\ pages[t].open \/ \A u \in Tabs : ~pages[u].open
    /\ LET next == Len(owner) + 1
       IN /\ owner' = Append(owner, user)
          /\ valid' = (valid \ {cookie}) \cup {next}
          /\ \/ rows' = Unbound({Live})
             \/ UserOf(cookie) = user /\ rows' = Rebound(cookie, next)
          /\ Redirected(t, next, user)

\* Sessions end and the browser is not told: its cookie and pages stay.
SessionsEnd(gone) ==
    /\ valid' = valid \ gone
    /\ handlers' = Witness(IF cookie \in gone THEN 0 ELSE Live)
    /\ UNCHANGED <<owner, cookie, removed, notes, browser, pages, tasks, mail, leases, account,
                   refreshes, fetched, shown>>

\* A session is 14 days old.
SessionExpires(g) == Spends(1) /\ SessionsEnd({g}) /\ UNCHANGED rows

\* The user sets a new password in another browser.
ResetElsewhere(user) ==
    /\ SessionsOf(user) \cap valid # {} /\ Spends(1)
    /\ SessionsEnd(SessionsOf(user))
    /\ rows' = Unbound(SessionsOf(user))

\* The browser is restarted and has forgotten the session's cookie: pages
\* and the worker's run are gone, the session, its registrations, the worker's
\* cache, notifications on the screen and undelivered pushes stay.
CookieLost ==
    /\ cookie # 0 /\ Spends(1)
    /\ cookie' = 0
    /\ pages' = [t \in Tabs |-> Closed] /\ tasks' = {}
    /\ leases' = <<>> /\ mail' = <<>> /\ refreshes' = <<>> /\ fetched' = None
    /\ handlers' = {h \in handlers : ~Active(h)}
    /\ UNCHANGED <<owner, valid, registry, notes, browser, account, shown>>

\* A registration; "reported" once the push service has answered a delivery
\* that its endpoint is gone, until the row is deleted.
Row(sub, inst, g) == [endpoint |-> sub, inst |-> inst, gen |-> g, reported |-> FALSE]

\* register deletes the rows of the endpoint and of the installation and
\* inserts a new one, whose id no delivery knows.
Registered(k) ==
    LET mine == {r \in rows : UserOf(r.gen) = UserOf(k.sent) /\ (r.endpoint = k.sub \/ r.inst = k.inst)}
        known == {r \in mine : r.endpoint = k.sub}
        inst == IF known = {} THEN k.inst ELSE (CHOOSE r \in known : TRUE).inst
    IN [inst |-> inst, rows |-> (rows \ mine) \cup {Row(k.sub, inst, k.sent)}]

OwnedByAnother(k) == \E r \in rows : r.endpoint = k.sub /\ UserOf(r.gen) # UserOf(k.sent)

-----------------------------------------------------------------------------
(* The installation record.                                                *)

Record(inst, confirmed, g, user) == [inst |-> inst, confirmed |-> confirmed, gen |-> g, user |-> user]
NoRecord == Record(0, FALSE, 0, None)

OwnedBy(record, g, user) == record.user = user /\ record.gen = g
Confirmed(record, g, user) == OwnedBy(record, g, user) /\ record.confirmed

\* setServerRegistrationConfirmed(false): only of the task's own record.
Unconfirmed(k) == IF OwnedBy(stored, k.gen, k.user) THEN Cleared ELSE stored

\* Mutant: a bootstrap without a registration leaves the confirmation.
ReconciledKeeping(p) ==
    IF p.inst # 0 THEN Record(p.inst, TRUE, p.gen, p.user)
    ELSE IF stored.user = p.user THEN [stored EXCEPT !.gen = p.gen]
    ELSE stored

\* reconcileNotificationInstallation
Reconciled(p) ==
    IF p.inst # 0 THEN Record(p.inst, TRUE, p.gen, p.user)
    ELSE IF stored.user = p.user THEN [stored EXCEPT !.confirmed = FALSE, !.gen = p.gen]
    ELSE stored

-----------------------------------------------------------------------------
(* Tasks: synchronizeNotificationDevice and enableNotificationDevice.      *)

\* The newest task of a page is the current one; what resumes in another
\* one finds itself superseded and ends.
NewTask(t, p, kind, record) ==
    [tab |-> t, current |-> TRUE, kind |-> kind, stage |-> "looking", gen |-> p.gen, user |-> p.user,
     was |-> Confirmed(record, p.gen, p.user),
     sub |-> 0, inst |-> 0, sent |-> 0, conflicts |-> FALSE, answer |-> None]

\* Page p, which is to be page t, begins a task.
Begins(t, p, kind) ==
    /\ pages' = [pages EXCEPT ![t] = [p EXCEPT !.loading = TRUE]]
    /\ stored' = Reconciled(p)
    /\ tasks' = Without(t) \cup {NewTask(t, p, kind, Reconciled(p))}

Ends(k, subscribed) ==
    /\ tasks' = tasks \ {k}
    /\ pages' = IF pages[k.tab].gen = k.gen
                THEN [pages EXCEPT ![k.tab].subscribed = subscribed, ![k.tab].loading = FALSE]
                ELSE pages

Continues(k, next) == tasks' = (tasks \ {k}) \cup {next} /\ UNCHANGED pages

\* The record a task works with: the stored one if it is its own, or a new one.
Installation(k) ==
    IF OwnedBy(stored, k.gen, k.user) THEN stored ELSE Record(made.inst + 1, FALSE, k.gen, k.user)

\* persistSubscription up to its request.
Persists(k, sub, conflicts) ==
    /\ stored' = Installation(k)
    /\ Continues(k, [k EXCEPT !.stage = "saving", !.sub = sub, !.inst = Installation(k).inst,
                              !.conflicts = conflicts,
                              !.sent = IF pages[k.tab].trusted THEN cookie ELSE 0])

Superfluous(k) == ~k.current /\ tasks' = tasks \ {k} /\ UNCHANGED pages

\* navigator.serviceWorker.ready, then getSubscription.
Look(k) ==
    /\ k.stage = "looking"
    /\ \/ /\ endpoint = 0 /\ k.kind = "synchronize"
          /\ stored' = Unconfirmed(k)
          /\ Ends(k, FALSE)
          /\ UNCHANGED made
       \/ /\ endpoint = 0 /\ k.kind = "enable"
          /\ Continues(k, [k EXCEPT !.stage = "subscribing"])
          /\ UNCHANGED <<stored, made>>
       \/ /\ endpoint # 0
          /\ Persists(k, endpoint, ~OwnedBy(stored, k.gen, k.user))
          /\ made' = IF OwnedBy(stored, k.gen, k.user) THEN made ELSE [made EXCEPT !.inst = @ + 1]
    /\ UNCHANGED <<session, registry, notes, endpoint, worker, spent>>

\* POST /api/push_subscriptions: the session of the request must still be
\* there, and the endpoint must not be another user's.
SaveServed(k) ==
    /\ k.stage = "saving"
    /\ IF k.sent \notin valid \/ OwnedByAnother(k)
       THEN /\ tasks' = (tasks \ {k}) \cup
                  {[k EXCEPT !.stage = "saved", !.answer = IF k.sent \in valid THEN "conflict" ELSE "error"]}
            /\ UNCHANGED registry
       ELSE /\ rows' = Registered(k).rows
            /\ removed' = removed \ {k.sent}
            /\ tasks' = (tasks \ {k}) \cup
                  {[k EXCEPT !.stage = "saved", !.answer = "ok", !.inst = Registered(k).inst]}
    /\ UNCHANGED <<session, notes, browser, pages, worker, spent>>

SaveFails(k) ==
    /\ k.stage \in {"saving", "saved"} /\ k.answer # "error" /\ Unlucky
    /\ tasks' = (tasks \ {k}) \cup {[k EXCEPT !.stage = "saved", !.answer = "error"]}
    /\ UNCHANGED <<session, registry, notes, browser, pages, worker>>

SaveAnswered(k) ==
    /\ k.stage = "saved"
    /\ \/ Superfluous(k) /\ UNCHANGED stored
       \/ /\ k.current /\ k.answer = "ok"
          /\ stored' = Record(k.inst, TRUE, k.gen, k.user)
          /\ Ends(k, TRUE)
       \/ /\ k.current /\ k.answer = "conflict" /\ k.conflicts
          /\ Continues(k, [k EXCEPT !.stage = "unsubscribing"])
          /\ UNCHANGED stored
       \/ /\ k.current /\ (k.answer = "error" \/ (k.answer = "conflict" /\ ~k.conflicts))
          /\ Ends(k, k.was)
          /\ UNCHANGED stored
    /\ UNCHANGED <<session, registry, notes, endpoint, made, worker, spent>>

Unsubscribed(k) ==
    /\ k.stage = "unsubscribing"
    /\ endpoint' = IF endpoint = k.sub THEN 0 ELSE endpoint
    /\ \/ Superfluous(k)
       \/ k.current /\ Continues(k, [k EXCEPT !.stage = "subscribing", !.was = FALSE])
    /\ UNCHANGED <<session, registry, notes, made, stored, worker, spent>>

\* pushManager.subscribe: the subscription there is, or a new one.
Subscription == IF endpoint = 0 THEN made.endpoint + 1 ELSE endpoint

Subscribed(k) ==
    LET sub == Subscription
        newInst == IF ~k.current \/ OwnedBy(stored, k.gen, k.user) THEN 0 ELSE 1
    IN /\ k.stage = "subscribing"
       /\ endpoint' = sub
       /\ made' = [endpoint |-> IF endpoint = 0 THEN sub ELSE made.endpoint, inst |-> made.inst + newInst]
       /\ \/ Superfluous(k) /\ UNCHANGED stored
          \/ k.current /\ Persists(k, sub, FALSE)
       /\ UNCHANGED <<session, registry, notes, worker, spent>>

\* The browser or its push service gives the subscription up; nobody is told.
SubscriptionDropped ==
    /\ endpoint # 0 /\ Spends(1)
    /\ endpoint' = 0
    /\ UNCHANGED <<session, registry, notes, made, stored, pages, tasks, worker>>

-----------------------------------------------------------------------------
(* Pages.                                                                  *)

Load(t) ==
    /\ Spends(1)
    /\ Loads(t, Live, [pages EXCEPT ![t] = Loaded(Live, UserOf(Live))])
    /\ UNCHANGED <<session, registry, notes, endpoint, made, account, refreshes, fetched, handlers, shown>>

BootServed(t) ==
    LET own == {r \in rows : r.gen = cookie}
    IN /\ pages[t].boot.stage = "sent"
       /\ cookie \in valid
       /\ pages' = [pages EXCEPT ![t].boot =
                        [stage |-> "answered", gen |-> cookie,
                         inst |-> IF own = {} THEN 0 ELSE (CHOOSE r \in own : TRUE).inst]]
       /\ UNCHANGED <<session, registry, notes, browser, tasks, worker, spent>>

BootFails(t) ==
    /\ pages[t].boot.stage = "sent"
    /\ \/ cookie \notin valid /\ UNCHANGED spent
       \/ Unlucky
    /\ pages' = [pages EXCEPT ![t].boot = Closed.boot]
    /\ UNCHANGED <<session, registry, notes, browser, tasks, worker>>

\* applyBootstrap: of another user it changes nothing; of this one it sets
\* the push configuration and starts a synchronization.
BootApplied(t) ==
    LET p == [pages[t] EXCEPT !.gen = pages[t].boot.gen, !.inst = pages[t].boot.inst,
                              !.boot = Closed.boot]
        other == owner[pages[t].boot.gen] # pages[t].user
    IN /\ pages[t].boot.stage = "answered"
       /\ IF other
          THEN /\ pages' = [pages EXCEPT ![t].boot = Closed.boot]
               /\ UNCHANGED <<stored, tasks, mail>>
          ELSE /\ Begins(t, p, "synchronize")
               /\ mail' = IF p.gen = pages[t].gen THEN mail
                          ELSE mail \o <<RefreshMessage, LeaseMessage(t, p)>>
       /\ UNCHANGED <<session, registry, notes, endpoint, made, leases, account, refreshes, fetched,
                      handlers, shown, spent>>

\* The page's channel is joined: it counts as healthy and refreshes its bootstrap.
Connects(t) ==
    LET p == [pages[t] EXCEPT !.healthy = TRUE, !.boot.stage = IF @ = "idle" THEN "sent" ELSE @]
    IN /\ pages[t].gen # 0 /\ ~pages[t].healthy
       /\ cookie \in valid /\ owner[cookie] = pages[t].user
       /\ Spends(1)
       /\ pages' = [pages EXCEPT ![t] = p]
       /\ mail' = Append(mail, LeaseMessage(t, p))
       /\ UNCHANGED <<session, registry, notes, browser, tasks, leases, account, refreshes, fetched,
                      handlers, shown>>

Disconnects(t) ==
    LET p == [pages[t] EXCEPT !.healthy = FALSE]
    IN /\ pages[t].healthy /\ Spends(1)
       /\ pages' = [pages EXCEPT ![t] = p]
       /\ mail' = Append(mail, LeaseMessage(t, p))
       /\ UNCHANGED <<session, registry, notes, browser, tasks, leases, account, refreshes, fetched,
                      handlers, shown>>

\* The user comes back to the page: with a configuration it synchronizes.
Focus(t) ==
    /\ pages[t].open /\ Spends(1)
    /\ IF pages[t].gen # 0
       THEN Begins(t, [pages[t] EXCEPT !.visible = TRUE], "synchronize")
       ELSE pages' = [pages EXCEPT ![t].visible = TRUE] /\ UNCHANGED <<stored, tasks>>
    /\ UNCHANGED <<session, registry, notes, endpoint, made, worker>>

Hide(t) ==
    /\ pages[t].visible /\ Spends(1)
    /\ pages' = [pages EXCEPT ![t].visible = FALSE]
    /\ UNCHANGED <<session, registry, notes, browser, tasks, worker>>

\* The bell is clicked where this device is not subscribed; it is disabled
\* while a synchronization has not answered.
BellEnables(t) == pages[t].gen # 0 /\ ~pages[t].subscribed /\ ~pages[t].loading

Enable(t) ==
    /\ BellEnables(t) /\ Spends(1)
    /\ Begins(t, pages[t], "enable")
    /\ UNCHANGED <<session, registry, notes, endpoint, made, worker>>

\* A timer of the page renews the lease.
Heartbeat(t) ==
    /\ pages[t].open /\ Spends(1)
    /\ mail' = Append(mail, LeaseMessage(t, pages[t]))
    /\ UNCHANGED <<session, registry, notes, browser, pages, tasks, leases, account, refreshes, fetched,
                   handlers, shown>>

-----------------------------------------------------------------------------
(* The service worker: its account and its clients.                        *)

LeaseOf(t) == {i \in DOMAIN leases : leases[i].tab = t}
Leased(t, g) == \E i \in LeaseOf(t) : leases[i].gen = g

NotOf(t) == {i \in DOMAIN leases : leases[i].tab # t}

\* Mutant: a page that is no longer healthy keeps its lease.
LeasesKept(m) ==
    LET rest == Only(leases, NotOf(m.tab))
        all == IF m.gen = 0 THEN leases ELSE Append(rest, [tab |-> m.tab, gen |-> m.gen])
    IN IF Len(all) > LeaseLimit THEN Tail(all) ELSE all

\* updateNotificationClientLease
LeasesWith(m) ==
    LET rest == Only(leases, NotOf(m.tab))
        all == IF m.gen = 0 THEN rest ELSE Append(rest, [tab |-> m.tab, gen |-> m.gen])
    IN IF Len(all) > LeaseLimit THEN Tail(all) ELSE all

Mail ==
    /\ mail # <<>>
    /\ mail' = Tail(mail)
    /\ IF Head(mail).type = "refresh"
       THEN refreshes' = Append(refreshes, [kind |-> "message", n |-> 0]) /\ UNCHANGED leases
       ELSE leases' = LeasesWith(Head(mail)) /\ UNCHANGED refreshes
    /\ UNCHANGED <<session, registry, notes, browser, pages, tasks, account, fetched, handlers, shown, spent>>

\* A hidden page's timers are slowed down, a closed one has none.
LeaseExpires ==
    /\ leases # <<>> /\ ~pages[Head(leases).tab].visible /\ Spends(1)
    /\ leases' = Tail(leases)
    /\ UNCHANGED <<session, registry, notes, browser, pages, tasks, mail, account, refreshes, fetched,
                   handlers, shown>>

\* An idle worker is stopped; its cache stays, its leases do not.
WorkerStops ==
    /\ leases # <<>> /\ refreshes = <<>> /\ ~\E h \in handlers : Active(h)
    /\ Spends(1)
    /\ leases' = <<>>
    /\ UNCHANGED <<session, registry, notes, browser, pages, tasks, mail, account, refreshes, fetched,
                   handlers, shown>>

\* Of the refreshes only the first is under way.
RefreshServed ==
    /\ refreshes # <<>> /\ fetched = None
    /\ fetched' = Live
    /\ UNCHANGED <<session, registry, notes, browser, pages, tasks, mail, leases, account, refreshes,
                   handlers, shown, spent>>

\* The request fails; handlers under way may find no account.
RefreshFails ==
    /\ refreshes # <<>> /\ fetched = None /\ Unlucky
    /\ fetched' = 0
    /\ handlers' = {IF Active(h) THEN [h EXCEPT !.failed = TRUE] ELSE h : h \in handlers}
    /\ UNCHANGED <<session, registry, notes, browser, pages, tasks, mail, leases, account, refreshes, shown>>

\* storeNotificationAccount closes what other generations have shown.
RefreshStored ==
    /\ fetched # None
    /\ account' = fetched /\ fetched' = None
    /\ refreshes' = Tail(refreshes)
    /\ shown' = {s \in shown : s.gen = fetched}
    /\ handlers' = {IF h.kind = Head(refreshes).kind /\ h.n = Head(refreshes).n /\ h.stage = "refreshing"
                    THEN [h EXCEPT !.stage = "matching"] ELSE h : h \in handlers}
    /\ UNCHANGED <<session, registry, notes, browser, pages, tasks, mail, leases, spent>>

-----------------------------------------------------------------------------
(* Pushes and clicks.                                                      *)

\* A handler of a push, and of a click on what it has shown, is known by the
\* number and the generation of the notification; the rest is its progress.
Handler(kind, n, gen, sub) ==
    [kind |-> kind, n |-> n, gen |-> gen, sub |-> sub, stage |-> "sent",
     had |-> FALSE, moved |-> FALSE, failed |-> FALSE, read |-> FALSE]

\* What a notification on the screen carries to the click on it.
Noted(h) == [n |-> h.n, gen |-> h.gen]

\* Delivery.deliver of a new notification: the user's registrations whose
\* session is too old are deleted, the others are sent to.  The push service
\* may answer of an endpoint that is no longer the browser's that it is gone.
Deliver(user) ==
    LET n == spent.pushes + 1
        own == {r \in rows : owner[r.gen] = user}
        sent == {r \in own : r.gen \in valid}
    IN /\ n <= MaxPushes /\ spent.steps < MaxSteps /\ own # {}
       /\ \E gone \in SUBSET {r \in sent : r.endpoint # endpoint} :
            rows' = (rows \ own) \cup (sent \ gone) \cup {[r EXCEPT !.reported = TRUE] : r \in gone}
       /\ handlers' = handlers \cup
            {Handler("push", n, r.gen, r.endpoint) : r \in {r \in sent : r.endpoint = endpoint}}
       /\ unread' = unread \cup {n}
       /\ spent' = [spent EXCEPT !.pushes = n, !.steps = @ + 1]
       /\ UNCHANGED <<session, removed, muted, browser, pages, tasks, mail, leases, account, refreshes,
                      fetched, shown>>

\* After the transaction, finalize_deliveries deletes the row by its id: not
\* one that has been inserted since for the same endpoint or installation.
DeleteExpired(r) ==
    /\ r.reported
    /\ rows' = rows \ {r}
    /\ removed' = IF \E q \in rows' : q.gen = r.gen THEN removed ELSE removed \cup {r.gen}
    /\ UNCHANGED <<session, notes, browser, pages, tasks, worker, spent>>

Step(h, stage) == handlers' = (handlers \ {h}) \cup {[h EXCEPT !.stage = stage]}

Starts(h) ==
    /\ handlers' = (handlers \ {h}) \cup
          {[h EXCEPT !.stage = "refreshing", !.had = Live = h.gen, !.moved = Live # h.gen,
                     !.read = h.n \notin unread]}
    /\ refreshes' = Append(refreshes, [kind |-> h.kind, n |-> h.n])

Arrives(h) ==
    /\ h.stage = "sent" /\ endpoint = h.sub
    /\ Starts(h)
    /\ UNCHANGED <<session, registry, notes, browser, pages, tasks, mail, leases, account, fetched, shown, spent>>

\* notificationclick closes the notification first.
Click(s) ==
    /\ Spends(1)
    /\ shown' = shown \ {s}
    /\ ~\E h \in handlers : h.kind = "click" /\ h.n = s.n
    /\ Starts(Handler("click", s.n, s.gen, 0))
    /\ UNCHANGED <<session, registry, notes, browser, pages, tasks, mail, leases, account, fetched>>

Match(h) ==
    /\ h.stage = "matching"
    /\ Step(h, IF account = h.gen THEN "asking" ELSE "dropped")
    /\ UNCHANGED <<session, registry, notes, browser, pages, tasks, mail, leases, account, refreshes,
                   fetched, shown, spent>>

\* notificationStillEligible: Delivery.eligible?
Eligible(h) == Live = h.gen /\ h.n \in unread \ muted

Ask(h) ==
    /\ h.stage = "asking"
    /\ \/ Step(h, IF Eligible(h) THEN "eligible" ELSE "dropped") /\ UNCHANGED spent
       \/ Unlucky /\ handlers' = (handlers \ {h}) \cup {[h EXCEPT !.stage = "dropped", !.failed = TRUE]}
    /\ UNCHANGED <<session, registry, notes, browser, pages, tasks, mail, leases, account, refreshes,
                   fetched, shown>>

Chat(t) == pages[t].open /\ pages[t].user # None

Decide(h) ==
    /\ h.kind = "push" /\ h.stage = "eligible"
    /\ IF \E t \in Tabs : Chat(t) /\ pages[t].visible /\ Leased(t, h.gen)
       THEN Step(h, "suppressed") /\ UNCHANGED shown
       ELSE Step(h, "shown") /\ shown' = shown \cup {Noted(h)}
    /\ UNCHANGED <<session, registry, notes, browser, pages, tasks, mail, leases, account, refreshes,
                   fetched, spent>>

\* A healthy page is focused, or a new window is opened.
Navigate(h) ==
    LET healthy == {t \in Tabs : Chat(t) /\ Leased(t, h.gen)}
    IN /\ h.kind = "click" /\ h.stage = "eligible"
       /\ Step(h, "navigated")
       /\ \/ \E t \in healthy :
               /\ Begins(t, [pages[t] EXCEPT !.visible = TRUE], "synchronize")
               /\ UNCHANGED <<mail, leases>>
          \/ healthy = {} /\ \E t \in Tabs :
               ~pages[t].open /\ Loads(t, Live, [pages EXCEPT ![t] = Loaded(Live, UserOf(Live))])
       /\ UNCHANGED <<session, registry, notes, endpoint, made, account, refreshes, fetched, shown, spent>>

\* The notification's message is read on another device.
Read(n) ==
    /\ n \in unread /\ Spends(1)
    /\ unread' = unread \ {n}
    /\ UNCHANGED <<session, registry, muted, browser, pages, tasks, worker>>

\* Mentions of the server or the channel are turned off, the thread is blocked
\* or closed, the server is being deleted, the message is no mention any more.
Mute(n) ==
    /\ n \in 1..spent.pushes \ muted /\ Spends(1)
    /\ muted' = muted \cup {n}
    /\ UNCHANGED <<session, registry, unread, browser, pages, tasks, worker>>

\* Mentions are turned on again, the thread is unblocked or opened.
Unmute(n) ==
    /\ n \in muted /\ Spends(1)
    /\ muted' = muted \ {n}
    /\ UNCHANGED <<session, registry, unread, browser, pages, tasks, worker>>

-----------------------------------------------------------------------------
\* Either a page is being loaded by a user whose browser has never been
\* subscribed, or one is open, joined and synchronized on a registered device.
Init ==
    /\ \E user \in Users : owner = <<user>>
    /\ valid = {1} /\ cookie = 1 /\ unread = {} /\ muted = {} /\ removed = {}
    /\ \E t \in Tabs :
        \/ /\ rows = {} /\ endpoint = 0 /\ stored = NoRecord /\ made = [endpoint |-> 0, inst |-> 0]
           /\ pages = [u \in Tabs |-> IF u = t THEN Loaded(1, owner[1]) ELSE Closed]
           /\ mail = <<RefreshMessage>> /\ leases = <<>> /\ account = 0
        \/ /\ rows = {Row(1, 1, 1)} /\ endpoint = 1
           /\ stored = Record(1, TRUE, 1, owner[1]) /\ made = [endpoint |-> 1, inst |-> 1]
           /\ pages = [u \in Tabs |->
                IF u = t
                THEN [Closed EXCEPT !.open = TRUE, !.visible = TRUE, !.user = owner[1], !.trusted = TRUE,
                                    !.gen = 1, !.inst = 1, !.healthy = TRUE, !.subscribed = TRUE]
                ELSE Closed]
           /\ mail = <<>> /\ leases = <<[tab |-> t, gen |-> 1]>> /\ account = 1
    /\ tasks = {} /\ refreshes = <<>> /\ fetched = None /\ handlers = {} /\ shown = {}
    /\ spent = [steps |-> 0, drops |-> 0, pushes |-> 0]

Session ==
    \/ Rotate \/ CookieLost \/ \E g \in valid : SessionExpires(g)
    \/ \E user \in Users : ResetElsewhere(user)
    \/ \E t \in Tabs : ResetPassword(t) \/ LogOut(t) \/ \E user \in Users : LogIn(t, user)

Page ==
    \/ SubscriptionDropped
    \/ \E t \in Tabs :
        \/ Load(t) \/ BootServed(t) \/ BootFails(t) \/ BootApplied(t) \/ Connects(t) \/ Disconnects(t)
        \/ Focus(t) \/ Hide(t) \/ Enable(t) \/ Heartbeat(t)
    \/ \E k \in tasks :
        Look(k) \/ SaveServed(k) \/ SaveFails(k) \/ SaveAnswered(k) \/ Unsubscribed(k) \/ Subscribed(k)

Worker ==
    \/ Mail \/ LeaseExpires \/ WorkerStops \/ RefreshServed \/ RefreshFails \/ RefreshStored
    \/ \E h \in handlers : Arrives(h) \/ Match(h) \/ Ask(h) \/ Decide(h) \/ Navigate(h)
    \/ \E s \in shown : Click(s)

Gateway ==
    \/ \E user \in Users : Deliver(user)
    \/ \E r \in rows : DeleteExpired(r)
    \/ \E n \in unread : Read(n)
    \/ \E n \in 1..spent.pushes : Mute(n) \/ Unmute(n)

Next == Session \/ Page \/ Worker \/ Gateway

Spec == Init /\ [][Next]_vars

-----------------------------------------------------------------------------
Gens == 0..Len(owner)

\* The records keep their shape: every registration is bound to a session that
\* was made, a client has one lease and there are no more than the limit, and
\* a page has one current task, which a page that is loading is waiting for.
TypeOK ==
    /\ owner \in Seq(Users) /\ valid \subseteq 1..Len(owner) /\ cookie \in Gens
    /\ \A r \in rows : r.gen \in 1..Len(owner) /\ r.endpoint \in 1..made.endpoint
    /\ endpoint \in 0..made.endpoint
    /\ Len(leases) <= LeaseLimit /\ \A i, j \in DOMAIN leases : i # j => leases[i].tab # leases[j].tab
    /\ \A k, l \in tasks : k.current /\ l.current /\ k.tab = l.tab => k = l
    /\ \A t \in Tabs : pages[t].loading => \E k \in tasks : k.current /\ k.tab = t

\* At any moment, a confirmation in localStorage that is of the browser's
\* session, while that is valid, is of its user, and the gateway has a
\* registration of that session: no bootstrap applied late, no superseded save
\* and no change of session confirms a device on the strength of rows that are
\* gone.  Excepted is a session whose last registration a delivery has deleted
\* because its endpoint was gone, and which has not registered since; one that
\* is too old or was ended elsewhere is not the browser's any more.
ConfirmedIsRegistered ==
    stored.confirmed /\ stored.gen = Live
    => stored.user = UserOf(Live) /\ (Live \in removed \/ \E r \in rows : r.gen = Live)

Verdict(h, stage) == h.stage # stage /\ \E after \in handlers' : after.kind = h.kind /\ after.n = h.n /\ after.stage = stage

\* What becomes of a push.  It is shown only for the session the browser had
\* at some moment since it came, and only when it was not read before; it is
\* dropped only when the session changed or ended, a request failed, it was read
\* or is not wanted now; and it is suppressed only for a page on the screen that
\* is joined with the session of the push, or whose message about that is on its
\* way.
PushVerdict ==
    [][\A h \in handlers :
        /\ Verdict(h, "shown") => h.had /\ ~h.read
        /\ Verdict(h, "dropped") => h.moved \/ h.failed \/ h.n \notin unread \/ h.n \in muted
                                 \/ (h.stage = "asking" /\ spent' # spent)
        /\ Verdict(h, "suppressed") =>
            \E t \in Tabs :
                /\ pages[t].visible
                /\ \/ pages[t].gen = h.gen /\ pages[t].healthy
                   \/ \E i \in DOMAIN mail : mail[i].type = "lease" /\ mail[i].tab = t]_vars
=============================================================================
