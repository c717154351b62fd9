------------------------------- MODULE Sessions -------------------------------
(***************************************************************************)
(* The session of one account: user-service's AuthService with its users   *)
(* row and Redis blacklist, and the tabs of one browser, each with the     *)
(* axios interceptors of api/client.ts, AuthContext and the routes, over   *)
(* the localStorage they share.  A token pair is a number; pairs are       *)
(* numbered as they are issued, and 0 is no pair.                          *)
(***************************************************************************)
EXTENDS Integers, FiniteSets

CONSTANTS
    MaxTabs,        \* tabs of the browser
    MaxCalls,       \* bound: calls their pages make
    MaxExpiries,    \* bound: access tokens that expire
    MaxFaults       \* bound: lost requests and answers, logins on another device

ASSUME SessionsAssumption ==
    /\ MaxTabs \in Nat \ {0}
    /\ {MaxCalls, MaxExpiries, MaxFaults} \subseteq Nat

\* Tab 1 makes the first call; calls are numbered in the order in which they are made.
Tabs == 1..MaxTabs
NoTab == 0
Calls == 1..MaxCalls

VARIABLES
    row,            \* the account is in table users
    hash,           \* the pair whose refresh token hashed_refresh_token is of
    issued,         \* pairs issued so far
    expired,        \* pairs whose access token has expired
    blacklist,      \* pairs whose access token's jti Redis holds
    storage,        \* the pair in localStorage
    view,           \* what a tab shows: "verifying", "login" or "app"
    isRefreshing,   \* per tab
    call,           \* the calls
    uses,           \* pairs issued against each refresh token
    overlapped,     \* refresh tokens presented again before their rotation
    out,            \* access tokens whose logout was carried out
    accounts,       \* rows inserted
    raced,          \* session-changing work of two sources has overlapped
    faults

ghosts == <<uses, overlapped, out, accounts>>
state == <<row, hash, issued, expired, blacklist, storage, view, isRefreshing, call,
           ghosts, faults>>
vars == <<state, raced>>

\* A call asks for at most two logins or registrations, one retried, and two refreshes.
Pairs == 1..(1 + 4 * MaxCalls + MaxFaults)

Unused == [pc |-> "unused", kind |-> "none", tab |-> NoTab, tok |-> 0, retry |-> FALSE]

\* What a tab that is loaded shows: ProtectedRoute waits for the check of a stored pair
\* and sends everyone else to the login form.
Mounted(pair) == IF pair = 0 THEN "login" ELSE "verifying"

Init ==
    /\ row \in BOOLEAN
    /\ issued = IF row THEN 1 ELSE 0
    /\ hash = issued /\ storage = issued
    /\ expired = {} /\ blacklist = {}
    /\ view = [t \in Tabs |-> Mounted(storage)]
    /\ isRefreshing = [t \in Tabs |-> FALSE]
    /\ call = [c \in Calls |-> Unused]
    /\ uses = [n \in Pairs |-> 0] /\ overlapped = {} /\ out = {} /\ accounts = 0
    /\ raced = FALSE /\ faults = 0

Go(c, pc) == call' = [call EXCEPT ![c].pc = pc]
GoWith(c, pc, tok) == call' = [call EXCEPT ![c].pc = pc, ![c].tok = tok]

Faulty == faults < MaxFaults /\ faults' = faults + 1

-----------------------------------------------------------------------------
(* AuthService *)

\* The signature of every token that was issued is right; it is not expired and not
\* blacklisted.
Passes(tok) == tok # 0 /\ tok \notin expired \cup blacklist

\* JwtAuthGuard, on the endpoints of a session and, by ForwardAuth, on every other; what
\* a page shows of its answer changes nothing here.
Guard(c) ==
    /\ call[c].pc = "server" /\ call[c].kind \in {"page", "iam", "logout"}
    /\ Go(c, IF ~Passes(call[c].tok) THEN "denied"
             ELSE CASE call[c].kind = "logout" -> "clear"
               [] call[c].kind = "iam" -> "ok"
               [] OTHER -> "done")
    /\ UNCHANGED <<row, hash, issued, expired, blacklist, storage, view, isRefreshing,
                   ghosts, faults>>

\* logout verifies the token again and does nothing if it has expired since.
Clear(c) ==
    /\ call[c].pc = "clear"
    /\ IF call[c].tok \in expired
       THEN Go(c, "ok") /\ UNCHANGED hash
       ELSE Go(c, "revoke") /\ hash' = 0
    /\ UNCHANGED <<row, issued, expired, blacklist, storage, view, isRefreshing, ghosts, faults>>

MutantRevoke(c) ==
    /\ call[c].pc = "revoke"
    /\ blacklist' = blacklist \cup {call[c].tok}
    /\ out' = out \cup {call[c].tok}
    /\ Go(c, "ok")
    /\ UNCHANGED <<row, hash, issued, expired, storage, view, isRefreshing, uses,
                   overlapped, accounts, faults>>

\* The jti goes to Redis for the rest of the token's life, if any is left.
Revoke(c) ==
    /\ call[c].pc = "revoke"
    /\ blacklist' = blacklist \cup ({call[c].tok} \ expired)
    /\ out' = out \cup {call[c].tok}
    /\ Go(c, "ok")
    /\ UNCHANGED <<row, hash, issued, expired, storage, view, isRefreshing, uses,
                   overlapped, accounts, faults>>

\* The password is right or not.
Login(c) ==
    /\ call[c].pc = "server" /\ call[c].kind = "login"
    /\ \/ row /\ Go(c, "issue")
       \/ Go(c, "denied")
    /\ UNCHANGED <<row, hash, issued, expired, blacklist, storage, view, isRefreshing,
                   ghosts, faults>>

\* register looks for the address and hashes the password before it inserts.
Register(c) ==
    /\ call[c].pc = "server" /\ call[c].kind = "register"
    /\ Go(c, IF row THEN "failed" ELSE "create")
    /\ UNCHANGED <<row, hash, issued, expired, blacklist, storage, view, isRefreshing,
                   ghosts, faults>>

MutantCreate(c) ==
    /\ call[c].pc = "create"
    /\ Go(c, "issue") /\ row' = TRUE /\ accounts' = accounts + 1
    /\ UNCHANGED <<hash, issued, expired, blacklist, storage, view, isRefreshing, uses,
                   overlapped, out, faults>>

\* The unique index on the address turns the loser of a race into an error.
Create(c) ==
    /\ call[c].pc = "create"
    /\ IF row
       THEN Go(c, "failed") /\ UNCHANGED <<row, accounts>>
       ELSE Go(c, "issue") /\ row' = TRUE /\ accounts' = accounts + 1
    /\ UNCHANGED <<hash, issued, expired, blacklist, storage, view, isRefreshing, uses,
                   overlapped, out, faults>>

\* issuePair: the new pair's refresh token replaces whatever the row holds.
IssuePair == issued' = issued + 1 /\ hash' = issued + 1

Issue(c) ==
    /\ call[c].pc = "issue"
    /\ IssuePair /\ GoWith(c, "ok", issued + 1)
    /\ UNCHANGED <<row, expired, blacklist, storage, view, isRefreshing, ghosts, faults>>

MutantRefresh(c) ==
    /\ call[c].pc = "refresh"
    /\ Go(c, IF hash # 0 THEN "reissue" ELSE "wipe")
    /\ overlapped' = overlapped \cup {call[d].tok : d \in {d \in Calls \ {c} :
                         call[d].pc = "reissue" /\ call[d].tok = call[c].tok}}
    /\ UNCHANGED <<row, hash, issued, expired, blacklist, storage, view, isRefreshing,
                   uses, out, accounts, faults>>

\* refresh reads the row: the presented token is the current one or was used already.
Refresh(c) ==
    /\ call[c].pc = "refresh"
    /\ Go(c, IF hash = call[c].tok THEN "reissue" ELSE "wipe")
    /\ overlapped' = overlapped \cup {call[d].tok : d \in {d \in Calls \ {c} :
                         call[d].pc = "reissue" /\ call[d].tok = call[c].tok}}
    /\ UNCHANGED <<row, hash, issued, expired, blacklist, storage, view, isRefreshing,
                   uses, out, accounts, faults>>

\* Only afterwards it writes: the new hash, or none.
Reissue(c) ==
    /\ call[c].pc = "reissue"
    /\ IssuePair /\ GoWith(c, "renewed", issued + 1)
    /\ uses' = [uses EXCEPT ![call[c].tok] = @ + 1]
    /\ UNCHANGED <<row, expired, blacklist, storage, view, isRefreshing, overlapped, out,
                   accounts, faults>>

Wipe(c) ==
    /\ call[c].pc = "wipe"
    /\ hash' = 0
    /\ Go(c, "refused")
    /\ UNCHANGED <<row, issued, expired, blacklist, storage, view, isRefreshing, ghosts, faults>>

\* A login on another device; it shares nothing with this one but the row.
LoginElsewhere ==
    /\ Faulty
    /\ row
    /\ IssuePair
    /\ UNCHANGED <<row, expired, blacklist, storage, view, isRefreshing, call, ghosts>>

\* An access token's life ends, and with it the entry in Redis.
Expire(n) ==
    /\ n \in 1..issued \ expired /\ Cardinality(expired) < MaxExpiries
    /\ expired' = expired \cup {n}
    /\ blacklist' = blacklist \ {n}
    /\ UNCHANGED <<row, hash, issued, storage, view, isRefreshing, call, ghosts, faults>>

-----------------------------------------------------------------------------
(* api/client.ts: the interceptors *)

\* Answers to a call nobody waits for any more are dropped.
Ends(c) == [call[c] EXCEPT !.pc = "done"]
Answered == {"ok", "denied", "failed", "queued", "renewed", "refused"}
Ignore(c) ==
    /\ call[c].tab = NoTab /\ call[c].pc \in Answered
    /\ Go(c, "done")
    /\ UNCHANGED <<row, hash, issued, expired, blacklist, storage, view, isRefreshing,
                   ghosts, faults>>

\* location.href = '/login': the page of tab t is loaded anew with nothing stored.
ToLogin(t) ==
    /\ storage' = 0
    /\ view' = [view EXCEPT ![t] = "login"]
    /\ isRefreshing' = [isRefreshing EXCEPT ![t] = FALSE]
    /\ call' = [c \in Calls |->
                  IF call[c].tab # t THEN call[c]
                  ELSE IF call[c].pc \in Answered THEN Ends(c) ELSE [call[c] EXCEPT !.tab = NoTab]]

Waiting(c) == call[c].tab # NoTab

MutantUnauthorized(c) ==
    LET t == call[c].tab
    IN  /\ Waiting(c) /\ call[c].pc = "denied"
        /\ IF call[c].retry THEN Go(c, "failed") /\ UNCHANGED <<storage, view, isRefreshing>>
           ELSE IF storage = 0 THEN ToLogin(t)
           ELSE /\ call' = [call EXCEPT ![c].pc = "refresh", ![c].tok = storage, ![c].retry = TRUE]
                /\ isRefreshing' = [isRefreshing EXCEPT ![t] = TRUE]
                /\ UNCHANGED <<storage, view>>
        /\ UNCHANGED <<row, hash, issued, expired, blacklist, ghosts, faults>>

\* A 401: of a retried request it is final; while the tab refreshes the request waits;
\* otherwise it refreshes the stored pair.
Unauthorized(c) ==
    LET t == call[c].tab
    IN  /\ Waiting(c) /\ call[c].pc = "denied"
        /\ IF call[c].retry THEN Go(c, "failed") /\ UNCHANGED <<storage, view, isRefreshing>>
           ELSE IF isRefreshing[t] THEN Go(c, "queued") /\ UNCHANGED <<storage, view, isRefreshing>>
           ELSE IF storage = 0 THEN ToLogin(t)
           ELSE /\ call' = [call EXCEPT ![c].pc = "refresh", ![c].tok = storage, ![c].retry = TRUE]
                /\ isRefreshing' = [isRefreshing EXCEPT ![t] = TRUE]
                /\ UNCHANGED <<storage, view>>
        /\ UNCHANGED <<row, hash, issued, expired, blacklist, ghosts, faults>>

MutantRenewed(c) ==
    LET t == call[c].tab
    IN  /\ Waiting(c) /\ call[c].pc = "renewed"
        /\ storage' = call[c].tok
        /\ isRefreshing' = [isRefreshing EXCEPT ![t] = FALSE]
        /\ Go(c, "server")
        /\ UNCHANGED <<row, hash, issued, expired, blacklist, view, ghosts, faults>>

\* The new pair is stored; the queued requests and the one that refreshed are sent again
\* with it.
Renewed(c) ==
    LET t == call[c].tab
    IN  /\ Waiting(c) /\ call[c].pc = "renewed"
        /\ storage' = call[c].tok
        /\ isRefreshing' = [isRefreshing EXCEPT ![t] = FALSE]
        /\ call' = [d \in Calls |->
                      IF d = c \/ (call[d].tab = t /\ call[d].pc = "queued")
                      THEN [call[d] EXCEPT !.pc = "server", !.tok = call[c].tok] ELSE call[d]]
        /\ UNCHANGED <<row, hash, issued, expired, blacklist, view, ghosts, faults>>

\* The refresh failed, whatever the reason: everything queued is rejected.
Refused(c) ==
    /\ Waiting(c) /\ call[c].pc = "refused"
    /\ ToLogin(call[c].tab)
    /\ UNCHANGED <<row, hash, issued, expired, blacklist, ghosts, faults>>

\* A request or an answer is lost; what the server did stays.
Lost(c) ==
    /\ Faulty
    /\ Waiting(c)
    /\ \/ call[c].pc \in {"server", "ok", "denied"} /\ Go(c, "failed")
       \/ call[c].pc \in {"refresh", "renewed"} /\ Go(c, "refused")
    /\ UNCHANGED <<row, hash, issued, expired, blacklist, storage, view, isRefreshing, ghosts>>

-----------------------------------------------------------------------------
(* AuthContext, the routes, Login, Register and Layout *)

\* The two forms, each a link away from the other, and what Layout puts around the pages:
\* links to every page, each of which calls the services, and the logout button.
Forms == {"login", "register"}
Inside == {"page", "logout"}

\* The calls a view makes, AuthProvider's own while it verifies.
Offers(v) ==
    CASE v = "verifying" -> {"iam"}
      [] v = "login" -> Forms
      [] v = "app" -> Inside

\* A mounted page checks once; a form is disabled while isLoading.
Busy(t) == \E c \in Calls : call[c].tab = t /\ call[c].kind \in {"iam", "login", "register"}
                            /\ call[c].pc # "done"

\* A request takes the stored access token with it.
Start(c, t, kind) ==
    /\ call[c] = Unused /\ \A b \in 1..c - 1 : call[b] # Unused
    /\ c = 1 => t = 1
    /\ kind \in Offers(view[t]) /\ (kind \in Inside \/ ~Busy(t))
    /\ call' = [call EXCEPT ![c] = [pc |-> "server", kind |-> kind, tab |-> t,
                                    tok |-> storage, retry |-> FALSE]]
    /\ UNCHANGED <<row, hash, issued, expired, blacklist, storage, view, isRefreshing,
                   ghosts, faults>>

\* Reloading the page in a tab mounts AuthProvider again.
Reload(t) ==
    /\ Faulty
    /\ view' = [view EXCEPT ![t] = Mounted(storage)]
    /\ isRefreshing' = [isRefreshing EXCEPT ![t] = FALSE]
    /\ call' = [c \in Calls |->
                  IF call[c].tab # t THEN call[c]
                  ELSE IF call[c].pc \in Answered THEN Ends(c) ELSE [call[c] EXCEPT !.tab = NoTab]]
    /\ UNCHANGED <<row, hash, issued, expired, blacklist, storage, ghosts>>

\* A verified user is let in.
Verified(c) ==
    /\ Waiting(c) /\ call[c].pc = "ok" /\ call[c].kind = "iam"
    /\ Go(c, "done")
    /\ view' = [view EXCEPT ![call[c].tab] = "app"]
    /\ UNCHANGED <<row, hash, issued, expired, blacklist, storage, isRefreshing, ghosts, faults>>

\* login and register store the pair and verify it with a call of their own.
LoggedIn(c) ==
    /\ Waiting(c) /\ call[c].pc = "ok" /\ call[c].kind \in {"login", "register"}
    /\ storage' = call[c].tok
    /\ call' = [call EXCEPT ![c].pc = "server", ![c].kind = "iam", ![c].retry = FALSE]
    /\ UNCHANGED <<row, hash, issued, expired, blacklist, view, isRefreshing, ghosts, faults>>

\* Whatever the answer, logout forgets the pair; so does a mounted page that cannot verify it.
Forget(c) ==
    /\ Waiting(c)
    /\ \/ call[c].pc \in {"ok", "failed"} /\ call[c].kind = "logout"
       \/ call[c].pc = "failed" /\ call[c].kind = "iam" /\ view[call[c].tab] = "verifying"
    /\ storage' = 0
    /\ view' = [view EXCEPT ![call[c].tab] = "login"]
    /\ Go(c, "done")
    /\ UNCHANGED <<row, hash, issued, expired, blacklist, isRefreshing, ghosts, faults>>

\* Any other failure is shown on the page.
ShowError(c) ==
    /\ Waiting(c) /\ call[c].pc = "failed"
    /\ call[c].kind \in {"page", "login", "register"}
       \/ (call[c].kind = "iam" /\ view[call[c].tab] # "verifying")
    /\ Go(c, "done")
    /\ UNCHANGED <<row, hash, issued, expired, blacklist, storage, view, isRefreshing,
                   ghosts, faults>>

-----------------------------------------------------------------------------

Serve(c) ==
    \/ Guard(c) \/ Clear(c) \/ Revoke(c) \/ Login(c) \/ Register(c) \/ Create(c) \/ Issue(c)
    \/ Refresh(c) \/ Reissue(c) \/ Wipe(c)

Receive(c) ==
    \/ Ignore(c) \/ Unauthorized(c) \/ Renewed(c) \/ Refused(c)
    \/ Verified(c) \/ LoggedIn(c) \/ Forget(c) \/ ShowError(c)

\* Calls that are changing the session, refreshes or not.
Refreshing(c) == call[c].pc \in {"refresh", "reissue", "wipe", "renewed", "refused"}
Changing(c) ==
    \/ Refreshing(c)
    \/ call[c].kind \in {"login", "register", "logout"} /\ call[c].pc \notin {"unused", "done"}

\* Two such calls at once, other than refreshes of one tab.
Racing ==
    \E c, d \in Calls :
        /\ c # d /\ Changing(c) /\ Changing(d)
        /\ ~(Refreshing(c) /\ Refreshing(d) /\ call[c].tab = call[d].tab)

Step ==
    \/ \E c \in Calls : Serve(c) \/ Receive(c) \/ Lost(c)
    \/ \E c \in Calls, t \in Tabs : \E kind \in Offers(view[t]) : Start(c, t, kind)
    \/ \E t \in Tabs : Reload(t)
    \/ \E n \in Pairs : Expire(n)
    \/ LoginElsewhere

Next == Step /\ raced' = (raced \/ Racing')

\* Servers answer what they received and browsers run what is due; users, the clock and
\* failures owe nothing.
Spec ==
    /\ Init /\ [][Next]_vars
    /\ \A c \in Calls : WF_state(Serve(c) \/ Receive(c))

-----------------------------------------------------------------------------

\* Shape of the state.
TypeOK ==
    /\ row \in BOOLEAN /\ hash \in 0..issued /\ storage \in 0..issued /\ issued \in Pairs \cup {0}
    /\ expired \subseteq 1..issued /\ blacklist \subseteq 1..issued \ expired
    /\ \A t \in Tabs : view[t] \in {"verifying", "login", "app"} /\ isRefreshing[t] \in BOOLEAN
    /\ \A c \in Calls : call[c].tok \in 0..issued /\ call[c].tab \in Tabs \cup {NoTab}

\* A refresh token buys one pair (auth.service.ts: "Refresh tokens are single-use"), except
\* when it is presented again between the read that accepts it and the write that replaces
\* it: once replaced or cleared it is never accepted again.
SingleUse == \A n \in Pairs : uses[n] <= 1 \/ n \in overlapped

\* No request passes with an access token whose logout was carried out: the blacklist
\* entry lives as long as the token.
LoggedOutStaysOut ==
    [][\A c \in Calls : call[c].pc = "server" /\ call'[c].pc \in {"ok", "clear", "done"} =>
          call[c].tok \notin out]_vars

\* One address has one account, however many registrations run at once.
OneAccount == accounts <= 1

Quiet == \A c \in Calls : call[c].pc \in {"unused", "done"}

\* Many requests of a tab may meet an expired token at once: they never leave the browser
\* with a refresh token other than the one the server holds.  Calls of several tabs, or a
\* logout during a refresh, can; so can another device and a lost answer.
StorageAgrees == Quiet /\ ~raced /\ faults = 0 => storage \in {0, hash}

\* Every call ends: no request stays in a tab's queue for ever.
CallsSettle == <>[]Quiet

-----------------------------------------------------------------------------
(* What makes the safety properties inductive; proved in SessionsProofs.     *)

Labels ==
    {"unused", "server", "clear", "revoke", "create", "issue", "refresh", "reissue", "wipe",
     "done"} \cup Answered
Kinds == {"none", "iam"} \cup Forms \cup Inside

\* Shape of the state, but for the bound on the numbers of pairs.
ShapeInv ==
    /\ row \in BOOLEAN
    /\ issued \in Nat /\ hash \in 0..issued /\ storage \in 0..issued
    /\ expired \subseteq 1..issued /\ blacklist \subseteq 1..issued \ expired
    /\ view \in [Tabs -> {"verifying", "login", "app"}]
    /\ isRefreshing \in [Tabs -> BOOLEAN]
    /\ call \in [Calls -> [pc : Labels, kind : Kinds, tab : Tabs \cup {NoTab}, tok : 0..issued,
                           retry : BOOLEAN]]
    /\ \A c \in Calls :
          /\ call[c].pc \in {"clear", "revoke"} => call[c].kind = "logout" /\ call[c].tok # 0
          /\ call[c].pc \in {"create", "issue"} => call[c].kind \in Forms
    /\ uses \in [Pairs -> Nat] /\ faults \in 0..MaxFaults

\* A refresh token that bought a pair is the server's no more, and who was let in with it
\* before has overlapped.
UseInv ==
    /\ \A n \in Pairs : uses[n] > 0 => n <= issued /\ hash # n
    /\ \A c, d \in Calls :
          c # d /\ call[c].pc = "reissue" /\ call[d].pc = "reissue" /\ call[c].tok = call[d].tok
            => call[c].tok \in overlapped
    /\ \A c \in Calls :
          call[c].pc = "reissue" /\ call[c].tok \in Pairs =>
            uses[call[c].tok] = 0 \/ call[c].tok \in overlapped

AccountInv == accounts \in {0, 1} /\ (accounts = 1 => row)

\* A logout holds as long as the token it was about.
LogoutInv == out \subseteq blacklist \cup expired

\* With nothing lost, a refresh is one its tab waits for and knows of, the only one there.
TabInv ==
    faults = 0 =>
        \A c \in Calls : Refreshing(c) =>
            /\ Waiting(c) /\ isRefreshing[call[c].tab]
            /\ \A d \in Calls : Refreshing(d) /\ call[d].tab = call[c].tab => d = c

\* With no race and nothing lost: what a call is about to store is what the server holds,
\* a call whose page is gone leaves nothing stored, and storage is otherwise right or about
\* to be put right.
Fixes(c) ==
    /\ Waiting(c)
    /\ \/ call[c].kind \in Forms /\ call[c].pc = "ok"
       \/ call[c].kind = "logout" /\ call[c].pc \in {"revoke", "ok"}
       \/ call[c].pc \in {"renewed", "refused"}

AgreeInv ==
    ~raced /\ faults = 0 =>
        /\ ~Racing
        /\ \A c \in Calls :
              /\ call[c].pc = "renewed" => call[c].tok = hash
              /\ call[c].kind \in Forms /\ call[c].pc = "ok" => call[c].tok = hash
              /\ Changing(c) /\ ~Waiting(c) => storage = 0
        /\ storage \in {0, hash} \/ \E c \in Calls : Fixes(c)

\* What a call can still ask for: a form is served once, and its pair is refreshed once before
\* and once after, so that the pairs never run out.
Retried(c) == call[c].retry /\ call[c].pc \notin {"refresh", "reissue", "wipe"}
FormServed ==
    {c \in Calls : \/ call[c].kind = "iam"
                   \/ call[c].kind \in Forms /\ call[c].pc \in {"ok", "failed", "done"}}
FirstRetried == {c \in Calls : call[c].kind = "iam" \/ Retried(c)}
AgainRetried == {c \in Calls : call[c].kind = "iam" /\ Retried(c)}

CountInv ==
    /\ \A c \in Calls : Refreshing(c) => call[c].retry
    /\ issued <= 1 + Cardinality(FormServed) + Cardinality(FirstRetried)
                  + Cardinality(AgainRetried) + faults

SessionInv ==
    ShapeInv /\ CountInv /\ UseInv /\ SingleUse /\ AccountInv /\ LogoutInv /\ TabInv /\ AgreeInv
=============================================================================
