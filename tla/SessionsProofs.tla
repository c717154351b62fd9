---------------------------- MODULE SessionsProofs ----------------------------
(***************************************************************************)
(* Proofs about Sessions, for any number of tabs, calls, expiries and      *)
(* faults: SessionInv is inductive, and the safety properties follow.      *)
(***************************************************************************)
EXTENDS Sessions, FiniteSetTheorems, TLAPS

LEMMA SmallSets ==
  ASSUME NEW S \in SUBSET Calls
  PROVE  /\ IsFiniteSet(S) /\ Cardinality(S) \in 0..MaxCalls
         /\ \A T \in SUBSET S : Cardinality(T) <= Cardinality(S)
         /\ \A T \in SUBSET S : T # S => Cardinality(T) + 1 <= Cardinality(S)
  <1>1. IsFiniteSet(Calls) /\ Cardinality(Calls) = MaxCalls
    BY SessionsAssumption, FS_Interval DEF Calls
  <1>2. IsFiniteSet(S) /\ Cardinality(S) <= MaxCalls
    BY <1>1, FS_Subset
  <1>3. Cardinality(S) \in Nat
    BY <1>2, FS_CardinalityType
  <1>4. ASSUME NEW T \in SUBSET S
        PROVE  Cardinality(T) <= Cardinality(S) /\ (T # S => Cardinality(T) + 1 <= Cardinality(S))
    <2>1. IsFiniteSet(T) /\ Cardinality(T) <= Cardinality(S)
          /\ (Cardinality(S) = Cardinality(T) => S = T)
      BY <1>2, FS_Subset
    <2>2. Cardinality(T) \in Nat
      BY <2>1, FS_CardinalityType
    <2>3. QED
      BY <1>3, <2>1, <2>2
  <1>5. QED
    BY <1>2, <1>3, <1>4, SessionsAssumption

LEMMA InitInv == Init => SessionInv
  <1> SUFFICES ASSUME Init PROVE SessionInv
    OBVIOUS
  <1> USE SessionsAssumption DEF Init, Unused, Tabs, NoTab, Mounted
  <1>1. issued \in {0, 1} /\ row \in BOOLEAN
    OBVIOUS
  <1>2. view \in [Tabs -> {"verifying", "login", "app"}] /\ isRefreshing \in [Tabs -> BOOLEAN]
    OBVIOUS
  <1>3. \A c \in Calls : call[c] = Unused
    OBVIOUS
  <1>4. call \in [Calls -> [pc : Labels, kind : Kinds, tab : Tabs \cup {NoTab}, tok : 0..issued,
                            retry : BOOLEAN]]
    BY <1>1 DEF Labels, Kinds
  <1>5. ShapeInv
    BY <1>1, <1>2, <1>3, <1>4 DEF ShapeInv
  <1>6. UseInv /\ SingleUse /\ AccountInv /\ LogoutInv
    BY DEF UseInv, SingleUse, AccountInv, LogoutInv
  <1>7. \A c \in Calls : ~Refreshing(c) /\ ~Changing(c)
    BY <1>3 DEF Refreshing, Changing
  <1>8. TabInv /\ AgreeInv
    BY <1>3, <1>7 DEF TabInv, AgreeInv, Racing, Forms
  <1>9. CountInv
    <2>1. /\ Cardinality(FormServed) \in Nat /\ Cardinality(FirstRetried) \in Nat
          /\ Cardinality(AgainRetried) \in Nat
      BY SmallSets DEF FormServed, FirstRetried, AgainRetried
    <2>2. issued <= 1 + Cardinality(FormServed) + Cardinality(FirstRetried)
                     + Cardinality(AgainRetried) + faults
      BY <1>1, <2>1
    <2>3. QED
      BY <1>7, <2>2 DEF CountInv
  <1>10. QED
    BY <1>5, <1>6, <1>8, <1>9 DEF SessionInv

-----------------------------------------------------------------------------
(* Shape *)

LEMMA ServeShape == ShapeInv /\ (\E c \in Calls : Serve(c)) => ShapeInv'
  <1> SUFFICES ASSUME ShapeInv, NEW c \in Calls, Serve(c) PROVE ShapeInv'
    OBVIOUS
  <1> USE DEF ShapeInv, Go, GoWith, ghosts, Labels
  <1>1. CASE Guard(c)
    <2> DEFINE next == IF ~Passes(call[c].tok) THEN "denied"
                       ELSE CASE call[c].kind = "logout" -> "clear"
                         [] call[c].kind = "iam" -> "ok"
                         [] OTHER -> "done"
    <2>1. next \in {"denied", "clear", "ok", "done"} /\ (next = "clear" => call[c].tok # 0)
      BY DEF Passes
    <2>2. Go(c, next)
      BY <1>1 DEF Guard
    <2> HIDE DEF next
    <2>3. QED
      BY <1>1, <2>1, <2>2 DEF Guard, Answered
  <1>2. CASE Clear(c)
    BY <1>2 DEF Clear, Answered
  <1>3. CASE Revoke(c)
    BY <1>3 DEF Revoke, Answered
  <1>4. CASE Wipe(c)
    BY <1>4 DEF Wipe, Answered
  <1>5. CASE Login(c)
    BY <1>5 DEF Login, Answered, Forms
  <1>6. CASE Register(c)
    BY <1>6 DEF Register, Answered, Forms
  <1>7. CASE Create(c)
    <2>1. row' \in BOOLEAN
      BY <1>7 DEF Create
    <2>2. QED
      BY <1>7, <2>1 DEF Create, Answered, Forms
  <1>8. CASE Issue(c) \/ Reissue(c)
    BY <1>8 DEF Issue, Reissue, IssuePair, Answered
  <1>9. CASE Refresh(c)
    BY <1>9 DEF Refresh
  <1>10. QED
    BY <1>1, <1>2, <1>3, <1>4, <1>5, <1>6, <1>7, <1>8, <1>9 DEF Serve

LEMMA ToLoginShape ==
  ASSUME ShapeInv, NEW t \in Tabs, ToLogin(t),
         UNCHANGED <<row, hash, issued, expired, blacklist, ghosts, faults>>
  PROVE  ShapeInv'
  BY DEF ShapeInv, ToLogin, Ends, ghosts, Labels, Answered

LEMMA ReceiveShape == ShapeInv /\ (\E c \in Calls : Receive(c) \/ Lost(c)) => ShapeInv'
  <1> SUFFICES ASSUME ShapeInv, NEW c \in Calls, Receive(c) \/ Lost(c) PROVE ShapeInv'
    OBVIOUS
  <1> USE DEF ShapeInv, Go, Waiting, ghosts, Labels, Answered
  <1>1. CASE Ignore(c) \/ Verified(c) \/ Forget(c) \/ ShowError(c)
    BY <1>1 DEF Ignore, Verified, Forget, ShowError
  <1>2. CASE LoggedIn(c)
    BY <1>2 DEF LoggedIn, Kinds, Forms
  <1>3. CASE Unauthorized(c)
    <2> DEFINE t == call[c].tab
    <2> USE <1>3 DEF Unauthorized
    <2>1. t \in Tabs
      BY DEF NoTab
    <2>2. CASE Go(c, "failed") /\ UNCHANGED <<storage, view, isRefreshing>>
      BY <2>2
    <2>3. CASE Go(c, "queued") /\ UNCHANGED <<storage, view, isRefreshing>>
      BY <2>3
    <2>4. CASE ToLogin(t)
      BY <2>1, <2>4, ToLoginShape
    <2>5. CASE /\ call' = [call EXCEPT ![c].pc = "refresh", ![c].tok = storage,
                                       ![c].retry = TRUE]
               /\ isRefreshing' = [isRefreshing EXCEPT ![t] = TRUE]
               /\ UNCHANGED <<storage, view>>
      <3>1. isRefreshing' \in [Tabs -> BOOLEAN]
        BY <2>5
      <3>2. [call[c] EXCEPT !.pc = "refresh", !.tok = storage, !.retry = TRUE]
              \in [pc : Labels, kind : Kinds, tab : Tabs \cup {NoTab}, tok : 0..issued,
                   retry : BOOLEAN]
        BY ZenonT(60)
      <3>3. call' = [call EXCEPT ![c] = [call[c] EXCEPT !.pc = "refresh", !.tok = storage,
                                                        !.retry = TRUE]]
        BY <2>5
      <3>4. QED
        BY <2>5, <3>1, <3>2, <3>3
    <2>6. QED
      BY <2>1, <2>2, <2>3, <2>4, <2>5
  <1>4. CASE Renewed(c)
    <2>1. isRefreshing' \in [Tabs -> BOOLEAN]
      BY <1>4 DEF Renewed
    <2>2. call' \in [Calls -> [pc : Labels, kind : Kinds, tab : Tabs \cup {NoTab}, tok : 0..issued,
                               retry : BOOLEAN]]
      BY <1>4, ZenonT(60) DEF Renewed
    <2>3. storage' \in 0..issued' /\ \A d \in Calls : call'[d].pc \in {call[d].pc, "server"}
                                       /\ call'[d].kind = call[d].kind
                                       /\ (call'[d].pc # "server" => call'[d].tok = call[d].tok)
      BY <1>4 DEF Renewed
    <2>4. UNCHANGED <<row, issued, hash, expired, blacklist, view, uses, faults>>
      BY <1>4 DEF Renewed
    <2>5. QED
      BY <2>1, <2>2, <2>3, <2>4
  <1>5. CASE Refused(c)
    BY <1>5, ToLoginShape DEF Refused, NoTab
  <1>6. CASE Lost(c)
    BY <1>6, SessionsAssumption DEF Lost, Faulty
  <1>7. QED
    BY <1>1, <1>2, <1>3, <1>4, <1>5, <1>6 DEF Receive

LEMMA OtherShape ==
  ASSUME ShapeInv,
         \/ \E c \in Calls, t \in Tabs : \E kind \in Offers(view[t]) : Start(c, t, kind)
         \/ \E t \in Tabs : Reload(t)
         \/ \E n \in Pairs : Expire(n)
         \/ LoginElsewhere
  PROVE  ShapeInv'
  <1> USE SessionsAssumption DEF ShapeInv, ghosts, Labels, Answered
  <1>1. CASE \E c \in Calls, t \in Tabs : \E kind \in Offers(view[t]) : Start(c, t, kind)
    BY <1>1 DEF Start, Offers, Kinds, Inside, Forms
  <1>2. CASE \E t \in Tabs : Reload(t)
    BY <1>2 DEF Reload, Mounted, Ends, Faulty
  <1>3. CASE \E n \in Pairs : Expire(n)
    BY <1>3 DEF Expire
  <1>4. CASE LoginElsewhere
    BY <1>4 DEF LoginElsewhere, IssuePair, Faulty
  <1>5. QED
    BY <1>1, <1>2, <1>3, <1>4

LEMMA ShapeStep == ShapeInv /\ [Next]_vars => ShapeInv'
  <1>1. ShapeInv /\ UNCHANGED vars => ShapeInv'
    BY DEF ShapeInv, vars, state, ghosts
  <1>2. QED
    BY <1>1, ServeShape, ReceiveShape, OtherShape DEF Next, Step
-----------------------------------------------------------------------------
(* Refresh tokens: all but the read that accepts one and the write that        *)
(* replaces it leave what they have bought alone.                              *)

LEMMA UseKept ==
  ASSUME ShapeInv, UseInv, SingleUse,
         hash' \in {hash, 0, issued + 1}, issued' \in {issued, issued + 1},
         UNCHANGED <<uses, overlapped>>,
         \A c \in Calls : call'[c].pc = "reissue" =>
             call[c].pc = "reissue" /\ call'[c].tok = call[c].tok
  PROVE  UseInv' /\ SingleUse'
  <1>1. SingleUse'
    BY DEF SingleUse
  <1>2. \A n \in Pairs : uses[n] > 0 => n <= issued' /\ hash' # n
    BY SessionsAssumption DEF ShapeInv, UseInv, Pairs
  <1>3. UseInv'
    BY <1>2 DEF UseInv
  <1>4. QED
    BY <1>1, <1>3

LEMMA RefreshUse ==
  ASSUME ShapeInv, UseInv, SingleUse, NEW c \in Calls, Refresh(c)
  PROVE  UseInv' /\ SingleUse'
  <1> USE DEF Refresh, Go
  <1>1. SingleUse'
    BY DEF SingleUse
  <1>2. UseInv'
    BY DEF ShapeInv, UseInv
  <1>3. QED
    BY <1>1, <1>2

LEMMA ReissueUse ==
  ASSUME ShapeInv, UseInv, SingleUse, NEW c \in Calls, Reissue(c)
  PROVE  UseInv' /\ SingleUse'
  <1> USE DEF Reissue, GoWith, IssuePair, ShapeInv, UseInv
  <1>1. \A n \in Pairs : uses'[n] = IF n = call[c].tok THEN uses[n] + 1 ELSE uses[n]
    OBVIOUS
  <1>2. SingleUse'
    BY <1>1 DEF SingleUse
  <1>3. UseInv'
    BY <1>1 DEF Pairs
  <1>4. QED
    BY <1>2, <1>3

LEMMA UseStep == ShapeInv /\ UseInv /\ SingleUse /\ [Next]_vars => UseInv' /\ SingleUse'
  <1> SUFFICES ASSUME ShapeInv, UseInv, SingleUse, [Next]_vars PROVE UseInv' /\ SingleUse'
    OBVIOUS
  <1>1. CASE \E c \in Calls : Refresh(c) \/ Reissue(c)
    BY <1>1, RefreshUse, ReissueUse
  <1>2. CASE ~\E c \in Calls : Refresh(c) \/ Reissue(c)
    <2> USE DEF ShapeInv, Go, GoWith, ghosts
    <2> DEFINE kept == /\ hash' \in {hash, 0, issued + 1} /\ issued' \in {issued, issued + 1}
                       /\ UNCHANGED <<uses, overlapped>>
                       /\ \A d \in Calls : call'[d].pc = "reissue" =>
                             call[d].pc = "reissue" /\ call'[d].tok = call[d].tok
    <2>1. ASSUME NEW c \in Calls, Serve(c) PROVE kept
      <3>1. CASE Guard(c) \/ Clear(c) \/ Revoke(c)
        BY <3>1 DEF Guard, Clear, Revoke
      <3>2. CASE Login(c) \/ Register(c) \/ Create(c)
        BY <3>2 DEF Login, Register, Create
      <3>3. CASE Issue(c) \/ Wipe(c)
        BY <3>3 DEF Issue, IssuePair, Wipe
      <3>4. QED
        BY <1>2, <2>1, <3>1, <3>2, <3>3 DEF Serve
    <2>2. ASSUME NEW c \in Calls, Receive(c) PROVE kept
      <3>1. CASE Ignore(c) \/ Verified(c) \/ LoggedIn(c) \/ Forget(c) \/ ShowError(c)
        BY <3>1 DEF Ignore, Verified, LoggedIn, Forget, ShowError
      <3>2. CASE Unauthorized(c)
        BY <3>2 DEF Unauthorized, ToLogin, Ends
      <3>3. CASE Renewed(c)
        BY <3>3, ZenonT(60) DEF Renewed
      <3>4. CASE Refused(c)
        BY <3>4 DEF Refused, ToLogin, Ends
      <3>5. QED
        BY <2>2, <3>1, <3>2, <3>3, <3>4 DEF Receive
    <2>3. ASSUME NEW c \in Calls, Lost(c) PROVE kept
      BY <2>3 DEF Lost
    <2>4. ASSUME NEW t \in Tabs, Reload(t) PROVE kept
      BY <2>4 DEF Reload, Ends
    <2>5. ASSUME \/ \E c \in Calls, t \in Tabs : \E kind \in Offers(view[t]) : Start(c, t, kind)
                 \/ \E n \in Pairs : Expire(n)
                 \/ LoginElsewhere
                 \/ UNCHANGED vars
          PROVE  kept
      BY <2>5 DEF Start, Expire, LoginElsewhere, IssuePair, vars, state
    <2>6. kept
      BY <2>1, <2>2, <2>3, <2>4, <2>5 DEF Next, Step
    <2>7. QED
      BY <2>6, UseKept
  <1>3. QED
    BY <1>1, <1>2
-----------------------------------------------------------------------------
(* Accounts, and tokens that are logged out *)

LEMMA AccountStep == ShapeInv /\ AccountInv /\ [Next]_vars => AccountInv'
  <1> SUFFICES ASSUME AccountInv, [Next]_vars PROVE AccountInv'
    OBVIOUS
  <1>1. CASE \E c \in Calls : Create(c)
    BY <1>1 DEF Create, AccountInv
  <1>2. CASE ~\E c \in Calls : Create(c)
    <2>1. UNCHANGED <<row, accounts>>
      BY <1>2, ZenonT(60)
      DEF Next, vars, state, ghosts, Step, Serve, Receive, Guard, Clear, Revoke, Login,
                  Register, Issue, Refresh, Reissue, Wipe, Ignore, Unauthorized, Renewed,
                  Refused, Verified, LoggedIn, Forget, ShowError, Lost, Start, Reload, Expire,
                  LoginElsewhere
    <2>2. QED
      BY <2>1 DEF AccountInv
  <1>3. QED
    BY <1>1, <1>2

LEMMA LogoutStep == ShapeInv /\ LogoutInv /\ [Next]_vars => LogoutInv'
  <1> SUFFICES ASSUME ShapeInv, LogoutInv, [Next]_vars PROVE LogoutInv'
    OBVIOUS
  <1>1. CASE \E c \in Calls : Revoke(c)
    BY <1>1 DEF Revoke, LogoutInv
  <1>2. CASE \E n \in Pairs : Expire(n)
    BY <1>2 DEF Expire, ghosts, LogoutInv
  <1>3. CASE ~(\E c \in Calls : Revoke(c)) /\ ~(\E n \in Pairs : Expire(n))
    <2>1. UNCHANGED <<expired, blacklist, out>>
      BY <1>3, ZenonT(60)
      DEF Next, vars, state, ghosts, Step, Serve, Receive, Guard, Clear, Login, Create,
                  Register, Issue, Refresh, Reissue, Wipe, Ignore, Unauthorized, Renewed,
                  Refused, Verified, LoggedIn, Forget, ShowError, Lost, Start, Reload,
                  LoginElsewhere
    <2>2. QED
      BY <2>1 DEF LogoutInv
  <1>4. QED
    BY <1>1, <1>2, <1>3

\* Only the guard lets a request pass, and it looks at the blacklist and the clock.
LEMMA OnlyGuardPasses ==
  ASSUME ShapeInv, [Next]_vars, NEW c \in Calls, call[c].pc = "server",
         call'[c].pc \in {"ok", "clear", "done"}
  PROVE  Passes(call[c].tok)
  <1> USE DEF ShapeInv, Go, GoWith
  <1>1. ASSUME NEW d \in Calls, Serve(d) PROVE Passes(call[c].tok)
    <2>1. CASE Guard(d)
      BY <2>1 DEF Guard
    <2>2. CASE Login(d) \/ Register(d)
      BY <2>2 DEF Login, Register
    <2>3. CASE Clear(d) \/ Revoke(d) \/ Create(d) \/ Issue(d) \/ Refresh(d) \/ Reissue(d)
               \/ Wipe(d)
      BY <2>3 DEF Clear, Revoke, Create, Issue, Refresh, Reissue, Wipe
    <2>4. QED
      BY <1>1, <2>1, <2>2, <2>3 DEF Serve
  <1>2. ASSUME NEW d \in Calls, Receive(d) PROVE FALSE
    <2>1. CASE Ignore(d)
      BY <2>1 DEF Ignore, Answered
    <2>2. CASE Verified(d) \/ LoggedIn(d) \/ Forget(d) \/ ShowError(d)
      BY <2>2 DEF Verified, LoggedIn, Forget, ShowError
    <2>3. CASE Unauthorized(d)
      <3>1. \/ Go(d, "failed") \/ Go(d, "queued")
            \/ call' = [call EXCEPT ![d].pc = "refresh", ![d].tok = storage, ![d].retry = TRUE]
            \/ ToLogin(call[d].tab)
        BY <2>3 DEF Unauthorized
      <3>2. QED
        BY <2>3, <3>1 DEF Unauthorized, ToLogin, Answered
    <2>4. CASE Renewed(d)
      BY <2>4 DEF Renewed
    <2>5. CASE Refused(d)
      BY <2>5 DEF Refused, ToLogin, Answered
    <2>6. QED
      BY <1>2, <2>1, <2>2, <2>3, <2>4, <2>5 DEF Receive
  <1>3. ASSUME NEW d \in Calls, Lost(d) PROVE FALSE
    BY <1>3 DEF Lost
  <1>4. ASSUME NEW t \in Tabs, Reload(t) PROVE FALSE
    BY <1>4 DEF Reload, Answered
  <1>5. ASSUME \/ \E d \in Calls, t \in Tabs : \E kind \in Offers(view[t]) : Start(d, t, kind)
               \/ \E n \in Pairs : Expire(n)
               \/ LoginElsewhere
               \/ UNCHANGED vars
        PROVE  FALSE
    BY <1>5 DEF Start, Unused, Expire, LoginElsewhere, vars, state
  <1>6. QED
    BY <1>1, <1>2, <1>3, <1>4, <1>5 DEF Next, Step
-----------------------------------------------------------------------------
(* One refresh per tab                                                         *)

LEMMA TabKept ==
  ASSUME TabInv, faults' = 0 => faults = 0, UNCHANGED isRefreshing,
         \A c \in Calls : Refreshing(c)' => Refreshing(c) /\ call'[c].tab = call[c].tab
  PROVE  TabInv'
  BY DEF TabInv, Waiting

LEMMA ToLoginTab ==
  ASSUME ShapeInv, TabInv, NEW t \in Tabs, ToLogin(t), UNCHANGED faults,
         faults = 0 => \A c \in Calls : Refreshing(c) /\ call[c].tab = t => call[c].pc \in Answered
  PROVE  TabInv'
  <1> USE DEF ShapeInv, ToLogin, Waiting, Refreshing, Ends
  <1>1. faults = 0 => \A c \in Calls : Refreshing(c)' =>
            Refreshing(c) /\ call[c].tab # t /\ call'[c].tab = call[c].tab
    OBVIOUS
  <1>2. \A u \in Tabs \ {t} : isRefreshing'[u] = isRefreshing[u]
    OBVIOUS
  <1>3. QED
    BY <1>1, <1>2 DEF TabInv

LEMMA UnauthorizedTab ==
  ASSUME ShapeInv, TabInv, NEW c \in Calls, Unauthorized(c)
  PROVE  TabInv'
  <1> DEFINE t == call[c].tab
  <1> USE DEF Unauthorized, Go, Waiting
  <1>1. t \in Tabs
    BY DEF ShapeInv, NoTab
  <1>2. CASE Go(c, "failed") /\ UNCHANGED <<storage, view, isRefreshing>>
    BY <1>2, TabKept DEF ShapeInv, Refreshing
  <1>3. CASE Go(c, "queued") /\ UNCHANGED <<storage, view, isRefreshing>>
    BY <1>3, TabKept DEF ShapeInv, Refreshing
  <1>4. CASE ~isRefreshing[t] /\ ToLogin(t)
    BY <1>1, <1>4, ToLoginTab DEF TabInv
  <1>5. CASE /\ ~isRefreshing[t]
             /\ call' = [call EXCEPT ![c].pc = "refresh", ![c].tok = storage, ![c].retry = TRUE]
             /\ isRefreshing' = [isRefreshing EXCEPT ![t] = TRUE]
    <2>1. faults = 0 => \A d \in Calls : call[d].tab = t => ~Refreshing(d)
      BY <1>1, <1>5 DEF TabInv, NoTab
    <2>2. \A d \in Calls : call'[d].tab = call[d].tab /\ (d # c => call'[d].pc = call[d].pc)
      BY <1>5 DEF ShapeInv
    <2>3. isRefreshing'[t] /\ \A u \in Tabs \ {t} : isRefreshing'[u] = isRefreshing[u]
      BY <1>1, <1>5 DEF ShapeInv
    <2>4. QED
      BY <2>1, <2>2, <2>3 DEF TabInv, Refreshing, ShapeInv
  <1>6. QED
    BY <1>1, <1>2, <1>3, <1>4, <1>5

LEMMA RenewedTab ==
  ASSUME ShapeInv, TabInv, NEW c \in Calls, Renewed(c)
  PROVE  TabInv'
  <1> DEFINE t == call[c].tab
  <1> USE DEF Renewed, Waiting, Refreshing
  <1>1. faults = 0 => \A d \in Calls : Refreshing(d) /\ call[d].tab = t => d = c
    BY DEF TabInv
  <1>2. \A d \in Calls : call'[d].tab = call[d].tab /\ (Refreshing(d)' => Refreshing(d) /\ d # c)
    BY ZenonT(60) DEF ShapeInv
  <1>3. \A u \in Tabs \ {t} : isRefreshing'[u] = isRefreshing[u]
    BY DEF ShapeInv
  <1>4. faults = 0 => \A d \in Calls : Refreshing(d)' =>
            Refreshing(d) /\ call[d].tab \in Tabs \ {t} /\ Waiting(d)
    BY <1>1, <1>2, ZenonT(60) DEF TabInv, ShapeInv
  <1>5. QED
    <2> HIDE DEF Renewed, Refreshing, t
    <2>1. UNCHANGED faults
      BY DEF Renewed
    <2>2. QED
      BY <1>2, <1>3, <1>4, <2>1 DEF TabInv

LEMMA TabStep == ShapeInv /\ TabInv /\ [Next]_vars => TabInv'
  <1> SUFFICES ASSUME ShapeInv, TabInv, [Next]_vars PROVE TabInv'
    OBVIOUS
  <1> DEFINE kept == /\ faults' = 0 => faults = 0
                     /\ UNCHANGED isRefreshing
                     /\ \A c \in Calls : Refreshing(c)' =>
                           Refreshing(c) /\ call'[c].tab = call[c].tab
  <1> USE DEF ShapeInv, Go, GoWith, Refreshing
  <1>1. ASSUME NEW c \in Calls, Serve(c) PROVE kept
    <2>1. CASE Guard(c)
      BY <2>1 DEF Guard
    <2>2. CASE Clear(c) \/ Revoke(c)
      BY <2>2 DEF Clear, Revoke
    <2>3. CASE Login(c) \/ Register(c) \/ Create(c)
      BY <2>3 DEF Login, Register, Create
    <2>4. CASE Issue(c) \/ Refresh(c)
      BY <2>4 DEF Issue, Refresh
    <2>5. CASE Reissue(c) \/ Wipe(c)
      BY <2>5 DEF Reissue, Wipe
    <2>6. QED
      BY <1>1, <2>1, <2>2, <2>3, <2>4, <2>5 DEF Serve
  <1>2. ASSUME NEW c \in Calls,
               Ignore(c) \/ Verified(c) \/ LoggedIn(c) \/ Forget(c) \/ ShowError(c)
        PROVE  kept
    BY <1>2 DEF Ignore, Verified, LoggedIn, Forget, ShowError
  <1>3. ASSUME NEW c \in Calls, Refused(c) PROVE TabInv'
    <2>1. faults = 0 => \A d \in Calls : Refreshing(d) /\ call[d].tab = call[c].tab => d = c
      BY <1>3 DEF Refused, TabInv
    <2>2. QED
      BY <1>3, <2>1, ToLoginTab DEF Refused, Waiting, NoTab, Answered
  <1>4. ASSUME \/ \E c \in Calls, t \in Tabs : \E kind \in Offers(view[t]) : Start(c, t, kind)
               \/ \E n \in Pairs : Expire(n)
               \/ UNCHANGED vars
        PROVE  kept
    BY <1>4 DEF Start, Expire, vars, state, Unused
  <1>5. ASSUME \/ \E c \in Calls : Lost(c)
               \/ \E t \in Tabs : Reload(t)
               \/ LoginElsewhere
        PROVE  faults' # 0
    BY <1>5 DEF Lost, Reload, LoginElsewhere, Faulty
  <1>6. QED
    <2>1. kept => TabInv'
      BY TabKept
    <2>2. faults' # 0 => TabInv'
      BY DEF TabInv
    <2>3. QED
      BY <1>1, <1>2, <1>3, <1>4, <1>5, <2>1, <2>2, UnauthorizedTab, RenewedTab
         DEF Next, Step, Receive
-----------------------------------------------------------------------------
(* Agreement of browser and server: with no race and nothing lost, one call at *)
(* a time changes the session.                                                 *)

Calm == ~raced /\ faults = 0

LEMMA OneChange ==
  ASSUME TabInv, AgreeInv, Calm, NEW c \in Calls, NEW d \in Calls, Changing(c), Changing(d)
  PROVE  c = d
  BY DEF TabInv, AgreeInv, Calm, Racing

\* A step that was not calm cannot become calm, and a calm one starts no race.
LEMMA CalmBefore == ShapeInv /\ [Next]_vars /\ Calm' => Calm /\ (UNCHANGED vars \/ ~Racing')
  <1> SUFFICES ASSUME ShapeInv, [Next]_vars, Calm' PROVE Calm /\ (UNCHANGED vars \/ ~Racing')
    OBVIOUS
  <1>1. faults \in Nat /\ faults' = 0
    BY SessionsAssumption DEF ShapeInv, Calm
  <1>2. faults' \in {faults, faults + 1}
    BY ZenonT(60)
    DEF Next, vars, state, Step, Serve, Receive, Guard, Clear, Revoke, Login, Register, Create,
           Issue, Refresh, Reissue, Wipe, Ignore, Unauthorized, Renewed, Refused, Verified,
           LoggedIn, Forget, ShowError, Lost, Start, Reload, Expire, LoginElsewhere, Faulty
  <1>3. faults = 0
    BY <1>1, <1>2
  <1>4. ~raced /\ (UNCHANGED vars \/ ~Racing')
    <2>1. ~raced'
      BY DEF Calm
    <2>2. CASE raced' = (raced \/ Racing')
      BY <2>1, <2>2
    <2>3. CASE UNCHANGED vars
      BY <2>1, <2>3 DEF vars
    <2>4. QED
      BY <2>2, <2>3 DEF Next
  <1>5. QED
    BY <1>3, <1>4 DEF Calm

\* What AgreeInv says of a calm state, race apart.
Agree ==
    /\ \A c \in Calls :
          /\ call[c].pc = "renewed" => call[c].tok = hash
          /\ call[c].kind \in Forms /\ call[c].pc = "ok" => call[c].tok = hash
          /\ Changing(c) /\ ~Waiting(c) => storage = 0
    /\ storage \in {0, hash} \/ \E c \in Calls : Fixes(c)

LEMMA AgreeKept ==
  ASSUME Agree, UNCHANGED <<hash, storage>>,
         \A c \in Calls :
            /\ Fixes(c) => Fixes(c)'
            /\ call'[c].pc = "renewed" => call[c].pc = "renewed" /\ call'[c].tok = call[c].tok
            /\ call'[c].kind \in Forms /\ call'[c].pc = "ok" =>
                 call[c].kind \in Forms /\ call[c].pc = "ok" /\ call'[c].tok = call[c].tok
            /\ Changing(c)' /\ ~Waiting(c)' => Changing(c) /\ ~Waiting(c)
  PROVE  Agree'
  BY DEF Agree

\* A page that is sent to the login form leaves nothing stored.
LEMMA ToLoginAgree ==
  ASSUME ShapeInv, Agree, NEW t \in Tabs, ToLogin(t), UNCHANGED hash
  PROVE  Agree'
  <1>1. storage' = 0
    BY DEF ToLogin
  <1>2. \A c \in Calls : call'[c].pc # "done" =>
            call'[c].pc = call[c].pc /\ call'[c].kind = call[c].kind /\ call'[c].tok = call[c].tok
    BY DEF ToLogin, ShapeInv, Ends
  <1>3. QED
    BY <1>1, <1>2 DEF Agree

\* A call that changes the hash is the only one that is changing the session.
LEMMA NewHashAgrees ==
  ASSUME ShapeInv, TabInv, AgreeInv, Calm, Agree, NEW c \in Calls, Changing(c),
         Clear(c) \/ Issue(c) \/ Reissue(c) \/ Wipe(c)
  PROVE  Agree'
  <1>1. \A d \in Calls : Changing(d) => d = c
    BY OneChange
  <1>2. \A d \in Calls \ {c} : /\ ~Changing(d) /\ ~Changing(d)' /\ call'[d] = call[d]
                               /\ call[d].pc # "renewed"
                               /\ ~(call[d].kind \in Forms /\ call[d].pc = "ok")
    BY <1>1 DEF Clear, Issue, Reissue, Wipe, Go, GoWith, ShapeInv, Changing, Refreshing, Forms
  <1>3. Waiting(c) \/ storage = 0
    BY DEF Agree
  <1>4. UNCHANGED storage /\ Waiting(c)' = Waiting(c) /\ call'[c].kind = call[c].kind
    BY DEF Clear, Issue, Reissue, Wipe, Go, GoWith, ShapeInv, Waiting
  <1>5. /\ call'[c].pc = "renewed" => call'[c].tok = hash'
        /\ call'[c].kind \in Forms /\ call'[c].pc = "ok" => call'[c].tok = hash'
        /\ Waiting(c) => Fixes(c)'
    <2>1. CASE Clear(c)
      BY <2>1 DEF Clear, Go, ShapeInv, Fixes, Waiting, Forms
    <2>2. CASE Issue(c)
      BY <2>2 DEF Issue, IssuePair, GoWith, ShapeInv, Fixes, Waiting
    <2>3. CASE Reissue(c)
      BY <2>3 DEF Reissue, IssuePair, GoWith, ShapeInv, Fixes, Waiting
    <2>4. CASE Wipe(c)
      BY <2>4 DEF Wipe, Go, ShapeInv, Fixes, Waiting
    <2>5. QED
      BY <2>1, <2>2, <2>3, <2>4
  <1>6. QED
    BY <1>2, <1>3, <1>4, <1>5 DEF Agree

LEMMA ServeAgree ==
  ASSUME ShapeInv, TabInv, AgreeInv, Calm, Agree, NEW c \in Calls, Serve(c)
  PROVE  Agree'
  <1> USE DEF ShapeInv, Go, GoWith, Fixes, Waiting, Changing, Refreshing, Forms
  <1>1. CASE Clear(c) \/ Issue(c) \/ Reissue(c) \/ Wipe(c)
    <2>1. Changing(c)
      BY <1>1 DEF Clear, Issue, Reissue, Wipe
    <2>2. QED
      BY <1>1, <2>1, NewHashAgrees
  <1>2. CASE Guard(c)
    BY <1>2, AgreeKept DEF Guard
  <1>3. CASE Revoke(c)
    BY <1>3, AgreeKept DEF Revoke
  <1>4. CASE Login(c)
    BY <1>4, AgreeKept DEF Login
  <1>5. CASE Register(c)
    BY <1>5, AgreeKept DEF Register
  <1>6. CASE Create(c)
    BY <1>6, AgreeKept DEF Create
  <1>7. CASE Refresh(c)
    BY <1>7, AgreeKept DEF Refresh
  <1>8. QED
    BY <1>1, <1>2, <1>3, <1>4, <1>5, <1>6, <1>7 DEF Serve

\* The pair a page stores is the one the server holds.
LEMMA StoreAgrees ==
  ASSUME ShapeInv, TabInv, AgreeInv, Calm, Agree, NEW c \in Calls,
         Renewed(c) \/ LoggedIn(c)
  PROVE  Agree'
  <1>1. Changing(c) /\ call[c].tok = hash
    BY DEF Renewed, LoggedIn, Agree, Changing, Refreshing, Forms
  <1>2. \A d \in Calls : Changing(d) => d = c
    BY <1>1, OneChange
  <1>3. storage' = hash /\ UNCHANGED hash
    BY <1>1 DEF Renewed, LoggedIn
  <1>4. /\ Waiting(c) /\ call'[c].pc = "server" /\ Waiting(c)' = Waiting(c)
        /\ \A d \in Calls \ {c} : /\ call'[d].kind = call[d].kind
                                  /\ \/ call'[d].pc = call[d].pc
                                     \/ call[d].pc = "queued" /\ call'[d].pc = "server"
    <2> USE DEF ShapeInv, Waiting
    <2>1. CASE Renewed(c)
      BY <2>1 DEF Renewed
    <2>2. CASE LoggedIn(c)
      BY <2>2 DEF LoggedIn
    <2>3. QED
      BY <2>1, <2>2
  <1>5. \A d \in Calls \ {c} :
            ~Changing(d)' /\ call'[d].pc # "renewed" /\ ~(call'[d].kind \in Forms /\ call'[d].pc = "ok")
    BY <1>2, <1>4 DEF Changing, Refreshing, Forms
  <1>6. QED
    BY <1>3, <1>4, <1>5 DEF Agree

LEMMA ReceiveAgree ==
  ASSUME ShapeInv, TabInv, AgreeInv, Calm, Agree, NEW c \in Calls, Receive(c)
  PROVE  Agree'
  <1>1. CASE Renewed(c) \/ LoggedIn(c)
    BY <1>1, StoreAgrees
  <1>2. CASE Refused(c)
    BY <1>2, ToLoginAgree DEF Refused, ShapeInv, Waiting, NoTab
  <1>3. CASE Forget(c)
    <2>1. storage' = 0 /\ \A d \in Calls : call'[d].pc # "done" => call'[d] = call[d]
      BY <1>3 DEF Forget, Go, ShapeInv
    <2>2. QED
      BY <2>1, <1>3 DEF Agree, Forget, Changing, Refreshing
  <1>4. CASE Unauthorized(c)
    <2> DEFINE t == call[c].tab
    <2> USE DEF ShapeInv, Go, Fixes, Waiting, Changing, Refreshing, Forms
    <2>1. t \in Tabs /\ UNCHANGED hash /\ call[c].pc = "denied"
      BY <1>4 DEF Unauthorized, NoTab
    <2>2. \/ Go(c, "failed") /\ UNCHANGED storage
          \/ Go(c, "queued") /\ UNCHANGED storage
          \/ ToLogin(t)
          \/ /\ call' = [call EXCEPT ![c].pc = "refresh", ![c].tok = storage, ![c].retry = TRUE]
             /\ UNCHANGED storage
      BY <1>4 DEF Unauthorized
    <2>3. CASE (Go(c, "failed") \/ Go(c, "queued")) /\ UNCHANGED storage
      BY <2>1, <2>3, AgreeKept
    <2>4. CASE ToLogin(t)
      BY <2>1, <2>4, ToLoginAgree
    <2>5. CASE /\ call' = [call EXCEPT ![c].pc = "refresh", ![c].tok = storage, ![c].retry = TRUE]
               /\ UNCHANGED storage
      BY <1>4, <2>1, <2>5, AgreeKept DEF Unauthorized
    <2>6. QED
      BY <2>2, <2>3, <2>4, <2>5
  <1>5. CASE Ignore(c) \/ Verified(c) \/ ShowError(c)
    <2> USE DEF ShapeInv, Go, Fixes, Waiting, Changing, Refreshing, Forms, Inside
    <2>1. CASE Ignore(c)
      BY <2>1, AgreeKept DEF Ignore
    <2>2. CASE Verified(c)
      BY <2>2, AgreeKept DEF Verified
    <2>3. CASE ShowError(c)
      BY <2>3, AgreeKept DEF ShowError
    <2>4. QED
      BY <1>5, <2>1, <2>2, <2>3
  <1>6. QED
    BY <1>1, <1>2, <1>3, <1>4, <1>5 DEF Receive

LEMMA AgreeStep == ShapeInv /\ TabInv /\ AgreeInv /\ [Next]_vars => AgreeInv'
  <1> SUFFICES ASSUME ShapeInv, TabInv, AgreeInv, [Next]_vars, Calm' PROVE AgreeInv'
    BY DEF AgreeInv, Calm
  <1>1. Calm /\ (UNCHANGED vars \/ ~Racing')
    BY CalmBefore
  <1>2. Agree /\ ~Racing
    BY <1>1 DEF AgreeInv, Calm, Agree
  <1>3. CASE UNCHANGED vars
    BY <1>3 DEF AgreeInv, Racing, Changing, Refreshing, Waiting, Fixes, vars, state
  <1>4. CASE Next /\ ~Racing'
    <2>1. ASSUME NEW c \in Calls, Serve(c) PROVE Agree'
      BY <1>1, <1>2, <2>1, ServeAgree
    <2>2. ASSUME NEW c \in Calls, Receive(c) PROVE Agree'
      BY <1>1, <1>2, <2>2, ReceiveAgree
    <2>3. ASSUME NEW c \in Calls, NEW t \in Tabs, NEW kind \in Offers(view[t]), Start(c, t, kind)
          PROVE  Agree'
      BY <1>2, <2>3, AgreeKept
         DEF Start, Unused, ShapeInv, Tabs, NoTab, Fixes, Waiting, Changing, Refreshing, Forms
    <2>4. ASSUME NEW n \in Pairs, Expire(n) PROVE Agree'
      BY <1>2, <2>4, AgreeKept DEF Expire, Fixes, Waiting, Changing, Refreshing
    <2>5. ~\E c \in Calls : Lost(c)
      BY <1>1 DEF Calm, Lost, Faulty
    <2>6. ~LoginElsewhere /\ ~\E t \in Tabs : Reload(t)
      BY <1>1 DEF Calm, Reload, LoginElsewhere, Faulty
    <2>7. Agree'
      BY <1>4, <2>1, <2>2, <2>3, <2>4, <2>5, <2>6 DEF Next, Step
    <2>8. QED
      BY <1>4, <2>7 DEF AgreeInv, Agree
  <1>5. QED
    BY <1>1, <1>3, <1>4

-----------------------------------------------------------------------------
(* How many pairs are issued                                                   *)

\* What a call has asked for it does not ask for again.
Grow ==
    /\ FormServed \subseteq FormServed'
    /\ FirstRetried \subseteq FirstRetried'
    /\ AgainRetried \subseteq AgainRetried'
    /\ \A c \in Calls : Refreshing(c)' => call'[c].retry

LEMMA ServeGrows ==
  ASSUME ShapeInv, CountInv, NEW c \in Calls, Serve(c)
  PROVE  Grow
  <1> USE DEF ShapeInv, CountInv, Go, GoWith, Grow, Refreshing, FormServed, FirstRetried,
              AgainRetried, Retried, Forms
  <1>1. CASE Guard(c)
    BY <1>1 DEF Guard
  <1>2. CASE Clear(c) \/ Revoke(c)
    BY <1>2 DEF Clear, Revoke
  <1>3. CASE Login(c) \/ Register(c) \/ Create(c)
    BY <1>3 DEF Login, Register, Create
  <1>4. CASE Issue(c) \/ Refresh(c)
    BY <1>4 DEF Issue, Refresh
  <1>5. CASE Reissue(c) \/ Wipe(c)
    BY <1>5 DEF Reissue, Wipe
  <1>6. QED
    BY <1>1, <1>2, <1>3, <1>4, <1>5 DEF Serve

LEMMA ReceiveGrows ==
  ASSUME ShapeInv, CountInv, NEW c \in Calls, Receive(c) \/ Lost(c)
  PROVE  Grow
  <1> USE DEF ShapeInv, CountInv, Go, Waiting, Grow, Refreshing, FormServed, FirstRetried,
              AgainRetried, Retried, Forms
  <1>1. CASE Ignore(c) \/ Verified(c) \/ Forget(c) \/ ShowError(c)
    BY <1>1 DEF Ignore, Verified, Forget, ShowError
  <1>2. CASE LoggedIn(c)
    BY <1>2 DEF LoggedIn
  <1>3. CASE Unauthorized(c)
    BY <1>3 DEF Unauthorized, ToLogin, Ends
  <1>4. CASE Renewed(c)
    <2>1. \A d \in Calls : /\ call'[d].kind = call[d].kind
                           /\ \/ call'[d].pc = call[d].pc
                              \/ call[d].pc \in {"renewed", "queued"} /\ call'[d].pc = "server"
      BY <1>4 DEF Renewed
    <2>2. \A d \in Calls : call'[d].retry = call[d].retry
      BY <1>4 DEF Renewed
    <2> HIDE DEF ShapeInv
    <2>3. QED
      BY <2>1, <2>2
  <1>5. CASE Refused(c)
    BY <1>5 DEF Refused, ToLogin, Ends
  <1>6. CASE Lost(c)
    BY <1>6 DEF Lost
  <1>7. QED
    BY <1>1, <1>2, <1>3, <1>4, <1>5, <1>6 DEF Receive

LEMMA NextGrows == ShapeInv /\ CountInv /\ [Next]_vars => Grow
  <1> SUFFICES ASSUME ShapeInv, CountInv, [Next]_vars PROVE Grow
    OBVIOUS
  <1> USE DEF ShapeInv, CountInv, Grow, Refreshing, FormServed, FirstRetried, AgainRetried,
              Retried, Forms
  <1>1. ASSUME NEW t \in Tabs, Reload(t) PROVE Grow
    BY <1>1 DEF Reload, Ends
  <1>2. ASSUME NEW c \in Calls, NEW t \in Tabs, NEW kind \in Offers(view[t]), Start(c, t, kind)
        PROVE  Grow
    BY <1>2 DEF Start, Unused
  <1>3. ASSUME (\E n \in Pairs : Expire(n)) \/ LoginElsewhere \/ UNCHANGED vars PROVE Grow
    BY <1>3 DEF Expire, LoginElsewhere, vars, state
  <1>4. QED
    BY <1>1, <1>2, <1>3, ServeGrows, ReceiveGrows DEF Next, Step

LEMMA CountStep == ShapeInv /\ CountInv /\ [Next]_vars => CountInv'
  <1> SUFFICES ASSUME ShapeInv, CountInv, [Next]_vars PROVE CountInv'
    OBVIOUS
  <1> DEFINE A == FormServed
             B == FirstRetried
             C == AgainRetried
  <1>1. A \subseteq A' /\ B \subseteq B' /\ C \subseteq C'
    BY NextGrows DEF Grow
  <1>2. \A c \in Calls : Refreshing(c)' => call'[c].retry
    BY NextGrows DEF Grow
  <1>3. /\ A' \subseteq Calls /\ B' \subseteq Calls /\ C' \subseteq Calls
        /\ A \subseteq Calls /\ B \subseteq Calls /\ C \subseteq Calls
    BY DEF FormServed, FirstRetried, AgainRetried
  <1>4. /\ Cardinality(A) \in Nat /\ Cardinality(B) \in Nat /\ Cardinality(C) \in Nat
        /\ Cardinality(A') \in Nat /\ Cardinality(B') \in Nat /\ Cardinality(C') \in Nat
    BY <1>3, SmallSets, SessionsAssumption
  <1>5. /\ Cardinality(A) <= Cardinality(A') /\ Cardinality(B) <= Cardinality(B')
        /\ Cardinality(C) <= Cardinality(C')
    BY <1>1, <1>3, SmallSets
  <1>6. \/ issued' = issued /\ faults' \in {faults, faults + 1}
        \/ issued' = issued + 1 /\ faults' = faults + 1
        \/ /\ issued' = issued + 1 /\ faults' = faults
           /\ \/ Cardinality(A) + 1 <= Cardinality(A')
              \/ Cardinality(B) + 1 <= Cardinality(B')
              \/ Cardinality(C) + 1 <= Cardinality(C')
    <2>1. CASE \E c \in Calls : Issue(c)
      <3>1. PICK c \in Calls : Issue(c)
        BY <2>1
      <3>2. c \notin A /\ c \in A'
        BY <3>1 DEF Issue, GoWith, ShapeInv, FormServed, Forms
      <3>3. Cardinality(A) + 1 <= Cardinality(A')
        BY <1>1, <1>3, <3>2, SmallSets
      <3>4. QED
        BY <3>1, <3>3 DEF Issue, IssuePair
    <2>2. CASE \E c \in Calls : Reissue(c)
      <3>1. PICK c \in Calls : Reissue(c)
        BY <2>2
      <3>2. call[c].retry
        BY <3>1 DEF Reissue, CountInv, Refreshing
      <3>3. call'[c].retry /\ call'[c].pc = "renewed" /\ call'[c].kind = call[c].kind
        BY <3>1, <3>2 DEF Reissue, GoWith, ShapeInv
      <3>4. (c \notin B /\ c \in B') \/ (c \notin C /\ c \in C')
        BY <3>1, <3>3 DEF Reissue, FirstRetried, AgainRetried, Retried
      <3>5. Cardinality(B) + 1 <= Cardinality(B') \/ Cardinality(C) + 1 <= Cardinality(C')
        BY <1>1, <1>3, <3>4, SmallSets, SMTT(60)
      <3>6. QED
        BY <3>1, <3>5 DEF Reissue, IssuePair
    <2>3. CASE ~\E c \in Calls : Issue(c) \/ Reissue(c)
      BY <2>3, ZenonT(60)
         DEF Next, vars, state, Step, Serve, Receive, Guard, Clear, Revoke, Login, Register, Create,
             Refresh, Wipe, Ignore, Unauthorized, Renewed, Refused, Verified, LoggedIn, Forget,
             ShowError, Lost, Start, Reload, Expire, LoginElsewhere, IssuePair, Faulty
    <2>4. QED
      BY <2>1, <2>2, <2>3
  <1>7. issued \in Nat /\ faults \in Nat
    BY SessionsAssumption DEF ShapeInv
  <1>8. issued' <= 1 + Cardinality(A') + Cardinality(B') + Cardinality(C') + faults'
    <2>1. issued <= 1 + Cardinality(A) + Cardinality(B) + Cardinality(C) + faults
      BY DEF CountInv
    <2> HIDE DEF A, B, C
    <2>2. QED
      BY <1>4, <1>5, <1>6, <1>7, <2>1
  <1>9. QED
    BY <1>2, <1>8 DEF CountInv

-----------------------------------------------------------------------------
(* Theorems *)

LEMMA SessionAlways == Spec => []SessionInv
  <1>1. SessionInv /\ [Next]_vars => SessionInv'
    BY ShapeStep, CountStep, UseStep, AccountStep, LogoutStep, TabStep, AgreeStep DEF SessionInv
  <1>2. QED
    BY InitInv, <1>1, PTL DEF Spec

\* Every value keeps its shape, and what users, pages and other devices can ask for uses up no
\* more numbers of pairs than the model has.
THEOREM SessionTypeCorrect == Spec => []TypeOK
  <1>1. SessionInv => TypeOK
    <2> SUFFICES ASSUME SessionInv PROVE TypeOK
      OBVIOUS
    <2> USE DEF SessionInv
    <2>1. /\ Cardinality(FormServed) \in 0..MaxCalls /\ Cardinality(FirstRetried) \in 0..MaxCalls
          /\ Cardinality(AgainRetried) \in 0..MaxCalls
      BY SmallSets DEF FormServed, FirstRetried, AgainRetried
    <2>2. issued \in Nat /\ faults \in 0..MaxFaults
      BY DEF ShapeInv
    <2>3. issued <= 1 + Cardinality(FormServed) + Cardinality(FirstRetried)
                     + Cardinality(AgainRetried) + faults
      BY DEF CountInv
    <2>4. issued \in Pairs \cup {0}
      BY <2>1, <2>2, <2>3, SessionsAssumption DEF Pairs
    <2>5. \A t \in Tabs : isRefreshing[t] \in BOOLEAN
      BY DEF ShapeInv
    <2>6. QED
      BY <2>4, <2>5 DEF ShapeInv, TypeOK
  <1>2. QED
    BY SessionAlways, <1>1, PTL

\* AuthService.refresh: a refresh token buys one pair, however often and from wherever it is
\* presented, unless it was presented again between the read and the write of its rotation.
THEOREM RefreshTokensAreSingleUse == Spec => []SingleUse
  BY SessionAlways, PTL DEF SessionInv

\* AuthService.logout and JwtAuthGuard: a request that the guard lets through does not carry a
\* token that was logged out.
THEOREM LogoutIsFinal == Spec => LoggedOutStaysOut
  <1>1. SessionInv /\ [Next]_vars =>
          [\A c \in Calls : call[c].pc = "server" /\ call'[c].pc \in {"ok", "clear", "done"} =>
              call[c].tok \notin out]_vars
    BY OnlyGuardPasses DEF SessionInv, LogoutInv, Passes
  <1>2. QED
    BY SessionAlways, <1>1, PTL DEF Spec, LoggedOutStaysOut

\* AuthService.register: one address has one account, however many registrations race.
THEOREM OneAccountPerAddress == Spec => []OneAccount
  <1>1. SessionInv => OneAccount
    BY DEF SessionInv, AccountInv, OneAccount
  <1>2. QED
    BY SessionAlways, <1>1, PTL

\* api/client.ts: without a race, a fault or another device, the browser's refresh token is the
\* server's whenever no call is under way, whatever number of requests met the expired token.
THEOREM BrowserAgrees == Spec => []StorageAgrees
  <1>1. SessionInv => StorageAgrees
    BY DEF SessionInv, AgreeInv, StorageAgrees, Quiet, Fixes, Forms
  <1>2. QED
    BY SessionAlways, <1>1, PTL
=============================================================================
