--------------------------- MODULE WalletPagesProofs ---------------------------
(***************************************************************************)
(* Proofs about WalletPages, for any page size, history and number of      *)
(* calls: PagesInv is inductive, and the safety properties follow.         *)
(***************************************************************************)
EXTENDS WalletPages, NatInduction, SequenceTheorems, TLAPS

-----------------------------------------------------------------------------
(* Sequences *)

\* What is kept of a sequence is in it and in the set.
LEMMA AmongSeq ==
  ASSUME NEW S, NEW s \in Seq(S), NEW K
  PROVE  Among(s, K) \in Seq(S \cap K)
  <1> DEFINE T == Seq(S \cap K)
             Next1(n, t) == IF s[n] \in K THEN Append(t, s[n]) ELSE t
             Kept(f, n) == \A i \in 0..n : f[i] = IF i = 0 THEN <<>> ELSE Next1(i, f[i - 1])
             N == Len(s)
             G == {n \in Nat : n <= N => \E f \in [0..n -> T] : Kept(f, n)}
  <1>1. N \in Nat /\ \A n \in 1..N : s[n] \in S
    OBVIOUS
  <1>2. \A n \in 1..N : \A t \in T : Next1(n, t) \in T
    BY <1>1
  <1>3. <<>> \in T
    OBVIOUS
  <1> HIDE DEF T, Next1
  <1>4. 0 \in G
    <2>1. [i \in 0..0 |-> <<>>] \in [0..0 -> T] /\ Kept([i \in 0..0 |-> <<>>], 0)
      BY <1>3
    <2>2. QED
      BY <2>1
  <1>5. ASSUME NEW n \in Nat, n \in G PROVE n + 1 \in G
    <2> SUFFICES ASSUME n + 1 <= N PROVE \E f \in [0..n + 1 -> T] : Kept(f, n + 1)
      OBVIOUS
    <2>1. n <= N
      BY <1>1
    <2>2. PICK f \in [0..n -> T] : Kept(f, n)
      BY <1>5, <2>1, Zenon
    <2> DEFINE g == [i \in 0..n + 1 |-> IF i <= n THEN f[i] ELSE Next1(i, f[n])]
    <2>3. g \in [0..n + 1 -> T]
      BY <1>1, <1>2
    <2>4. Kept(g, n + 1)
      BY <2>2
    <2> HIDE DEF g, Kept
    <2>5. QED
      BY <2>3, <2>4
  <1>6. N \in G
    <2> HIDE DEF G
    <2>1. QED
      BY <1>1, <1>4, <1>5, NatInduct
  <1>7. PICK f \in [0..N -> T] : Kept(f, N)
    <2> HIDE DEF Kept
    <2>1. QED
      BY <1>1, <1>6
  <1> DEFINE Step(g) == [i \in 0..N |-> IF i = 0 THEN <<>> ELSE Next1(i, g[i - 1])]
             h == CHOOSE g : g = Step(g)
  <1>8. f = Step(f)
    BY <1>7
  <1>9. h = Step(h)
    <2> HIDE DEF Step
    <2>1. QED
      BY <1>8, Zenon
  <1>10. Among(s, K) = h[N]
    BY DEF Among, Next1
  <1> HIDE DEF h
  <1>11. \A i \in 0..N : h[i] = IF i = 0 THEN <<>> ELSE Next1(i, h[i - 1])
    BY <1>9, Zenon
  <1> DEFINE H == {n \in Nat : n \in 0..N => h[n] \in T}
  <1>12. 0 \in H
    BY <1>1, <1>3, <1>11
  <1>13. ASSUME NEW n \in Nat, n \in H PROVE n + 1 \in H
    <2> SUFFICES ASSUME n + 1 \in 0..N PROVE h[n + 1] \in T
      OBVIOUS
    <2>1. n \in 0..N /\ n + 1 \in 1..N /\ n + 1 # 0 /\ (n + 1) - 1 = n
      BY <1>1
    <2>2. h[n + 1] = Next1(n + 1, h[n])
      BY <1>11, <2>1
    <2>3. QED
      BY <1>2, <1>13, <2>1, <2>2
  <1>14. N \in H
    <2> HIDE DEF H
    <2>1. QED
      BY <1>1, <1>12, <1>13, NatInduct
  <1>15. QED
    BY <1>1, <1>10, <1>14 DEF T

\* The elements after the one removed move up by one place.
LEMMA RemoveAtSeq ==
  ASSUME NEW S, NEW s \in Seq(S), NEW c \in 1..Len(s)
  PROVE  /\ RemoveAt(s, c) \in Seq(S) /\ Len(RemoveAt(s, c)) = Len(s) - 1
         /\ \A d \in 1..Len(s) - 1 : RemoveAt(s, c)[d] = s[IF d < c THEN d ELSE d + 1]
  <1> DEFINE a == SubSeq(s, 1, c - 1)
             b == SubSeq(s, c + 1, Len(s))
  <1>1. a \in Seq(S) /\ Len(a) = c - 1 /\ \A d \in 1..c - 1 : a[d] = s[d]
    OBVIOUS
  <1>2. b \in Seq(S) /\ Len(b) = Len(s) - c /\ \A d \in 1..Len(s) - c : b[d] = s[c + d]
    OBVIOUS
  <1> HIDE DEF a, b
  <1>3. a \o b \in Seq(S) /\ Len(a \o b) = Len(s) - 1
    BY <1>1, <1>2
  <1>4. \A d \in 1..Len(s) - 1 : (a \o b)[d] = IF d < c THEN a[d] ELSE b[d - (c - 1)]
    BY <1>1, <1>2
  <1>5. RemoveAt(s, c) = a \o b
    BY DEF RemoveAt, a, b
  <1>6. \A d \in 1..Len(s) - 1 : ~(d < c) => b[d - (c - 1)] = s[d + 1]
    <2> SUFFICES ASSUME NEW d \in 1..Len(s) - 1, ~(d < c) PROVE b[d - (c - 1)] = s[d + 1]
      OBVIOUS
    <2>1. d - (c - 1) \in 1..Len(s) - c /\ c + (d - (c - 1)) = d + 1
      OBVIOUS
    <2>2. QED
      BY <1>2, <2>1
  <1>7. \A d \in 1..Len(s) - 1 : d < c => a[d] = s[d]
    BY <1>1
  <1>8. QED
    BY <1>3, <1>4, <1>5, <1>6, <1>7

-----------------------------------------------------------------------------
(* Where the calls of the next state come from: each has one of its own in *)
(* the state before, unless it is new.                                     *)

\* Call h[d] of before has become call d; c has been answered.
Answers(h, c, pc, val) ==
    /\ h \in [DOMAIN calls' -> DOMAIN calls]
    /\ \A d, e \in DOMAIN calls' : h[d] = h[e] => d = e
    /\ \A d \in DOMAIN calls' :
          /\ calls'[d].page = calls[h[d]].page /\ calls'[d].kind = calls[h[d]].kind
          /\ calls'[d].arg = calls[h[d]].arg /\ calls'[d].live = calls[h[d]].live
          /\ h[d] # c => calls'[d].pc = calls[h[d]].pc /\ calls'[d].val = calls[h[d]].val
          /\ h[d] = c => /\ calls'[d].pc = pc /\ calls'[d].val = val
                         /\ calls[c].live \/ ~Settles(pc)
    /\ \A e \in DOMAIN calls : calls[e].live => \E d \in DOMAIN calls' : h[d] = e

LEMMA ReplyCalls ==
  ASSUME calls \in Seq(CallType), NEW c \in DOMAIN calls, NEW pc \in Stages, NEW val \in Int,
         Reply(c, pc, val)
  PROVE  calls' \in Seq(CallType) /\ \E h : Answers(h, c, pc, val)
  <1>1. c \in 1..Len(calls) /\ DOMAIN calls = 1..Len(calls) /\ Len(calls) \in Nat
    OBVIOUS
  <1>2. CASE Settles(pc) /\ ~calls[c].live
    <2> DEFINE h == [d \in 1..Len(calls) - 1 |-> IF d < c THEN d ELSE d + 1]
    <2>1. calls' = RemoveAt(calls, c)
      BY <1>2 DEF Reply
    <2>2. /\ calls' \in Seq(CallType) /\ DOMAIN calls' = 1..Len(calls) - 1
          /\ \A d \in 1..Len(calls) - 1 : calls'[d] = calls[IF d < c THEN d ELSE d + 1]
      <3>1. /\ RemoveAt(calls, c) \in Seq(CallType)
            /\ Len(RemoveAt(calls, c)) = Len(calls) - 1
            /\ \A d \in 1..Len(calls) - 1 :
                  RemoveAt(calls, c)[d] = calls[IF d < c THEN d ELSE d + 1]
        BY <1>1, RemoveAtSeq
      <3>2. QED
        BY <2>1, <3>1, SMTT(60)
    <2>3. /\ h \in [DOMAIN calls' -> DOMAIN calls]
          /\ \A d, e \in DOMAIN calls' : h[d] = h[e] => d = e
          /\ \A d \in DOMAIN calls' : h[d] # c
      BY <1>1, <2>2
    <2>4. \A d \in DOMAIN calls' : calls'[d] = calls[h[d]]
      BY <2>2
    <2>5. ASSUME NEW e \in DOMAIN calls, calls[e].live PROVE \E d \in DOMAIN calls' : h[d] = e
      <3>1. e # c
        BY <1>2, <2>5
      <3>2. e < c => e \in DOMAIN calls' /\ h[e] = e
        BY <1>1, <2>2
      <3>3. ~(e < c) => e - 1 \in DOMAIN calls' /\ h[e - 1] = e
        BY <1>1, <2>2, <3>1
      <3>4. QED
        BY <3>2, <3>3
    <2> HIDE DEF h
    <2>6. Answers(h, c, pc, val)
      BY <2>3, <2>4, <2>5 DEF Answers
    <2>7. QED
      BY <2>2, <2>6
  <1>3. CASE ~(Settles(pc) /\ ~calls[c].live)
    <2> DEFINE h == [d \in DOMAIN calls |-> d]
    <2>1. calls' = [calls EXCEPT ![c].pc = pc, ![c].val = val]
      BY <1>3 DEF Reply
    <2>2. calls' \in Seq(CallType) /\ DOMAIN calls' = DOMAIN calls
      <3>1. [calls[c] EXCEPT !.pc = pc, !.val = val] \in CallType
        <4>1. calls[c] \in CallType
          OBVIOUS
        <4> HIDE DEF CallType
        <4>2. \A r \in CallType : [r EXCEPT !.pc = pc, !.val = val] \in CallType
          BY DEF CallType
        <4>3. QED
          BY <4>1, <4>2
      <3>2. calls' = [calls EXCEPT ![c] = [calls[c] EXCEPT !.pc = pc, !.val = val]]
        BY <2>1
      <3>3. QED
        BY <3>1, <3>2
    <2>3. \A d \in DOMAIN calls' :
            calls'[d] = IF d = c THEN [calls[c] EXCEPT !.pc = pc, !.val = val] ELSE calls[d]
      BY <2>1 DEF CallType
    <2>4. calls[c] \in CallType
      OBVIOUS
    <2>5. calls'[c].pc = pc /\ calls'[c].val = val
      BY <2>2, <2>3, <2>4 DEF CallType
    <2>6. \A d \in DOMAIN calls' :
            /\ calls'[d].page = calls[d].page /\ calls'[d].kind = calls[d].kind
            /\ calls'[d].arg = calls[d].arg /\ calls'[d].live = calls[d].live
      BY <2>2, <2>3, <2>4 DEF CallType
    <2>7. Answers(h, c, pc, val)
      BY <1>3, <2>2, <2>3, <2>5, <2>6 DEF Answers
    <2>8. QED
      BY <2>2, <2>7
  <1>4. QED
    BY <1>2, <1>3

\* Call h[d] of before is call d, whatever has become of c; x is new.
Leaves(h, c, x) ==
    /\ h \in [DOMAIN calls' -> DOMAIN calls \cup {0}]
    /\ \A d, e \in DOMAIN calls' : h[d] = h[e] => d = e
    /\ \A d \in DOMAIN calls' : h[d] # c /\ calls'[d] = IF h[d] = 0 THEN x ELSE calls[h[d]]

\* A call has been dealt with.
LEMMA HandleCalls ==
  ASSUME calls \in Seq(CallType), NEW c \in DOMAIN calls, NEW x, Handle(c, <<>>)
  PROVE  /\ calls' \in Seq(CallType)
         /\ \E h : Leaves(h, c, x) /\ \A d \in DOMAIN calls' : h[d] # 0
  <1> DEFINE h == [d \in 1..Len(calls) - 1 |-> IF d < c THEN d ELSE d + 1]
  <1>1. c \in 1..Len(calls) /\ DOMAIN calls = 1..Len(calls) /\ Len(calls) \in Nat
    BY SMTT(60)
  <1>2. /\ RemoveAt(calls, c) \in Seq(CallType)
        /\ Len(RemoveAt(calls, c)) = Len(calls) - 1
        /\ \A d \in 1..Len(calls) - 1 : RemoveAt(calls, c)[d] = calls[IF d < c THEN d ELSE d + 1]
    BY <1>1, RemoveAtSeq
  <1>3. calls' = RemoveAt(calls, c)
    BY <1>2 DEF Handle
  <1>4. calls' \in Seq(CallType) /\ DOMAIN calls' = 1..Len(calls) - 1
    BY <1>2, <1>3
  <1>5. /\ h \in [DOMAIN calls' -> DOMAIN calls \cup {0}]
        /\ \A d, e \in DOMAIN calls' : h[d] = h[e] => d = e
        /\ \A d \in DOMAIN calls' : h[d] # c /\ h[d] # 0
    BY <1>1, <1>4, SMTT(60)
  <1>6. \A d \in DOMAIN calls' : calls'[d] = calls[h[d]]
    BY <1>2, <1>3, <1>4
  <1> HIDE DEF h
  <1>7. Leaves(h, c, x)
    BY <1>5, <1>6 DEF Leaves
  <1>8. QED
    BY <1>4, <1>5, <1>7

\* A call has been dealt with, and another one is made.
LEMMA HandOver ==
  ASSUME calls \in Seq(CallType), NEW c \in DOMAIN calls, NEW x \in CallType, Handle(c, <<x>>)
  PROVE  calls' \in Seq(CallType) /\ \E h : Leaves(h, c, x)
  <1> DEFINE r == RemoveAt(calls, c)
             n == Len(calls)
             h == [d \in 1..n |-> IF d < c THEN d ELSE IF d < n THEN d + 1 ELSE 0]
  <1>1. c \in 1..n /\ DOMAIN calls = 1..n /\ n \in Nat
    OBVIOUS
  <1>2. /\ r \in Seq(CallType) /\ Len(r) = n - 1
        /\ \A d \in 1..n - 1 : r[d] = calls[IF d < c THEN d ELSE d + 1]
    BY <1>1, RemoveAtSeq
  <1>3. calls' = r \o <<x>>
    BY DEF Handle
  <1> HIDE DEF r
  <1>4. /\ calls' \in Seq(CallType) /\ DOMAIN calls' = 1..n
        /\ \A d \in 1..n : calls'[d] = IF d < n THEN r[d] ELSE x
    <2>1. <<x>> \in Seq(CallType) /\ Len(<<x>>) = 1 /\ <<x>>[1] = x
      OBVIOUS
    <2>2. n \in Nat \ {0}
      BY <1>1
    <2> HIDE DEF n
    <2>3. calls' \in Seq(CallType) /\ Len(calls') = n
      BY <1>2, <1>3, <2>1, <2>2
    <2>4. \A d \in 1..n : d < n => d \in 1..Len(r)
      BY <1>2, <2>2
    <2>5. \A d \in 1..n : ~(d < n) => d - Len(r) = 1
      BY <1>2, <2>2
    <2>6. QED
      BY <1>2, <1>3, <2>1, <2>2, <2>3, <2>4, <2>5
  <1>5. /\ h \in [DOMAIN calls' -> DOMAIN calls \cup {0}]
        /\ \A d, e \in DOMAIN calls' : h[d] = h[e] => d = e
        /\ \A d \in DOMAIN calls' : h[d] # c
    BY <1>1, <1>4
  <1>6. \A d \in DOMAIN calls' : calls'[d] = IF h[d] = 0 THEN x ELSE calls[h[d]]
    BY <1>1, <1>2, <1>4
  <1> HIDE DEF h, n
  <1>7. Leaves(h, c, x)
    BY <1>5, <1>6 DEF Leaves
  <1>8. QED
    BY <1>4, <1>7

\* A call is made: c is none of those before.
LEMMA AppendCalls ==
  ASSUME calls \in Seq(CallType), NEW x \in CallType, calls' = Append(calls, x), NEW c,
         c \notin DOMAIN calls \cup {0}
  PROVE  calls' \in Seq(CallType) /\ \E h : Leaves(h, c, x)
  <1> DEFINE n == Len(calls)
             h == [d \in 1..n + 1 |-> IF d <= n THEN d ELSE 0]
  <1>1. /\ calls' \in Seq(CallType) /\ DOMAIN calls' = 1..n + 1 /\ n \in Nat
        /\ DOMAIN calls = 1..n
        /\ \A d \in 1..n + 1 : calls'[d] = IF d <= n THEN calls[d] ELSE x
    OBVIOUS
  <1>2. h \in [DOMAIN calls' -> DOMAIN calls \cup {0}]
    BY <1>1
  <1>3. \A d, e \in DOMAIN calls' : h[d] = h[e] => d = e
    BY <1>1
  <1>4. \A d \in DOMAIN calls' : h[d] # c
    BY <1>2
  <1>5. \A d \in DOMAIN calls' : calls'[d] = IF h[d] = 0 THEN x ELSE calls[h[d]]
    BY <1>1
  <1> HIDE DEF h, n
  <1>6. QED
    BY <1>1, <1>2, <1>3, <1>4, <1>5, SMTT(60) DEF Leaves

-----------------------------------------------------------------------------
(* What the services do: they answer a call, or lose it, and the screen    *)
(* stays as it is.                                                         *)

\* What the answer val to call c says, and what has become of its form, if it has one.
Says(c, pc, val) ==
    /\ calls[c].kind = "recon" =>
          /\ pc = "loaded" => val \in ui.since..moved'
          /\ pc = "off" => moved' > ui.since
    /\ calls[c].kind = "txns" /\ pc = "ok" => val \in ui.since..moved'
    /\ calls[c].kind = "detail" /\ pc = "ok" => val = calls[c].arg
    /\ pc = "off" => calls[c].kind = "recon"
FormSays(c, pc) ==
    /\ last' \in [taken : BOOLEAN, lost : BOOLEAN, kind : Kinds \cup {"none"}]
    /\ last'.kind = last.kind /\ (last.lost => last'.lost)
    /\ IF IsForm(c)
       THEN /\ pc = "sent" /\ calls[c].kind # "relist" => ~last'.taken
            /\ pc \in {"moved", "ok"} => last'.taken
            /\ calls[c].kind = "relist" => last'.taken
            /\ pc = "failed" /\ calls[c].kind \in Forms => ~last'.taken \/ last'.lost
       ELSE last'.taken = last.taken

\* An answer to a call keeps what the screen, the form and the rows rely on.
LEMMA ReplyKeeps ==
  ASSUME PagesInv, NEW c \in DOMAIN calls, NEW pc \in Stages, NEW val \in Int,
         Reply(c, pc, val), UNCHANGED screen, moved' \in Nat, moved' >= moved,
         Says(c, pc, val), FormSays(c, pc)
  PROVE  /\ ScreenShape' /\ CallShape' /\ ReconInv' /\ LoadInv' /\ RowsInv' /\ DetailInv'
         /\ FormInv'
  <1>1. calls \in Seq(CallType)
    BY DEF PagesInv, CallShape
  <1>2. calls' \in Seq(CallType)
    BY <1>1, ReplyCalls
  <1>3. PICK h : Answers(h, c, pc, val)
    BY <1>1, ReplyCalls, Zenon
  <1>4. ui' = ui /\ doubled' = doubled
    BY DEF screen
  <1>5. /\ moved \in Nat /\ ui.since \in Nat /\ ui.since <= moved /\ ui.busy \in BOOLEAN
        /\ ui \in [page : Pages, loading : BOOLEAN, balance : Int, rows : Seq(Int),
                   recon : {"none", "ok", "off"}, offset : Nat, hasMore : BOOLEAN,
                   busy : BOOLEAN, detail : Int, asked : Int,
                   told : {"nothing", "ok", "error"}, since : 0..moved]
    BY DEF PagesInv, ServerShape, ScreenShape
  <1>6. ScreenShape'
    BY <1>4, <1>5 DEF ScreenShape
  <1>7. CallShape'
    <2>1. ASSUME NEW d \in DOMAIN calls'
          PROVE  /\ <<calls'[d].page, calls'[d].kind>> \in Belongs
                 /\ calls'[d].pc = "off" => calls'[d].kind = "recon"
                 /\ IF calls'[d].live THEN calls'[d].page = ui.page
                    ELSE calls'[d].kind \in Forms \cup {"view"} /\ ~Settles(calls'[d].pc)
      <3>1. /\ h[d] \in DOMAIN calls
            /\ calls'[d].page = calls[h[d]].page /\ calls'[d].kind = calls[h[d]].kind
            /\ calls'[d].live = calls[h[d]].live
        BY <1>3 DEF Answers
      <3>2. CASE h[d] = c
        <4>1. calls'[d].pc = pc /\ (calls[c].live \/ ~Settles(pc))
          BY <1>3, <3>2 DEF Answers
        <4>2. QED
          BY <3>1, <3>2, <4>1 DEF PagesInv, CallShape, Says
      <3>3. CASE h[d] # c
        <4>1. calls'[d].pc = calls[h[d]].pc
          BY <1>3, <3>3 DEF Answers
        <4>2. QED
          BY <3>1, <4>1 DEF PagesInv, CallShape, Settled
      <3>4. QED
        BY <3>2, <3>3
    <2>2. QED
      BY <1>2, <1>4, <2>1 DEF CallShape, Settled
  <1>8. ReconInv'
    <2>1. ui.recon = "off" => moved' > ui.since
      BY <1>5 DEF PagesInv, ReconInv
    <2>2. ASSUME NEW d \in DOMAIN calls'
          PROVE  /\ Read(d, "recon", "loaded")' => calls'[d].val \in ui.since..moved'
                 /\ Read(d, "recon", "off")' => moved' > ui.since
      <3>1. h[d] \in DOMAIN calls
        BY <1>3 DEF Answers
      <3>2. CASE h[d] = c
        BY <1>3, <3>1, <3>2 DEF Answers, Read, At, Says
      <3>3. CASE h[d] # c
        <4>1. /\ calls'[d].pc = calls[h[d]].pc /\ calls'[d].val = calls[h[d]].val
              /\ calls'[d].live = calls[h[d]].live /\ calls'[d].kind = calls[h[d]].kind
          BY <1>3, <3>3 DEF Answers
        <4>2. /\ Read(h[d], "recon", "loaded") => calls[h[d]].val \in ui.since..moved
              /\ Read(h[d], "recon", "off") => moved > ui.since
          BY <3>1 DEF PagesInv, ReconInv
        <4>3. /\ Read(d, "recon", "loaded")' <=> Read(h[d], "recon", "loaded")
              /\ Read(d, "recon", "off")' <=> Read(h[d], "recon", "off")
          BY <4>1 DEF Read, At
        <4>4. QED
          BY <1>5, <4>1, <4>2, <4>3
      <3>4. QED
        BY <3>2, <3>3
    <2>3. QED
      BY <1>4, <2>1, <2>2 DEF ReconInv
  <1>9. LoadInv'
    BY <1>3, <1>4 DEF PagesInv, LoadInv, Answers
  <1>10. RowsInv'
    <2> SUFFICES ASSUME ui.page = "wallet" PROVE RowsInv'
      BY <1>4 DEF RowsInv
    <2>1. /\ \E k \in Nat : ui.offset = k * Limit
          /\ ui.loading => ui.rows = <<>> /\ ui.hasMore /\ ui.offset = 0
      BY DEF PagesInv, RowsInv
    <2>2. ASSUME NEW d \in DOMAIN calls', IsTxns(d)'
          PROVE  /\ IsTxns(h[d]) /\ h[d] \in DOMAIN calls
                 /\ calls'[d].pc = "ok" => calls'[d].val \in ui.since..moved'
                 /\ calls'[d].arg = calls[h[d]].arg
      <3>1. h[d] \in DOMAIN calls /\ IsTxns(h[d]) /\ calls'[d].arg = calls[h[d]].arg
        BY <1>3, <2>2 DEF Answers, IsTxns
      <3>2. calls[h[d]].pc = "ok" => calls[h[d]].val \in ui.since..moved'
        BY <1>5, <3>1, SMTT(60) DEF PagesInv, RowsInv
      <3>3. QED
        BY <1>3, <2>2, <3>1, <3>2 DEF Answers, Says, IsTxns
    <2>3. \A d, e \in DOMAIN calls' : h[d] = h[e] => d = e
      BY <1>3 DEF Answers
    <2>4. "txns" \notin doubled =>
              /\ \A d, e \in DOMAIN calls' : IsTxns(d)' /\ IsTxns(e)' => d = e
              /\ ~ui.loading => \A d \in DOMAIN calls' : IsTxns(d)' =>
                    ui.hasMore /\ ui.rows # <<>> /\ calls'[d].arg = ui.offset + Limit
      BY <2>2, <2>3 DEF PagesInv, RowsInv
    <2>5. \A d \in DOMAIN calls' : IsTxns(d)' =>
              /\ ui.loading => calls'[d].arg = 0
              /\ \E k \in Nat : calls'[d].arg = k * Limit
      BY <2>2 DEF PagesInv, RowsInv
    <2>6. moved' = ui.since => moved' = moved
      BY <1>5
    <2>7. "txns" \notin doubled /\ moved' = ui.since =>
              /\ ui.rows = [i \in 1..Len(ui.rows) |-> moved' - i + 1]
              /\ IF ui.hasMore
                 THEN ui.rows # <<>> => Len(ui.rows) = ui.offset + Limit /\ Len(ui.rows) <= moved'
                 ELSE Len(ui.rows) = moved'
      BY <2>6 DEF PagesInv, RowsInv
    <2>8. QED
      BY <1>4, <2>1, <2>2, <2>4, <2>5, <2>7 DEF RowsInv
  <1>11. DetailInv'
    BY <1>3, <1>4 DEF PagesInv, DetailInv, Answers, Says, ShowsDetail
  <1>12. FormInv'
    <2>1. \A d \in DOMAIN calls' : IsForm(d)' <=> IsForm(h[d])
      BY <1>3 DEF Answers, IsForm
    <2>2. \A d, e \in DOMAIN calls' : IsForm(d)' /\ IsForm(e)' => d = e
      BY <1>3, <2>1 DEF PagesInv, FormInv, Answers
    <2>3. IsForm(c) => ui.told = "nothing"
      BY DEF PagesInv, FormInv
    <2>4. /\ ui.told = "error" /\ last'.kind # "create" => ~last'.taken \/ last'.lost
          /\ ui.told = "ok" => last'.taken
      BY <2>3 DEF PagesInv, FormInv, FormSays
    <2>5. ASSUME NEW d \in DOMAIN calls', IsForm(d)'
          PROVE  /\ ui.busy
                 /\ last'.kind = IF calls'[d].kind = "relist" THEN "create" ELSE calls'[d].kind
                 /\ calls'[d].pc = "sent" /\ calls'[d].kind # "relist" => ~last'.taken
                 /\ calls'[d].pc \in {"moved", "ok"} \/ calls'[d].kind = "relist" => last'.taken
                 /\ calls'[d].pc = "failed" /\ calls'[d].kind \in Forms => ~last'.taken \/ last'.lost
      <3>1. h[d] \in DOMAIN calls /\ IsForm(h[d]) /\ calls'[d].kind = calls[h[d]].kind
        BY <1>3, <2>1, <2>5 DEF Answers
      <3>2. h[d] = c => calls'[d].pc = pc
        BY <1>3 DEF Answers
      <3>3. h[d] # c => ~IsForm(c) /\ calls'[d].pc = calls[h[d]].pc
        BY <1>3, <3>1 DEF PagesInv, FormInv, Answers
      <3>4. /\ ui.busy
            /\ last.kind = IF calls[h[d]].kind = "relist" THEN "create" ELSE calls[h[d]].kind
            /\ calls[h[d]].pc = "sent" /\ calls[h[d]].kind # "relist" => ~last.taken
            /\ calls[h[d]].pc \in {"moved", "ok"} \/ calls[h[d]].kind = "relist" => last.taken
            /\ calls[h[d]].pc = "failed" /\ calls[h[d]].kind \in Forms => ~last.taken \/ last.lost
        BY <3>1 DEF PagesInv, FormInv
      <3>5. CASE h[d] = c
        BY <3>1, <3>2, <3>4, <3>5 DEF FormSays
      <3>6. CASE h[d] # c
        BY <3>1, <3>3, <3>4, <3>6 DEF FormSays
      <3>7. QED
        BY <3>5, <3>6
    <2>6. ui.busy => ui.told = "nothing"
      BY DEF PagesInv, FormInv
    <2>7. QED
      BY <1>4, <2>2, <2>4, <2>5, <2>6 DEF FormInv
  <1>13. QED
    BY <1>6, <1>7, <1>8, <1>9, <1>10, <1>11, <1>12

LEMMA ReplyInv ==
  ASSUME PagesInv, NEW c \in DOMAIN calls, NEW pc \in Stages, NEW val \in Int,
         Reply(c, pc, val), UNCHANGED screen, moved' \in Nat, moved' >= moved,
         Says(c, pc, val), FormSays(c, pc), cache' \in Int, excused' \in BOOLEAN, faults' \in Nat,
         CacheFresh'
  PROVE  PagesInv'
  <1>1. ServerShape'
    BY DEF PagesInv, ServerShape, Reply, FormSays
  <1>2. QED
    BY <1>1, ReplyKeeps DEF PagesInv

\* The parts of PagesInv that say what values the state holds.
LEMMA Shapes ==
  ASSUME PagesInv
  PROVE  /\ moved \in Nat /\ cache \in Int /\ excused \in BOOLEAN /\ made \in Nat /\ faults \in Nat
         /\ last \in [taken : BOOLEAN, lost : BOOLEAN, kind : Kinds \cup {"none"}]
         /\ ui.since \in 0..moved /\ ui.busy \in BOOLEAN
         /\ \A c \in DOMAIN calls :
               /\ calls[c] \in CallType /\ calls[c].val \in Int /\ calls[c].arg \in Int
               /\ calls[c].live \in BOOLEAN
               /\ calls[c].kind \in {"recon", "txns", "detail"} => calls[c].live
  <1>1. ServerShape /\ ScreenShape /\ CallShape
    BY DEF PagesInv
  <1>2. \A c \in DOMAIN calls : calls[c] \in CallType
    BY <1>1 DEF CallShape
  <1>3. \A c \in DOMAIN calls :
           /\ calls[c].val \in Int /\ calls[c].arg \in Int /\ calls[c].live \in BOOLEAN
           /\ calls[c].kind \in {"recon", "txns", "detail"} => calls[c].live
    BY <1>1, <1>2 DEF CallShape, CallType, Forms
  <1>4. QED
    BY <1>1, <1>2, <1>3 DEF ServerShape, ScreenShape

\* A call of a kind no form has.
LEMMA NoForm ==
  ASSUME PagesInv, NEW c \in DOMAIN calls, NEW pc, last' = last, ~IsForm(c)
  PROVE  FormSays(c, pc)
  BY Shapes DEF FormSays

\* The reads of wallet-service.
LEMMA ReadKeeps ==
  ASSUME PagesInv, NEW c \in DOMAIN calls,
         Get(c) \/ Put(c) \/ Reconcile(c) \/ ReconciledBalance(c) \/ Query(c) \/ Find(c)
  PROVE  PagesInv'
  <1> USE DEF Stages
  <1>1. CacheFresh
    BY DEF PagesInv
  <1>2. CASE Get(c)
    <2>1. PICK pc \in {"ok", "loaded"}, val \in Int : Reply(c, pc, val)
      BY <1>2, Shapes DEF Get
    <2>2. UNCHANGED <<server, screen, last>> /\ At(c, "view", "sent") /\ faults' \in Nat
      BY <1>2, Shapes DEF Get, Faulty
    <2>3. ~IsForm(c)
      BY <2>2 DEF IsForm, At, Forms
    <2>4. Says(c, pc, val) /\ FormSays(c, pc) /\ CacheFresh'
      BY <1>1, <2>2, <2>3, NoForm DEF Says, At, CacheFresh, server
    <2>5. QED
      BY <2>1, <2>2, <2>4, ReplyInv, Shapes DEF server
  <1>3. CASE Put(c)
    <2>1. Reply(c, "ok", calls[c].val) /\ calls[c].val \in Int
      BY <1>3, Shapes DEF Put
    <2>2. UNCHANGED <<moved, due, screen, last>> /\ At(c, "view", "loaded")
      BY <1>3 DEF Put
    <2>3. cache' \in Int /\ excused' \in BOOLEAN /\ faults' \in Nat /\ CacheFresh'
      <3>1. CASE /\ cache' = calls[c].val
                 /\ excused' = (calls[c].val < moved /\ due = {})
                 /\ UNCHANGED faults
        <4>1. excused' \in BOOLEAN
          BY <3>1
        <4>2. CacheFresh'
          BY <2>2, <3>1 DEF CacheFresh
        <4>3. QED
          BY <2>1, <3>1, <4>1, <4>2, Shapes
      <3>2. CASE Faulty /\ UNCHANGED <<cache, excused>>
        <4>1. CacheFresh'
          BY <1>1, <2>2, <3>2 DEF CacheFresh
        <4>2. cache' = cache /\ excused' = excused /\ faults' = faults + 1
          BY <3>2 DEF Faulty
        <4>3. QED
          BY <4>1, <4>2, Shapes
      <3>3. QED
        BY <1>3, <3>1, <3>2 DEF Put
    <2>4. CacheFresh'
      BY <2>3
    <2>5. ~IsForm(c)
      BY <2>2 DEF IsForm, At, Forms
    <2>6. Says(c, "ok", calls[c].val) /\ FormSays(c, "ok")
      BY <2>2, <2>5, NoForm DEF Says, At
    <2>7. QED
      BY <2>1, <2>2, <2>3, <2>4, <2>6, ReplyInv, Shapes
  <1>4. CASE Reconcile(c)
    <2>1. Reply(c, "loaded", moved) /\ UNCHANGED <<server, screen, faults, last>>
      BY <1>4 DEF Reconcile
    <2>2. ~IsForm(c) /\ calls[c].kind = "recon"
      BY <1>4 DEF Reconcile, IsForm, At, Forms
    <2>3. Says(c, "loaded", moved) /\ FormSays(c, "loaded") /\ CacheFresh'
      BY <1>1, <2>1, <2>2, NoForm, Shapes DEF Says, CacheFresh, server
    <2>4. QED
      BY <2>1, <2>3, ReplyInv, Shapes DEF server
  <1>5. CASE ReconciledBalance(c)
    <2> DEFINE pc == IF calls[c].val = moved THEN "ok" ELSE "off"
    <2>1. Reply(c, pc, moved) /\ UNCHANGED <<server, screen, faults, last>>
      BY <1>5 DEF ReconciledBalance
    <2>2. ~IsForm(c) /\ At(c, "recon", "loaded") /\ calls[c].live
      BY <1>5, Shapes DEF ReconciledBalance, IsForm, At, Forms
    <2>3. calls[c].val \in ui.since..moved
      BY <2>2 DEF PagesInv, ReconInv, Read
    <2>4. Says(c, pc, moved)
      BY <2>1, <2>2, <2>3, Shapes DEF Says, At, server
    <2>5. FormSays(c, pc) /\ CacheFresh'
      BY <1>1, <2>1, <2>2, NoForm DEF CacheFresh, server
    <2>6. pc \in Stages
      OBVIOUS
    <2> HIDE DEF pc
    <2>7. QED
      BY <2>1, <2>4, <2>5, <2>6, ReplyInv, Shapes DEF server
  <1>6. CASE Query(c)
    <2>1. Reply(c, "ok", moved) /\ UNCHANGED <<server, screen, faults, last>>
      BY <1>6 DEF Query
    <2>2. Says(c, "ok", moved) /\ CacheFresh'
      BY <1>1, <1>6, <2>1, Shapes DEF Says, Query, At, CacheFresh, server
    <2>3. FormSays(c, "ok")
      <3>1. CASE ~IsForm(c)
        BY <2>1, <3>1, NoForm
      <3>2. CASE IsForm(c)
        <4>1. calls[c].kind = "relist"
          BY <1>6, <3>2 DEF Query, At, IsForm, Forms
        <4>2. last.taken
          BY <3>2, <4>1 DEF PagesInv, FormInv
        <4>3. QED
          BY <2>1, <4>1, <4>2, Shapes DEF FormSays, Forms
      <3>3. QED
        BY <3>1, <3>2
    <2>4. QED
      BY <2>1, <2>2, <2>3, ReplyInv, Shapes DEF server
  <1>7. CASE Find(c)
    <2>1. Reply(c, "ok", calls[c].arg) /\ UNCHANGED <<server, screen, faults, last>>
      BY <1>7 DEF Find
    <2>2. ~IsForm(c) /\ calls[c].kind = "detail"
      BY <1>7 DEF Find, IsForm, At, Forms
    <2>3. Says(c, "ok", calls[c].arg) /\ FormSays(c, "ok") /\ CacheFresh'
      BY <1>1, <2>1, <2>2, NoForm DEF Says, CacheFresh, server
    <2>4. QED
      BY <2>1, <2>3, ReplyInv, Shapes DEF server
  <1>8. QED
    BY <1>2, <1>3, <1>4, <1>5, <1>6, <1>7

\* The requests of the forms, and answers that are lost.
LEMMA FormKeeps ==
  ASSUME PagesInv, NEW c \in DOMAIN calls, Create(c) \/ Pay(c) \/ PaymentAnswers(c) \/ AnswerLost(c)
  PROVE  PagesInv'
  <1> USE DEF Stages
  <1>1. CacheFresh /\ calls[c].live \in BOOLEAN /\ calls[c].val \in Int
    BY Shapes DEF PagesInv
  <1>2. \* What is known of the form in hand before.
        IsForm(c) =>
          /\ last.kind = IF calls[c].kind = "relist" THEN "create" ELSE calls[c].kind
          /\ calls[c].pc = "sent" /\ calls[c].kind # "relist" => ~last.taken
          /\ calls[c].pc \in {"moved", "ok"} \/ calls[c].kind = "relist" => last.taken
    BY DEF PagesInv, FormInv
  <1>3. CASE Create(c)
    <2>1. PICK pc \in {"ok", "failed"} :
             /\ Reply(c, pc, 0)
             /\ IF pc = "ok" THEN Taken(c) ELSE UNCHANGED last
      BY <1>3 DEF Create
    <2>2. UNCHANGED <<server, screen, faults>> /\ At(c, "create", "sent")
      BY <1>3 DEF Create
    <2>3. Says(c, pc, 0) /\ CacheFresh'
      BY <1>1, <2>2 DEF Says, At, CacheFresh, server
    <2>4. FormSays(c, pc)
      BY <1>1, <1>2, <2>1, <2>2, Shapes DEF FormSays, At, Taken, IsForm, Forms
    <2>5. QED
      BY <2>1, <2>2, <2>3, <2>4, ReplyInv, Shapes DEF server
  <1>4. CASE Pay(c)
    <2>1. UNCHANGED <<screen, faults>> /\ calls[c].kind \in Forms /\ calls[c].pc = "sent"
      BY <1>4 DEF Pay
    <2>2. CASE Reply(c, "failed", 0) /\ UNCHANGED <<server, last>>
      <3>1. Says(c, "failed", 0) /\ CacheFresh'
        BY <1>1, <2>1, <2>2 DEF Says, CacheFresh, server, Forms
      <3>2. FormSays(c, "failed")
        BY <1>2, <2>1, <2>2, Shapes DEF FormSays, Forms
      <3>3. QED
        BY <2>1, <2>2, <3>1, <3>2, ReplyInv, Shapes DEF server
    <2>3. CASE Reply(c, "ok", 0) /\ Taken(c) /\ UNCHANGED server
      <3>1. Says(c, "ok", 0) /\ CacheFresh'
        BY <1>1, <2>1, <2>3 DEF Says, CacheFresh, server, Forms
      <3>2. FormSays(c, "ok")
        BY <1>1, <1>2, <2>1, <2>3, Shapes DEF FormSays, Forms, Taken, IsForm
      <3>3. QED
        BY <2>1, <2>3, <3>1, <3>2, ReplyInv, Shapes DEF server
    <2>4. CASE /\ Move(calls[c].kind = "transfer") /\ Reply(c, "moved", moved + 1) /\ Taken(c)
      <3>1. Says(c, "moved", moved + 1) /\ CacheFresh'
        BY <2>1, <2>4 DEF Says, CacheFresh, Move, Forms
      <3>2. FormSays(c, "moved")
        BY <1>1, <1>2, <2>1, <2>4, Shapes DEF FormSays, Forms, Taken, IsForm
      <3>3. moved' \in Nat /\ moved' >= moved /\ cache' = cache /\ excused' = excused
        BY <2>4, Shapes DEF Move
      <3>4. moved + 1 \in Int
        BY Shapes
      <3>5. QED
        BY <2>1, <2>4, <3>1, <3>2, <3>3, <3>4, ReplyInv, Shapes
    <2>5. QED
      BY <1>4, <2>2, <2>3, <2>4 DEF Pay
  <1>5. CASE PaymentAnswers(c)
    <2>1. /\ UNCHANGED <<server, screen, faults, last>> /\ Reply(c, "ok", calls[c].val)
          /\ calls[c].kind \in Forms /\ calls[c].pc = "moved"
      BY <1>5 DEF PaymentAnswers
    <2>2. Says(c, "ok", calls[c].val) /\ CacheFresh'
      BY <1>1, <2>1 DEF Says, CacheFresh, server, Forms
    <2>3. FormSays(c, "ok")
      BY <1>2, <2>1, Shapes DEF FormSays, Forms
    <2>4. QED
      BY <1>1, <2>1, <2>2, <2>3, ReplyInv, Shapes DEF server
  <1>6. CASE AnswerLost(c)
    <2>1. /\ UNCHANGED <<server, screen>> /\ Reply(c, "failed", calls[c].val)
          /\ calls[c].pc \in {"sent", "ok"} /\ calls[c].live
          /\ faults' \in Nat
          /\ last' = [last EXCEPT !.lost = @ \/ (At(c, last.kind, "ok"))]
      BY <1>6, Shapes DEF AnswerLost, Faulty
    <2>2. Says(c, "failed", calls[c].val) /\ CacheFresh'
      BY <1>1, <2>1 DEF Says, CacheFresh, server
    <2>3. FormSays(c, "failed")
      <3>1. /\ last' \in [taken : BOOLEAN, lost : BOOLEAN, kind : Kinds \cup {"none"}]
            /\ last'.kind = last.kind /\ last'.taken = last.taken
            /\ last'.lost <=> last.lost \/ At(c, last.kind, "ok")
        BY <2>1, Shapes DEF At
      <3>2. QED
        BY <1>2, <2>1, <3>1 DEF FormSays, At, Forms
    <2>4. QED
      BY <1>1, <2>1, <2>2, <2>3, ReplyInv, Shapes DEF server
  <1>7. QED
    BY <1>3, <1>4, <1>5, <1>6

\* Movements of others, evictions and expiries leave the pages alone.
LEMMA ServerKeeps ==
  ASSUME PagesInv, UNCHANGED <<screen, traffic, last>>, moved' \in Nat, moved' >= moved,
         cache' \in Int, excused' \in BOOLEAN, faults' \in Nat, CacheFresh'
  PROVE  PagesInv'
  <1>1. ServerShape' /\ ScreenShape'
    BY DEF PagesInv, ServerShape, ScreenShape, screen, traffic
  <1>2. CallShape' /\ LoadInv' /\ DetailInv' /\ FormInv'
    BY DEF PagesInv, CallShape, LoadInv, DetailInv, FormInv, screen, traffic, Settled, IsForm,
           ShowsDetail
  <1>3. ReconInv'
    BY Shapes DEF PagesInv, ReconInv, screen, traffic, Read, At
  <1>4. RowsInv'
    <2>1. moved' = ui.since => moved' = moved
      BY Shapes
    <2>2. \A v \in Int : v \in ui.since..moved => v \in ui.since..moved'
      BY Shapes
    <2>3. \A c \in DOMAIN calls : calls[c].val \in Int
      BY Shapes
    <2>4. QED
      BY <2>1, <2>2, <2>3 DEF PagesInv, RowsInv, screen, traffic, IsTxns
  <1>5. QED
    BY <1>1, <1>2, <1>3, <1>4 DEF PagesInv

LEMMA MoneyKeeps ==
  ASSUME PagesInv,
         \/ MoveElsewhere \/ Expire \/ (\E m \in due : Evict(m) \/ EvictFails(m))
  PROVE  PagesInv'
  <1>1. CacheFresh
    BY DEF PagesInv
  <1>2. CASE MoveElsewhere
    <2>1. moved' = moved + 1 /\ cache' = cache /\ excused' = excused /\ due' # {}
      BY <1>2 DEF MoveElsewhere, Move
    <2>2. CacheFresh'
      BY <2>1 DEF CacheFresh
    <2>3. QED
      BY <1>2, <2>1, <2>2, ServerKeeps, Shapes DEF MoveElsewhere
  <1>3. CASE Expire
    <2>1. cache' = None /\ excused' = FALSE /\ moved' = moved /\ faults' = faults
      BY <1>3 DEF Expire
    <2>2. cache' \in Int /\ excused' \in BOOLEAN /\ CacheFresh'
      <3>1. None \in Int
        BY DEF None
      <3>2. CacheFresh'
        BY <2>1, Zenon DEF CacheFresh
      <3>3. excused' \in BOOLEAN
        BY <2>1
      <3>4. QED
        BY <2>1, <3>1, <3>2, <3>3
    <2>3. QED
      BY <1>3, <2>1, <2>2, ServerKeeps, Shapes DEF Expire
  <1>4. ASSUME NEW m \in due, Evict(m) PROVE PagesInv'
    <2>1. cache' = None /\ excused' = FALSE /\ moved' = moved /\ faults' = faults
      BY <1>4 DEF Evict
    <2>2. cache' \in Int /\ excused' \in BOOLEAN /\ CacheFresh'
      <3>1. None \in Int
        BY DEF None
      <3>2. CacheFresh'
        BY <2>1, Zenon DEF CacheFresh
      <3>3. excused' \in BOOLEAN
        BY <2>1
      <3>4. QED
        BY <2>1, <3>1, <3>2, <3>3
    <2>3. QED
      BY <1>4, <2>1, <2>2, ServerKeeps, Shapes DEF Evict
  <1>5. ASSUME NEW m \in due, EvictFails(m) PROVE PagesInv'
    <2>1. CacheFresh'
      BY <1>1, <1>5, Shapes DEF EvictFails, CacheFresh
    <2>2. moved' = moved /\ cache' = cache /\ excused' \in BOOLEAN /\ faults' \in Nat
      BY <1>5, Shapes DEF EvictFails, Faulty
    <2>3. UNCHANGED <<screen, traffic, last>>
      BY <1>5 DEF EvictFails
    <2>4. QED
      BY <2>1, <2>2, <2>3, ServerKeeps, Shapes
  <1>6. QED
    BY <1>2, <1>3, <1>4, <1>5

-----------------------------------------------------------------------------
(* What the pages do with an answer.                                       *)

\* An answer that waits to be dealt with is for the page on the screen.
LEMMA SettledCall ==
  ASSUME PagesInv, NEW c \in DOMAIN calls, Settled(c)
  PROVE  /\ calls[c].live /\ calls[c].page = ui.page
         /\ <<calls[c].page, calls[c].kind>> \in Belongs
  BY DEF PagesInv, CallShape

\* Which page makes which call.
LEMMA WalletCalls ==
  ASSUME NEW p, NEW k, <<p, k>> \in Belongs
  PROVE  /\ k \in {"txns", "recon", "detail"} => p = "wallet"
         /\ p = "wallet" => k \in {"view", "txns", "recon", "detail"}
         /\ k = "list" => p \in {"dashboard", "transfer", "card"}
         /\ k = "relist" => p \in {"dashboard", "transfer"}
         /\ k = "create" => p = "dashboard"
         /\ k \in Forms => p = k
  BY DEF Belongs, Forms

\* No form's call among those of before but c, and x is none.
NoForms(h, c, x) ==
    /\ \A d \in DOMAIN calls' : h[d] = 0 =>
          /\ x.kind \notin Forms \cup {"create"}
          /\ ~(x.kind = "relist" /\ x.page = "dashboard")

\* The form in hand is not concerned.
LEMMA FormKept ==
  ASSUME PagesInv, NEW c, NEW h, NEW x, Leaves(h, c, x), NoForms(h, c, x),
         last' = last, ui'.busy = ui.busy, ui'.told = ui.told
  PROVE  FormInv'
  <1>1. \A d \in DOMAIN calls' : IsForm(d)' =>
           h[d] \in DOMAIN calls /\ calls'[d] = calls[h[d]] /\ IsForm(h[d])
    BY DEF Leaves, NoForms, IsForm
  <1>2. \A d, e \in DOMAIN calls' : h[d] = h[e] => d = e
    BY DEF Leaves
  <1>3. QED
    BY <1>1, <1>2 DEF PagesInv, FormInv

\* The call of the form in hand is dealt with.
LEMMA FormDone ==
  ASSUME PagesInv, NEW c \in DOMAIN calls, NEW h, NEW x, Leaves(h, c, x), NoForms(h, c, x),
         last' = last, IsForm(c), ui'.busy = FALSE,
         ui'.told = "error" /\ last.kind # "create" => ~last.taken \/ last.lost,
         ui'.told = "ok" => last.taken
  PROVE  FormInv'
  <1>1. \A d \in DOMAIN calls' : ~IsForm(d)'
    <2> SUFFICES ASSUME NEW d \in DOMAIN calls', IsForm(d)' PROVE FALSE
      OBVIOUS
    <2>1. h[d] \in DOMAIN calls /\ calls'[d] = calls[h[d]] /\ h[d] # c
      BY DEF Leaves, NoForms, IsForm
    <2>2. IsForm(h[d])
      BY <2>1 DEF IsForm
    <2>3. QED
      BY <2>1, <2>2 DEF PagesInv, FormInv
  <1>2. QED
    BY <1>1 DEF FormInv

\* A list is asked for after a wallet has been created.
LEMMA FormPassed ==
  ASSUME PagesInv, NEW c \in DOMAIN calls, NEW h, NEW x, Leaves(h, c, x),
         last' = last, IsForm(c), calls[c].kind = "create", calls[c].pc = "ok",
         x.kind = "relist", x.pc = "sent", ui'.busy = ui.busy, ui'.told = ui.told
  PROVE  FormInv'
  <1>1. \A d \in DOMAIN calls' : IsForm(d)' => h[d] = 0 /\ calls'[d] = x
    <2> SUFFICES ASSUME NEW d \in DOMAIN calls', IsForm(d)', h[d] # 0 PROVE FALSE
      BY DEF Leaves
    <2>1. h[d] \in DOMAIN calls /\ calls'[d] = calls[h[d]] /\ h[d] # c
      BY DEF Leaves
    <2>2. IsForm(h[d])
      BY <2>1 DEF IsForm
    <2>3. QED
      BY <2>1, <2>2 DEF PagesInv, FormInv
  <1>2. \A d, e \in DOMAIN calls' : h[d] = h[e] => d = e
    BY DEF Leaves
  <1>3. ui.busy /\ last.taken /\ last.kind = "create" /\ ui.told = "nothing"
    BY DEF PagesInv, FormInv
  <1>4. QED
    BY <1>1, <1>2, <1>3 DEF FormInv, Forms

\* On a page other than WalletDetail no rows, badge or details are on show.
LEMMA OffWallet ==
  ASSUME PagesInv, NEW c, NEW h, NEW x, Leaves(h, c, x), calls' \in Seq(CallType),
         \A d \in DOMAIN calls' : h[d] = 0 =>
            <<x.page, x.kind>> \in Belongs /\ x.live /\ x.page = ui.page /\ x.pc = "sent",
         ui.page # "wallet", UNCHANGED <<server, doubled, faults>>, made' \in Nat,
         last' \in [taken : BOOLEAN, lost : BOOLEAN, kind : Kinds \cup {"none"}],
         ScreenShape', FormInv',
         ui'.page = ui.page, ui'.since = ui.since, ui'.recon = ui.recon,
         ui'.detail = ui.detail, ui'.asked = ui.asked
  PROVE  PagesInv'
  <1>1. ServerShape' /\ CacheFresh'
    BY DEF PagesInv, ServerShape, CacheFresh, server
  <1>2. \A d \in DOMAIN calls' : h[d] # 0 => h[d] \in DOMAIN calls /\ calls'[d] = calls[h[d]]
    BY DEF Leaves
  <1>3. \A d \in DOMAIN calls' : h[d] = 0 => calls'[d] = x
    BY DEF Leaves
  <1>4. ASSUME NEW d \in DOMAIN calls'
        PROVE  /\ <<calls'[d].page, calls'[d].kind>> \in Belongs
               /\ calls'[d].pc = "off" => calls'[d].kind = "recon"
               /\ IF calls'[d].live THEN calls'[d].page = ui.page
                  ELSE calls'[d].kind \in Forms \cup {"view"} /\ ~Settled(d)'
    <2>1. CASE h[d] = 0
      BY <1>3, <2>1
    <2>2. CASE h[d] # 0
      BY <1>2, <2>2 DEF PagesInv, CallShape, Settled
    <2>3. QED
      BY <2>1, <2>2
  <1>5. CallShape'
    BY <1>4 DEF CallShape
  <1>6. ASSUME NEW d \in DOMAIN calls', calls'[d].live
        PROVE  calls'[d].kind \notin {"recon", "detail"}
    BY <1>4, <1>6, WalletCalls, ZenonT(60)
  <1>7. ReconInv' /\ DetailInv' /\ LoadInv' /\ RowsInv'
    BY <1>6 DEF PagesInv, ReconInv, DetailInv, LoadInv, RowsInv, Read, At, ShowsDetail, server
  <1>8. QED
    BY <1>1, <1>5, <1>7 DEF PagesInv

\* Dashboard, Transfer, CardDeposit and Deposit.
LEMMA AnswerKeeps ==
  ASSUME PagesInv, NEW c \in DOMAIN calls,
         \/ Listed(c) \/ FallBack(c) \/ FallbackAnswered(c) \/ TransferAnswered(c)
         \/ DepositAnswered(c) \/ Created(c) \/ SubmitFailed(c) \/ Relisted(c)
  PROVE  PagesInv'
  <1>1. /\ calls \in Seq(CallType) /\ calls[c] \in CallType
        /\ calls[c].live \in BOOLEAN /\ calls[c].val \in Int
    BY Shapes DEF PagesInv, CallShape
  <1>2. /\ Settled(c)
        /\ calls[c].kind \notin {"txns", "recon", "detail"}
        /\ calls[c].kind = "view" => calls[c].page = "dashboard"
    BY DEF Listed, FallBack, FallbackAnswered, TransferAnswered, DepositAnswered, Created,
           SubmitFailed, Relisted, At, Forms, Settled, Settles
  <1>3. calls[c].live /\ calls[c].page = ui.page /\ <<ui.page, calls[c].kind>> \in Belongs
    BY <1>2, SettledCall
  <1>4. ui.page # "wallet"
    BY <1>2, <1>3, WalletCalls
  <1>5. /\ ScreenShape /\ made \in Nat /\ faults \in Nat
        /\ calls[c].kind \in Forms \cup {"create"} => IsForm(c)
        /\ calls[c].kind = "relist" /\ ui.page = "dashboard" => IsForm(c)
    BY <1>3, Shapes DEF PagesInv, IsForm
  <1>6. \* What is known of the form in hand.
        IsForm(c) =>
          /\ last.kind = IF calls[c].kind = "relist" THEN "create" ELSE calls[c].kind
          /\ calls[c].pc \in {"moved", "ok"} \/ calls[c].kind = "relist" => last.taken
          /\ calls[c].pc = "failed" /\ calls[c].kind \in Forms => ~last.taken \/ last.lost
    BY DEF PagesInv, FormInv
  <1>7. UNCHANGED <<server, doubled, last, faults>>
    BY DEF Listed, FallBack, FallbackAnswered, TransferAnswered, DepositAnswered, Created,
           SubmitFailed, Relisted, screen
  <1> DEFINE Same == /\ ui'.page = ui.page /\ ui'.since = ui.since /\ ui'.recon = ui.recon
                     /\ ui'.detail = ui.detail /\ ui'.asked = ui.asked /\ ScreenShape'
             View == Call("dashboard", "view", 0)
             Relist(page) == Call(page, "relist", 0)
  <1>8. \* An answer after which no call is made.
        ASSUME Handle(c, <<>>), Same,
               \A h : Leaves(h, c, View) /\ NoForms(h, c, View) => FormInv'
        PROVE  PagesInv'
    <2>1. calls' \in Seq(CallType)
      BY <1>1, <1>8, HandleCalls
    <2>2. PICK h : Leaves(h, c, View) /\ \A d \in DOMAIN calls' : h[d] # 0
      BY <1>1, <1>8, HandleCalls, Zenon
    <2>3. NoForms(h, c, View)
      BY <2>2 DEF NoForms
    <2>4. made' \in Nat
      BY <1>5, <1>8 DEF Handle
    <2>5. QED
      BY <1>4, <1>7, <1>8, <2>1, <2>2, <2>3, <2>4, OffWallet, Shapes, ZenonT(60)
  <1>9. \* An answer after which the call x is made.
        ASSUME NEW x \in CallType, Handle(c, <<x>>), Same,
               <<x.page, x.kind>> \in Belongs, x.live, x.page = ui.page, x.pc = "sent",
               \A h : Leaves(h, c, x) => FormInv'
        PROVE  PagesInv'
    <2>1. calls' \in Seq(CallType)
      BY <1>1, <1>9, HandOver
    <2>2. PICK h : Leaves(h, c, x)
      BY <1>1, <1>9, HandOver, Zenon
    <2>3. made' \in Nat
      BY <1>5, <1>9 DEF Handle
    <2>4. QED
      BY <1>4, <1>7, <1>9, <2>1, <2>2, <2>3, OffWallet, Shapes
  <1>10. /\ View \in CallType /\ View.page = "dashboard" /\ View.kind = "view" /\ View.live
         /\ View.pc = "sent"
         /\ \A page \in {"dashboard", "transfer"} :
               /\ Relist(page) \in CallType /\ Relist(page).page = page
               /\ Relist(page).kind = "relist" /\ Relist(page).live /\ Relist(page).pc = "sent"
               /\ <<page, "relist">> \in Belongs
         /\ <<"dashboard", "view">> \in Belongs
    BY DEF Call, CallType, Kinds, Stages, Pages, Forms, Belongs
  <1> HIDE DEF View, Relist
  <1> DEFINE Balance == IF calls[c].pc = "ok" THEN calls[c].val ELSE None
  <1>11. Balance \in Int
    BY <1>1 DEF None
  <1>12. CASE Listed(c)
    <2>1. /\ ui' = [ui EXCEPT !.loading = FALSE, !.balance = Balance] /\ Handle(c, <<>>)
      BY <1>12 DEF Listed
    <2>2. Same /\ ui'.busy = ui.busy /\ ui'.told = ui.told
      <3> HIDE DEF Balance
      <3>1. QED
        BY <1>5, <1>7, <1>11, <2>1 DEF ScreenShape, server
    <2>3. QED
      BY <1>7, <1>8, <2>1, <2>2, FormKept
  <1>13. CASE FallBack(c)
    <2>1. UNCHANGED screen /\ Handle(c, <<View>>) /\ calls[c].page = "dashboard"
      BY <1>13 DEF FallBack, View
    <2>2. Same /\ ui' = ui
      BY <1>5, <1>7, <2>1 DEF ScreenShape, server, screen
    <2>3. \A h : NoForms(h, c, View)
      BY <1>10 DEF NoForms, Forms
    <2>4. QED
      BY <1>3, <1>7, <1>9, <1>10, <2>1, <2>2, <2>3, FormKept
  <1>14. CASE FallbackAnswered(c)
    <2>1. /\ ui' = [ui EXCEPT !.loading = FALSE, !.balance = Balance] /\ Handle(c, <<>>)
      BY <1>14 DEF FallbackAnswered
    <2>2. Same /\ ui'.busy = ui.busy /\ ui'.told = ui.told
      <3> HIDE DEF Balance
      <3>1. QED
        BY <1>5, <1>7, <1>11, <2>1 DEF ScreenShape, server
    <2>3. QED
      BY <1>7, <1>8, <2>1, <2>2, FormKept
  <1>15. CASE TransferAnswered(c)
    <2>1. /\ ui' = [ui EXCEPT !.busy = FALSE, !.told = "ok"]
          /\ Handle(c, <<Relist("transfer")>>) /\ calls[c].kind = "transfer" /\ calls[c].pc = "ok"
      BY <1>15 DEF TransferAnswered, At, Relist
    <2>2. Same /\ ui'.busy = FALSE /\ ui'.told = "ok"
      BY <1>5, <1>7, <2>1 DEF ScreenShape, server
    <2>3. \A h : NoForms(h, c, Relist("transfer"))
      BY <1>10 DEF NoForms, Forms
    <2>4. ui.page = "transfer" /\ IsForm(c) /\ last.taken
      BY <1>3, <1>5, <1>6, <2>1, WalletCalls DEF Forms
    <2>5. QED
      BY <1>7, <1>9, <1>10, <2>1, <2>2, <2>3, <2>4, FormDone
  <1>16. CASE DepositAnswered(c)
    <2>1. /\ ui' = [ui EXCEPT !.busy = FALSE, !.told = "ok"]
          /\ Handle(c, <<>>) /\ calls[c].kind \in Forms /\ calls[c].pc = "ok"
      BY <1>16 DEF DepositAnswered, At, Forms
    <2>2. Same /\ ui'.busy = FALSE /\ ui'.told = "ok"
      BY <1>5, <1>7, <2>1 DEF ScreenShape, server
    <2>3. IsForm(c) /\ last.taken
      BY <1>5, <1>6, <2>1
    <2>4. QED
      BY <1>7, <1>8, <2>1, <2>2, <2>3, FormDone
  <1>17. CASE Created(c)
    <2>1. /\ UNCHANGED screen /\ Handle(c, <<Relist("dashboard")>>)
          /\ calls[c].kind = "create" /\ calls[c].pc = "ok"
      BY <1>17 DEF Created, At, Relist
    <2>2. Same /\ ui' = ui
      BY <1>5, <1>7, <2>1 DEF ScreenShape, server, screen
    <2>3. ui.page = "dashboard" /\ IsForm(c)
      BY <1>3, <1>5, <2>1, WalletCalls
    <2>4. QED
      BY <1>7, <1>9, <1>10, <2>1, <2>2, <2>3, FormPassed
  <1>18. CASE SubmitFailed(c)
    <2>1. /\ ui' = [ui EXCEPT !.busy = FALSE, !.told = "error"] /\ Handle(c, <<>>)
          /\ calls[c].kind \in Forms \cup {"create"} /\ calls[c].pc = "failed"
      BY <1>18 DEF SubmitFailed
    <2>2. Same /\ ui'.busy = FALSE /\ ui'.told = "error"
      BY <1>5, <1>7, <2>1 DEF ScreenShape, server
    <2>3. IsForm(c) /\ (last.kind # "create" => ~last.taken \/ last.lost)
      BY <1>5, <1>6, <2>1 DEF Forms
    <2>4. QED
      BY <1>7, <1>8, <2>1, <2>2, <2>3, FormDone
  <1>19. CASE Relisted(c)
    <2>1. /\ Handle(c, <<>>) /\ calls[c].kind = "relist"
          /\ ui' = [ui EXCEPT
               !.balance = IF calls[c].pc = "ok" THEN calls[c].val ELSE @,
               !.busy = calls[c].page # "dashboard" /\ @,
               !.told = IF calls[c].page # "dashboard" THEN @
                        ELSE IF calls[c].pc = "ok" THEN "ok" ELSE "error"]
      BY <1>19 DEF Relisted
    <2>2. CASE ui.page = "dashboard"
      <3>1. /\ ui' = [ui EXCEPT !.balance = IF calls[c].pc = "ok" THEN calls[c].val ELSE @,
                              !.busy = FALSE,
                              !.told = IF calls[c].pc = "ok" THEN "ok" ELSE "error"]
        BY <1>3, <2>1, <2>2
      <3>2. Same /\ ui'.busy = FALSE
        BY <1>1, <1>5, <1>7, <3>1 DEF ScreenShape, server
      <3>3. IsForm(c) /\ last.kind = "create" /\ last.taken
        BY <1>5, <1>6, <2>1, <2>2
      <3>4. QED
        BY <1>7, <1>8, <2>1, <3>2, <3>3, FormDone
    <2>3. CASE ui.page # "dashboard"
      <3>1. ui' = [ui EXCEPT !.balance = IF calls[c].pc = "ok" THEN calls[c].val ELSE @]
        BY <1>3, <1>5, <2>1, <2>3 DEF ScreenShape
      <3>2. Same /\ ui'.busy = ui.busy /\ ui'.told = ui.told
        BY <1>1, <1>5, <1>7, <3>1 DEF ScreenShape, server
      <3>3. QED
        BY <1>7, <1>8, <2>1, <3>2, FormKept
    <2>4. QED
      BY <2>2, <2>3
  <1>20. QED
    BY <1>12, <1>13, <1>14, <1>15, <1>16, <1>17, <1>18, <1>19

-----------------------------------------------------------------------------
(* WalletDetail: the pages of the history are tiles of the ledger.         *)

\* An offset is a number of whole pages.
LEMMA Multiple ==
  ASSUME NEW k \in Nat
  PROVE  /\ k * Limit \in Nat /\ (k * Limit) \div Limit = k
         /\ k * Limit + Limit = (k + 1) * Limit
  <1>1. Limit \in Nat /\ Limit > 0
    BY WalletPagesAssumption
  <1> DEFINE q == (k * Limit) \div Limit
  <1>2. k * Limit \in Nat /\ k * Limit + Limit = (k + 1) * Limit
    BY <1>1
  <1>3. q \in Int /\ q * Limit <= k * Limit /\ k * Limit < q * Limit + Limit
    BY <1>1, <1>2
  <1> HIDE DEF q
  <1>4. ~(k >= q + 1)
    BY <1>1, <1>3
  <1>5. ~(k <= q - 1)
    BY <1>1, <1>3
  <1>6. q = k
    BY <1>3, <1>4, <1>5
  <1>7. QED
    BY <1>2, <1>6 DEF q

\* Page k of a ledger of n entries.
LEMMA HistoryPage ==
  ASSUME NEW k \in Nat, NEW n \in Nat
  PROVE  LET older == n - k * Limit
             m == IF older > Limit THEN Limit ELSE IF older < 0 THEN 0 ELSE older
         IN  /\ History(k * Limit, n) = [i \in 1..m |-> older - i + 1]
             /\ History(k * Limit, n) \in Seq(Int) /\ Len(History(k * Limit, n)) = m
             /\ m \in Nat
  <1> DEFINE older == n - k * Limit
             m == IF older > Limit THEN Limit ELSE IF older < 0 THEN 0 ELSE older
  <1>1. older \in Int /\ m \in Nat
    BY Multiple, WalletPagesAssumption
  <1>2. History(k * Limit, n) = [i \in 1..m |-> older - i + 1]
    BY Multiple DEF History
  <1> HIDE DEF older, m
  <1>3. [i \in 1..m |-> older - i + 1] \in Seq(Int) /\ Len([i \in 1..m |-> older - i + 1]) = m
    BY <1>1
  <1>4. QED
    BY <1>1, <1>2, <1>3 DEF older, m

\* WalletDetail deals with a call after its first load.
LEMMA LessCalls ==
  ASSUME PagesInv, NEW c, NEW h, NEW x, Leaves(h, c, x), \A d \in DOMAIN calls' : h[d] # 0,
         calls' \in Seq(CallType), UNCHANGED <<server, doubled, last, faults>>, made' \in Nat,
         ScreenShape', ~ui.loading, RowsInv', DetailInv',
         ui'.page = ui.page, ui'.since = ui.since, ui'.recon = ui.recon,
         ui'.loading = ui.loading, ui'.busy = ui.busy, ui'.told = ui.told
  PROVE  PagesInv'
  <1>1. ServerShape' /\ CacheFresh' /\ LoadInv'
    BY DEF PagesInv, ServerShape, CacheFresh, LoadInv, server
  <1>2. \A d \in DOMAIN calls' : h[d] \in DOMAIN calls /\ calls'[d] = calls[h[d]]
    BY DEF Leaves
  <1>3. CallShape'
    BY <1>2, ZenonT(60) DEF PagesInv, CallShape, Settled
  <1>4. ReconInv'
    BY <1>2 DEF PagesInv, ReconInv, Read, At, server
  <1>5. FormInv'
    BY FormKept DEF NoForms
  <1>6. QED
    BY <1>1, <1>3, <1>4, <1>5 DEF PagesInv

LEMMA RowsLess ==
  ASSUME PagesInv, NEW c, NEW h, NEW x, Leaves(h, c, x), \A d \in DOMAIN calls' : h[d] # 0,
         UNCHANGED <<server, doubled>>,
         ui'.page = ui.page, ui'.since = ui.since, ui'.loading = ui.loading,
         ui'.rows = ui.rows, ui'.offset = ui.offset, ui'.hasMore = ui.hasMore
  PROVE  RowsInv'
  <1>1. \A d \in DOMAIN calls' : h[d] \in DOMAIN calls /\ calls'[d] = calls[h[d]]
    BY DEF Leaves
  <1>2. \A d \in DOMAIN calls' : IsTxns(d)' <=> IsTxns(h[d])
    BY <1>1 DEF IsTxns
  <1>3. \A d, e \in DOMAIN calls' : h[d] = h[e] => d = e
    BY DEF Leaves
  <1>4. QED
    BY <1>1, <1>2, <1>3 DEF PagesInv, RowsInv, server

\* The page asked for begins where the rows end: appended, it continues them.
LEMMA MoreKeeps ==
  ASSUME PagesInv, NEW c \in DOMAIN calls, MoreAnswered(c)
  PROVE  PagesInv'
  <1>1. /\ calls \in Seq(CallType) /\ calls[c].arg \in Int
        /\ moved \in Nat /\ ui.since \in 0..moved /\ made \in Nat
    BY Shapes DEF PagesInv, CallShape
  <1>2. /\ IsTxns(c) /\ Settled(c) /\ ~ui.loading /\ Handle(c, <<>>)
        /\ UNCHANGED <<server, doubled, faults, last>>
    BY DEF MoreAnswered, IsTxns
  <1>3. ui.page = "wallet"
    BY <1>2, SettledCall, WalletCalls DEF IsTxns
  <1>4. calls' \in Seq(CallType) /\ made' \in Nat
    BY <1>1, <1>2, HandleCalls DEF Handle
  <1>5. PICK h : Leaves(h, c, 0) /\ \A d \in DOMAIN calls' : h[d] # 0
    BY <1>1, <1>2, HandleCalls, Zenon
  <1>6. \A d \in DOMAIN calls' :
           h[d] \in DOMAIN calls /\ h[d] # c /\ calls'[d] = calls[h[d]]
    BY <1>5 DEF Leaves
  <1>7. CASE calls[c].pc = "failed"
    <2>1. ui' = ui
      BY <1>7 DEF MoreAnswered
    <2>2. ScreenShape' /\ DetailInv' /\ RowsInv'
      BY <1>2, <1>5, <1>6, <2>1, RowsLess
      DEF PagesInv, ScreenShape, DetailInv, ShowsDetail, server
    <2>3. QED
      BY <1>2, <1>4, <1>5, <2>1, <2>2, LessCalls
  <1>8. CASE calls[c].pc # "failed"
    <2> DEFINE arg == calls[c].arg
               val == calls[c].val
               more == History(arg, val)
    <2>1. calls[c].pc = "ok"
      BY <1>2, <1>8 DEF Settled, Settles, PagesInv, CallShape, IsTxns
    <2>2. PICK k \in Nat : arg = k * Limit
      BY <1>2, <1>3 DEF PagesInv, RowsInv
    <2>3. val \in ui.since..moved /\ val \in Nat
      BY <1>1, <1>2, <1>3, <2>1 DEF PagesInv, RowsInv
    <2> DEFINE older == val - arg
               m == IF older > Limit THEN Limit ELSE IF older < 0 THEN 0 ELSE older
    <2>4. /\ more = [i \in 1..m |-> older - i + 1] /\ more \in Seq(Int) /\ Len(more) = m
          /\ m \in Nat /\ arg \in Nat
      <3>1. LET o == val - k * Limit
                n == IF o > Limit THEN Limit ELSE IF o < 0 THEN 0 ELSE o
            IN  /\ History(k * Limit, val) = [i \in 1..n |-> o - i + 1]
                /\ History(k * Limit, val) \in Seq(Int) /\ Len(History(k * Limit, val)) = n
                /\ n \in Nat
        BY <2>3, HistoryPage
      <3>2. arg \in Nat
        BY <2>2, Multiple
      <3> HIDE DEF arg, val
      <3>3. QED
        BY <2>2, <3>1, <3>2
    <2>5. ui' = [ui EXCEPT !.rows = @ \o more, !.offset = arg, !.hasMore = Len(more) = Limit]
      BY <1>8 DEF MoreAnswered
    <2> HIDE DEF more
    <2>6. ScreenShape /\ ui.rows \in Seq(Int)
      BY DEF PagesInv, ScreenShape
    <2>7. /\ ui'.page = ui.page /\ ui'.since = ui.since /\ ui'.recon = ui.recon
          /\ ui'.loading = ui.loading /\ ui'.busy = ui.busy /\ ui'.told = ui.told
          /\ ui'.detail = ui.detail /\ ui'.asked = ui.asked
          /\ ui'.rows = ui.rows \o more /\ ui'.offset = arg /\ ui'.hasMore = (m = Limit)
      BY <2>4, <2>5, <2>6 DEF ScreenShape
    <2>8. ScreenShape'
      <3>1. ui.rows \o more \in Seq(Int) /\ (Len(more) = Limit) \in BOOLEAN /\ arg \in Nat
        BY <2>4, <2>6
      <3> HIDE DEF arg
      <3>2. QED
        BY <1>2, <2>5, <2>6, <3>1 DEF ScreenShape, server
    <2>9. DetailInv'
      BY <1>2, <1>6, <2>7 DEF PagesInv, DetailInv, ShowsDetail
    <2>10. RowsInv'
      <3>1. \A d \in DOMAIN calls' : IsTxns(d)' <=> IsTxns(h[d])
        BY <1>6 DEF IsTxns
      <3>2. "txns" \notin doubled => \A d \in DOMAIN calls' : ~IsTxns(d)'
        BY <1>2, <1>3, <1>6, <3>1 DEF PagesInv, RowsInv
      <3>3. \A d \in DOMAIN calls' : IsTxns(d)' =>
               /\ calls'[d].pc = "ok" => calls'[d].val \in ui.since..moved
               /\ \E j \in Nat : calls'[d].arg = j * Limit
        BY <1>3, <1>6, <3>1 DEF PagesInv, RowsInv
      <3>4. ASSUME "txns" \notin doubled, moved = ui.since
            PROVE  /\ ui'.rows = [i \in 1..Len(ui'.rows) |-> moved - i + 1]
                   /\ IF ui'.hasMore
                      THEN ui'.rows # <<>> =>
                              Len(ui'.rows) = ui'.offset + Limit /\ Len(ui'.rows) <= moved
                      ELSE Len(ui'.rows) = moved
        <4>1. val = moved
          BY <1>1, <2>3, <3>4
        <4>2. ui.hasMore /\ ui.rows # <<>> /\ arg = ui.offset + Limit
          BY <1>2, <1>3, <3>4 DEF PagesInv, RowsInv
        <4>3. /\ ui.rows = [i \in 1..Len(ui.rows) |-> moved - i + 1]
              /\ Len(ui.rows) = arg /\ arg <= moved
          BY <1>3, <3>4, <4>2 DEF PagesInv, RowsInv
        <4>4. older \in Nat /\ older = moved - arg /\ Limit \in Nat
          <5>1. arg \in Nat /\ older = moved - arg
            BY <2>4, <4>1
          <5> HIDE DEF older, arg
          <5>2. QED
            BY <1>1, <4>3, <5>1, WalletPagesAssumption
        <4> HIDE DEF older, arg
        <4>5. ui'.rows \in Seq(Int) /\ Len(ui'.rows) = arg + m
          BY <2>4, <2>6, <2>7, <4>3
        <4>6. ASSUME NEW i \in 1..arg + m PROVE ui'.rows[i] = moved - i + 1
          <5>1. CASE i <= arg
            BY <2>4, <2>6, <2>7, <4>3, <5>1
          <5>2. CASE i > arg
            <6>1. ui'.rows[i] = more[i - arg] /\ i - arg \in 1..m
              <7>1. i - arg \in 1..m
                BY <2>4, <5>2
              <7> HIDE DEF m
              <7>2. i \in 1..Len(ui.rows) + Len(more) /\ i > Len(ui.rows)
                BY <2>4, <4>3, <5>2
              <7>3. (ui.rows \o more)[i] = more[i - Len(ui.rows)]
                BY <2>4, <2>6, <7>2
              <7>4. QED
                BY <2>7, <4>3, <7>1, <7>3
            <6> HIDE DEF m
            <6>2. more[i - arg] = older - (i - arg) + 1
              BY <2>4, <6>1
            <6>3. QED
              BY <1>1, <2>4, <4>4, <6>1, <6>2
          <5>3. QED
            BY <2>4, <5>1, <5>2
        <4>7. ui'.rows = [i \in 1..Len(ui'.rows) |-> moved - i + 1]
          BY <4>5, <4>6
        <4>8. QED
          <5>1. m = Limit => arg + m <= moved
            BY <1>1, <2>4, <4>4
          <5>2. m # Limit => arg + m = moved
            BY <1>1, <2>4, <4>4
          <5> HIDE DEF m
          <5>3. QED
            BY <2>7, <4>5, <4>7, <5>1, <5>2
      <3>5. \E j \in Nat : ui'.offset = j * Limit
        BY <2>2, <2>7
      <3>6. QED
        BY <1>2, <1>3, <2>7, <3>2, <3>3, <3>4, <3>5 DEF RowsInv, server
    <2>11. QED
      BY <1>2, <1>4, <1>5, <2>7, <2>8, <2>9, <2>10, LessCalls
  <1>9. QED
    BY <1>7, <1>8

LEMMA DetailKeeps ==
  ASSUME PagesInv, NEW c \in DOMAIN calls, DetailAnswered(c)
  PROVE  PagesInv'
  <1>1. calls \in Seq(CallType) /\ calls[c].val \in Int /\ made \in Nat /\ ScreenShape
    BY Shapes DEF PagesInv, CallShape
  <1>2. /\ calls[c].kind = "detail" /\ Settled(c) /\ Handle(c, <<>>)
        /\ ui' = [ui EXCEPT !.detail = IF calls[c].pc = "ok" THEN calls[c].val ELSE @]
        /\ UNCHANGED <<server, doubled, faults, last>>
    BY DEF DetailAnswered
  <1>3. calls[c].live /\ ui.page = "wallet" /\ ~ui.loading
    BY <1>2, SettledCall, WalletCalls DEF PagesInv, LoadInv
  <1>4. calls' \in Seq(CallType) /\ made' \in Nat
    BY <1>1, <1>2, HandleCalls DEF Handle
  <1>5. PICK h : Leaves(h, c, 0) /\ \A d \in DOMAIN calls' : h[d] # 0
    BY <1>1, <1>2, HandleCalls, Zenon
  <1>6. \A d \in DOMAIN calls' : h[d] \in DOMAIN calls /\ calls'[d] = calls[h[d]]
    BY <1>5 DEF Leaves
  <1> DEFINE Detail == IF calls[c].pc = "ok" THEN calls[c].val ELSE ui.detail
  <1>7. ui' = [ui EXCEPT !.detail = Detail] /\ Detail \in Int
    BY <1>1, <1>2 DEF ScreenShape
  <1>8. Detail # None => Detail = ui.asked \/ "detail" \in doubled
    BY <1>2, <1>3 DEF PagesInv, DetailInv, ShowsDetail
  <1> HIDE DEF Detail
  <1>9. /\ ui'.page = ui.page /\ ui'.since = ui.since /\ ui'.recon = ui.recon
        /\ ui'.loading = ui.loading /\ ui'.busy = ui.busy /\ ui'.told = ui.told
        /\ ui'.rows = ui.rows /\ ui'.offset = ui.offset /\ ui'.hasMore = ui.hasMore
        /\ ui'.asked = ui.asked /\ ui'.detail = Detail
    BY <1>1, <1>7 DEF ScreenShape
  <1>10. ScreenShape'
    BY <1>1, <1>2, <1>7 DEF ScreenShape, server
  <1>11. DetailInv'
    BY <1>2, <1>6, <1>8, <1>9 DEF PagesInv, DetailInv, ShowsDetail
  <1>12. RowsInv'
    BY <1>2, <1>5, <1>9, RowsLess
  <1>13. QED
    BY <1>2, <1>3, <1>4, <1>5, <1>9, <1>10, <1>11, <1>12, LessCalls

\* When no call is live, what is left is on the screen.
LEMMA NoneLive ==
  ASSUME PagesInv, calls' \in Seq(CallType), UNCHANGED <<server, made, doubled, faults, last>>,
         \A d \in DOMAIN calls' :
            ~calls'[d].live /\ \E c \in DOMAIN calls : calls'[d] = calls[c],
         ScreenShape', ~ui'.loading, RowsInv', ui'.recon = "off" => moved > ui.since,
         ui'.since = ui.since, ui'.busy = ui.busy, ui'.told = ui.told,
         ui'.asked = ui.asked, ui'.detail = ui.detail
  PROVE  PagesInv'
  <1>1. ServerShape' /\ CacheFresh' /\ LoadInv'
    BY DEF PagesInv, ServerShape, CacheFresh, LoadInv, server
  <1>2. CallShape'
    BY DEF PagesInv, CallShape, Settled
  <1>3. ReconInv' /\ DetailInv'
    BY DEF PagesInv, ReconInv, DetailInv, Read, ShowsDetail, server
  <1>4. FormInv'
    BY DEF PagesInv, FormInv, IsForm
  <1>5. QED
    BY <1>1, <1>2, <1>3, <1>4 DEF PagesInv

\* The first page of the history, with the badge that came with it.
LEMMA LoadKeeps ==
  ASSUME PagesInv, LoadSettles
  PROVE  PagesInv'
  <1> DEFINE Of(kind) == CHOOSE a \in {calls[c] : c \in DOMAIN calls} : a.live /\ a.kind = kind
             txns == Of("txns")
             view == Of("view")
             recon == Of("recon")
             first == History(0, txns.val)
             came == txns.pc = "ok"
             Balance == IF view.pc = "ok" THEN view.val ELSE None
             Rows == IF came THEN first ELSE <<>>
             More == ~came \/ Len(first) = Limit
             Recon == IF recon.pc = "failed" THEN "none" ELSE recon.pc
             dead == {a \in Range(calls) : ~a.live}
  <1>1. /\ ui.page = "wallet" /\ ui.loading
        /\ \A c \in DOMAIN calls : calls[c].live => Settled(c)
        /\ ui' = [ui EXCEPT !.loading = FALSE, !.balance = Balance, !.rows = Rows,
                            !.hasMore = More, !.recon = Recon]
        /\ calls' = Among(calls, dead)
        /\ UNCHANGED <<server, made, doubled, faults, last>>
    BY DEF LoadSettles
  <1>2. calls \in Seq(CallType) /\ moved \in Nat /\ ui.since \in 0..moved /\ ScreenShape
    BY Shapes DEF PagesInv, CallShape
  <1>3. ASSUME NEW kind \in {"view", "txns", "recon"}
        PROVE  \E c \in DOMAIN calls : Of(kind) = calls[c] /\ calls[c].live /\ calls[c].kind = kind
    <2>1. PICK c \in DOMAIN calls : calls[c].live /\ calls[c].kind = kind
      BY <1>1 DEF PagesInv, LoadInv
    <2>2. \E a \in {calls[d] : d \in DOMAIN calls} : a.live /\ a.kind = kind
      BY <2>1
    <2>3. Of(kind) \in {calls[d] : d \in DOMAIN calls} /\ Of(kind).live /\ Of(kind).kind = kind
      BY <2>2
    <2> HIDE DEF Of
    <2>4. QED
      BY <2>3
  <1> HIDE DEF Of
  <1>4. PICK t \in DOMAIN calls : txns = calls[t] /\ calls[t].live /\ calls[t].kind = "txns"
    BY <1>3
  <1>5. PICK v \in DOMAIN calls : view = calls[v]
    BY <1>3
  <1>6. PICK r \in DOMAIN calls : recon = calls[r] /\ calls[r].live /\ calls[r].kind = "recon"
    BY <1>3
  <1>7. calls' \in Seq(CallType \cap dead)
    <2> HIDE DEF dead
    <2>1. QED
      BY <1>1, <1>2, AmongSeq
  <1>8. \A d \in DOMAIN calls' : calls'[d] \in CallType \cap dead
    BY <1>7
  <1>9. calls' \in Seq(CallType)
    <2>1. CallType \cap dead \subseteq CallType
      OBVIOUS
    <2> HIDE DEF dead
    <2>2. QED
      BY <1>7, <2>1
  <1>10. \A d \in DOMAIN calls' :
            ~calls'[d].live /\ \E c \in DOMAIN calls : calls'[d] = calls[c]
    BY <1>8 DEF Range
  <1>11. Recon \in {"none", "ok", "off"} /\ (Recon = "off" => moved > ui.since)
    <2>1. recon.pc \in {"ok", "off", "failed"}
      BY <1>1, <1>6 DEF Settled, Settles
    <2>2. recon.pc = "off" => moved > ui.since
      BY <1>6 DEF PagesInv, ReconInv, Read, At
    <2>3. QED
      BY <2>1, <2>2
  <1>12. Balance \in Int
    BY <1>5, Shapes DEF None
  <1>13. came => txns.val \in ui.since..moved
    BY <1>1, <1>4 DEF PagesInv, RowsInv, IsTxns
  <1> DEFINE m == IF txns.val > Limit THEN Limit ELSE txns.val
  <1>14. came => /\ first = [i \in 1..m |-> txns.val - i + 1] /\ first \in Seq(Int)
                 /\ Len(first) = m /\ txns.val \in Nat
    <2> SUFFICES ASSUME came
                 PROVE  /\ first = [i \in 1..m |-> txns.val - i + 1] /\ first \in Seq(Int)
                        /\ Len(first) = m /\ txns.val \in Nat
      OBVIOUS
    <2>1. txns.val \in Nat
      BY <1>2, <1>13
    <2> HIDE DEF txns
    <2>2. 0 * Limit = 0 /\ Limit \in Nat /\ 0 \in Nat
      BY WalletPagesAssumption
    <2>3. LET o == txns.val - 0 * Limit
              n == IF o > Limit THEN Limit ELSE IF o < 0 THEN 0 ELSE o
          IN  /\ History(0 * Limit, txns.val) = [i \in 1..n |-> o - i + 1]
              /\ History(0 * Limit, txns.val) \in Seq(Int) /\ Len(History(0 * Limit, txns.val)) = n
      BY <2>1, <2>2, HistoryPage
    <2> DEFINE v1 == txns.val
    <2>4. v1 - 0 * Limit = v1 /\ ~(v1 < 0)
      BY <2>1, <2>2
    <2>5. /\ History(0 * Limit, v1) = [i \in 1..m |-> v1 - i + 1]
          /\ History(0 * Limit, v1) \in Seq(Int) /\ Len(History(0 * Limit, v1)) = m
      BY <2>3, <2>4
    <2>6. QED
      BY <2>1, <2>2, <2>5
  <1>15. Rows \in Seq(Int) /\ More \in BOOLEAN
    BY <1>14
  <1> HIDE DEF txns, view, recon, first, came, Balance, Rows, More, Recon, dead
  <1>16. /\ ui'.page = ui.page /\ ui'.since = ui.since /\ ui'.recon = Recon
         /\ ~ui'.loading /\ ui'.busy = ui.busy /\ ui'.told = ui.told
         /\ ui'.rows = Rows /\ ui'.offset = ui.offset /\ ui'.hasMore = More
         /\ ui'.asked = ui.asked /\ ui'.detail = ui.detail
    BY <1>1, <1>2 DEF ScreenShape
  <1>17. ScreenShape'
    BY <1>1, <1>2, <1>11, <1>12, <1>15 DEF ScreenShape, server
  <1>18. RowsInv'
    <2>1. \A d \in DOMAIN calls' : ~IsTxns(d)'
      BY <1>10 DEF IsTxns
    <2>2. ui.offset = 0 /\ \E k \in Nat : ui.offset = k * Limit
      BY <1>1 DEF PagesInv, RowsInv
    <2>3. ASSUME moved = ui.since
          PROVE  /\ Rows = [i \in 1..Len(Rows) |-> moved - i + 1]
                 /\ IF More THEN Rows # <<>> => Len(Rows) = 0 + Limit /\ Len(Rows) <= moved
                    ELSE Len(Rows) = moved
      <3>1. CASE came
        <4>1. txns.val = moved
          BY <1>2, <1>13, <2>3, <3>1
        <4>2. Rows = first /\ (More <=> Len(first) = Limit)
          BY <3>1 DEF Rows, More
        <4>3. Limit \in Nat
          BY WalletPagesAssumption
        <4>4. QED
          BY <1>2, <1>14, <3>1, <4>1, <4>2, <4>3
      <3>2. CASE ~came
        BY <3>2 DEF Rows, More
      <3>3. QED
        BY <3>1, <3>2
    <2>4. QED
      BY <1>1, <1>16, <2>1, <2>2, <2>3 DEF RowsInv, server
  <1>19. QED
    BY <1>1, <1>9, <1>10, <1>11, <1>16, <1>17, <1>18, NoneLive

-----------------------------------------------------------------------------
(* What the user does.                                                     *)

\* The calls of a page just opened.
LEMMA MountCalls ==
  ASSUME NEW page \in Pages
  PROVE  /\ OnMount(page) \in Seq(CallType)
         /\ \A i \in 1..Len(OnMount(page)) :
               /\ OnMount(page)[i].page = page /\ OnMount(page)[i].live
               /\ OnMount(page)[i].pc = "sent" /\ OnMount(page)[i].arg = 0
               /\ <<page, OnMount(page)[i].kind>> \in Belongs
               /\ OnMount(page)[i].kind \in {"view", "txns", "recon", "list"}
         /\ page = "wallet" =>
               /\ Len(OnMount(page)) = 3 /\ OnMount(page)[1].kind = "view"
               /\ OnMount(page)[2].kind = "txns" /\ OnMount(page)[3].kind = "recon"
  <1>1. CASE page = "wallet"
    <2>1. OnMount(page) = <<Call(page, "view", 0), Call(page, "txns", 0), Call(page, "recon", 0)>>
      BY <1>1 DEF OnMount
    <2>2. \A kind \in {"view", "txns", "recon"} :
             /\ Call(page, kind, 0) \in CallType
             /\ <<page, kind>> \in Belongs
             /\ Call(page, kind, 0).page = page /\ Call(page, kind, 0).live
             /\ Call(page, kind, 0).pc = "sent" /\ Call(page, kind, 0).arg = 0
             /\ Call(page, kind, 0).kind = kind
      BY <1>1 DEF Call, CallType, Kinds, Stages, Belongs
    <2> HIDE DEF CallType
    <2>3. OnMount(page) \in Seq(CallType) /\ Len(OnMount(page)) = 3
      BY <2>1, <2>2
    <2>4. ASSUME NEW i \in 1..Len(OnMount(page))
          PROVE  \E kind \in {"view", "txns", "recon"} : OnMount(page)[i] = Call(page, kind, 0)
      <3>1. i \in {1, 2, 3}
        BY <2>3
      <3>2. QED
        BY <2>1, <3>1
    <2>5. QED
      BY <1>1, <2>1, <2>2, <2>3, <2>4
  <1>2. CASE page = "deposit"
    <2>1. OnMount(page) = <<>>
      BY <1>2 DEF OnMount
    <2>2. OnMount(page) \in Seq(CallType) /\ 1..Len(OnMount(page)) = {}
      BY <2>1
    <2>3. QED
      BY <1>2, <2>2
  <1>3. CASE page \in {"dashboard", "transfer", "card"}
    <2>1. OnMount(page) = <<Call(page, "list", 0)>>
      BY <1>3 DEF OnMount
    <2>2. /\ Call(page, "list", 0) \in CallType
          /\ <<page, "list">> \in Belongs
          /\ Call(page, "list", 0).page = page /\ Call(page, "list", 0).live
          /\ Call(page, "list", 0).pc = "sent" /\ Call(page, "list", 0).arg = 0
          /\ Call(page, "list", 0).kind = "list"
      BY <1>3 DEF Call, CallType, Kinds, Stages, Belongs
    <2> HIDE DEF CallType
    <2>3. OnMount(page) \in Seq(CallType) /\ Len(OnMount(page)) = 1
      BY <2>1, <2>2
    <2>4. QED
      BY <1>3, <2>1, <2>2, <2>3
  <1>4. QED
    BY <1>1, <1>2, <1>3 DEF Pages, Forms

\* Leaving a page leaves none of its calls alive.
LEMMA OpenKeeps ==
  ASSUME PagesInv, NEW page \in Pages, Open(page)
  PROVE  PagesInv'
  <1> DEFINE K == {a \in Range(calls) : a.kind \in Forms \cup {"view"} /\ a.pc \in {"sent", "loaded"}}
             left == Among(calls, K)
             dead == [c \in DOMAIN left |-> [left[c] EXCEPT !.live = FALSE]]
             new == OnMount(page)
  <1>1. /\ ui' = Blank(page) /\ doubled' = {} /\ calls' = dead \o new
        /\ made' = made + Len(new) /\ UNCHANGED <<server, faults>>
        /\ last' = [taken |-> FALSE, lost |-> FALSE, kind |-> "none"]
    BY DEF Open
  <1>2. calls \in Seq(CallType) /\ moved \in Nat
    BY Shapes DEF PagesInv, CallShape
  <1>3. left \in Seq(CallType \cap K)
    <2> HIDE DEF K
    <2>1. QED
      BY <1>2, AmongSeq
  <1>4. \A c \in DOMAIN left : left[c] \in CallType \cap K
    BY <1>3
  <1>5. \A c \in DOMAIN left :
           /\ <<left[c].page, left[c].kind>> \in Belongs
           /\ left[c].kind \in Forms \cup {"view"} /\ left[c].pc \in {"sent", "loaded"}
    <2>1. \A a \in Range(calls) : \E c \in DOMAIN calls : a = calls[c]
      BY DEF Range
    <2>2. \A a \in Range(calls) : <<a.page, a.kind>> \in Belongs
      BY <2>1 DEF PagesInv, CallShape
    <2>3. QED
      BY <1>4, <2>2
  <1>6. /\ dead \in Seq(CallType)
        /\ \A c \in DOMAIN dead :
              /\ <<dead[c].page, dead[c].kind>> \in Belongs
              /\ dead[c].kind \in Forms \cup {"view"} /\ dead[c].pc \in {"sent", "loaded"}
              /\ ~dead[c].live
    <2>1. \A a \in CallType :
             LET b == [a EXCEPT !.live = FALSE]
             IN  b \in CallType /\ ~b.live /\ b.page = a.page /\ b.kind = a.kind /\ b.pc = a.pc
      BY DEF CallType
    <2>2. \A c \in DOMAIN left : left[c] \in CallType
      BY <1>4
    <2>3. DOMAIN left = 1..Len(left) /\ Len(left) \in Nat
      BY <1>3
    <2> HIDE DEF left, CallType
    <2>4. dead \in Seq(CallType) /\ DOMAIN dead = DOMAIN left
      BY <2>1, <2>2, <2>3
    <2>5. QED
      BY <1>5, <2>1, <2>2, <2>4
  <1>7. new \in Seq(CallType)
    BY MountCalls
  <1>8. /\ \A i \in 1..Len(new) :
              /\ new[i].page = page /\ new[i].live
              /\ new[i].pc = "sent" /\ new[i].arg = 0
              /\ <<page, new[i].kind>> \in Belongs
              /\ new[i].kind \in {"view", "txns", "recon", "list"}
        /\ page = "wallet" =>
              /\ Len(new) = 3 /\ new[1].kind = "view"
              /\ new[2].kind = "txns" /\ new[3].kind = "recon"
    BY MountCalls
  <1> HIDE DEF dead, new
  <1>9. calls' \in Seq(CallType) /\ Len(calls') = Len(dead) + Len(new)
    BY <1>1, <1>6, <1>7
  <1>10. ASSUME NEW d \in DOMAIN calls'
        PROVE  IF d <= Len(dead) THEN d \in DOMAIN dead /\ calls'[d] = dead[d]
               ELSE d - Len(dead) \in 1..Len(new) /\ calls'[d] = new[d - Len(dead)]
    <2>1. d \in 1..Len(dead) + Len(new) /\ Len(dead) \in Nat /\ Len(new) \in Nat
      BY <1>6, <1>7, <1>9
    <2>2. d <= Len(dead) => d \in DOMAIN dead
      BY <1>6, <2>1
    <2>3. ~(d <= Len(dead)) => d - Len(dead) \in 1..Len(new)
      BY <1>7, <2>1
    <2>4. QED
      BY <1>1, <1>6, <1>7, <2>1, <2>2, <2>3
  <1>11. /\ ui'.page = page /\ ui'.recon = "none" /\ ui'.detail = None /\ ui'.told = "nothing"
         /\ ui'.busy = FALSE /\ ui'.rows = <<>> /\ ui'.hasMore = TRUE /\ ui'.offset = 0
         /\ ui'.since = moved /\ ScreenShape'
    BY <1>1, <1>2 DEF Blank, ScreenShape, server, None, Pages
  <1>12. ServerShape' /\ CacheFresh'
    BY <1>1, <1>7 DEF PagesInv, ServerShape, CacheFresh, server
  <1>13. ASSUME NEW d \in DOMAIN calls', calls'[d].live
         PROVE  /\ d - Len(dead) \in 1..Len(new) /\ calls'[d] = new[d - Len(dead)]
                /\ calls'[d].page = page /\ calls'[d].pc = "sent" /\ calls'[d].arg = 0
                /\ calls'[d].kind \in {"view", "txns", "recon", "list"}
                /\ <<page, calls'[d].kind>> \in Belongs
    <2>1. ~(d <= Len(dead))
      BY <1>6, <1>10, <1>13
    <2>2. QED
      BY <1>10, <1>8, <2>1
  <1>14. CallShape'
    <2>1. ASSUME NEW d \in DOMAIN calls'
          PROVE  /\ <<calls'[d].page, calls'[d].kind>> \in Belongs
                 /\ calls'[d].pc = "off" => calls'[d].kind = "recon"
                 /\ IF calls'[d].live THEN calls'[d].page = page
                    ELSE calls'[d].kind \in Forms \cup {"view"} /\ ~Settles(calls'[d].pc)
      <3>1. CASE calls'[d].live
        BY <1>13, <3>1
      <3>2. CASE ~calls'[d].live
        <4>1. d <= Len(dead)
          <5>1. d - Len(dead) \in 1..Len(new) => new[d - Len(dead)].live
            BY <1>8
          <5>2. QED
            BY <1>10, <3>2, <5>1
        <4>2. QED
          BY <1>6, <1>10, <3>2, <4>1 DEF Settles
      <3>3. QED
        BY <3>1, <3>2
    <2>2. QED
      BY <1>9, <1>11, <2>1 DEF CallShape, Settled
  <1>15. ReconInv' /\ DetailInv'
    BY <1>11, <1>13 DEF ReconInv, DetailInv, Read, At, ShowsDetail
  <1>16. LoadInv'
    <2> SUFFICES ASSUME page = "wallet"
                 PROVE  /\ \A d \in DOMAIN calls' :
                              calls'[d].live => calls'[d].kind \in {"view", "txns", "recon"}
                        /\ \A kind \in {"view", "txns", "recon"} :
                              \E d \in DOMAIN calls' : calls'[d].live /\ calls'[d].kind = kind
      BY <1>11 DEF LoadInv
    <2>1. \A i \in 1..3 : /\ Len(dead) + i \in DOMAIN calls'
                          /\ calls'[Len(dead) + i] = new[i] /\ i \in 1..Len(new)
      <3>1. Len(new) = 3 /\ Len(dead) \in Nat
        BY <1>6, <1>8
      <3>2. QED
        BY <1>1, <1>6, <1>7, <1>9, <3>1
    <2>2. /\ new[1].kind = "view" /\ new[2].kind = "txns" /\ new[3].kind = "recon"
          /\ new[1].live /\ new[2].live /\ new[3].live
      <3>1. 1 \in 1..Len(new) /\ 2 \in 1..Len(new) /\ 3 \in 1..Len(new)
        BY <2>1
      <3>2. QED
        BY <1>8, <3>1
    <2>3. \A kind \in {"view", "txns", "recon"} :
             \E d \in DOMAIN calls' : calls'[d].live /\ calls'[d].kind = kind
      <3>1. \A i \in 1..3 : \E d \in DOMAIN calls' : calls'[d] = new[i]
        BY <2>1
      <3>2. /\ \E d \in DOMAIN calls' : calls'[d] = new[1]
            /\ \E d \in DOMAIN calls' : calls'[d] = new[2]
            /\ \E d \in DOMAIN calls' : calls'[d] = new[3]
        BY <3>1
      <3>3. QED
        BY <2>2, <3>2
    <2>4. ASSUME NEW d \in DOMAIN calls', calls'[d].live
          PROVE  calls'[d].kind \in {"view", "txns", "recon"}
      BY <1>13, <2>4, WalletCalls
    <2>5. QED
      BY <2>3, <2>4
  <1>17. RowsInv'
    <2> SUFFICES ASSUME page = "wallet" PROVE RowsInv'
      BY <1>11 DEF RowsInv
    <2>1. \A d \in DOMAIN calls' : IsTxns(d)' =>
             calls'[d].pc = "sent" /\ calls'[d].arg = 0 /\ d - Len(dead) = 2
      <3> SUFFICES ASSUME NEW d \in DOMAIN calls', IsTxns(d)'
                   PROVE  calls'[d].pc = "sent" /\ calls'[d].arg = 0 /\ d - Len(dead) = 2
        OBVIOUS
      <3>1. calls'[d].live /\ calls'[d].kind = "txns"
        BY DEF IsTxns
      <3>2. d - Len(dead) \in 1..3 /\ calls'[d] = new[d - Len(dead)]
        BY <1>8, <1>13, <3>1
      <3>3. d - Len(dead) \in {1, 2, 3}
        BY <3>2
      <3>4. QED
        BY <1>8, <1>13, <3>1, <3>2, <3>3, ZenonT(60)
    <2>2. \A d, e \in DOMAIN calls' : IsTxns(d)' /\ IsTxns(e)' => d = e
      BY <1>6, <1>9, <2>1
    <2>3. ui'.rows = [i \in 1..Len(ui'.rows) |-> moved' - i + 1]
      BY <1>11
    <2>4. 0 = 0 * Limit
      BY WalletPagesAssumption
    <2>5. ui'.loading
      BY <1>1 DEF Blank
    <2>6. QED
      BY <1>1, <1>11, <2>1, <2>2, <2>3, <2>4, <2>5, SMTT(60) DEF RowsInv, server
  <1>18. FormInv'
    <2>1. \A d \in DOMAIN calls' : ~IsForm(d)'
      BY <1>13 DEF IsForm, Forms
    <2>2. QED
      BY <1>11, <2>1 DEF FormInv
  <1>19. QED
    BY <1>11, <1>12, <1>14, <1>15, <1>16, <1>17, <1>18 DEF PagesInv

\* A call is made from the page on the screen.
LEMMA MoreCalls ==
  ASSUME PagesInv, NEW h, NEW c, NEW x, Leaves(h, c, x), calls' \in Seq(CallType),
         <<x.page, x.kind>> \in Belongs, x.live, x.page = "wallet", x.pc = "sent",
         ui.page = "wallet", ~ui.loading, UNCHANGED <<server, faults, last>>, made' \in Nat,
         ScreenShape', RowsInv', DetailInv',
         x.kind \in {"txns", "detail"},
         ui'.page = ui.page, ui'.since = ui.since, ui'.recon = ui.recon,
         ui'.loading = ui.loading, ui'.busy = ui.busy, ui'.told = ui.told
  PROVE  PagesInv'
  <1>1. ServerShape' /\ CacheFresh' /\ LoadInv'
    BY DEF PagesInv, ServerShape, CacheFresh, LoadInv, server
  <1>2. \A d \in DOMAIN calls' :
           IF h[d] = 0 THEN calls'[d] = x ELSE h[d] \in DOMAIN calls /\ calls'[d] = calls[h[d]]
    BY DEF Leaves
  <1>3. CallShape'
    BY <1>2, ZenonT(60) DEF PagesInv, CallShape, Settled
  <1>4. ReconInv'
    BY <1>2 DEF PagesInv, ReconInv, Read, At, server
  <1>5. FormInv'
    BY FormKept DEF NoForms, Forms
  <1>6. QED
    BY <1>1, <1>3, <1>4, <1>5 DEF PagesInv

LEMMA LoadMoreKeeps ==
  ASSUME PagesInv, LoadMore
  PROVE  PagesInv'
  <1> DEFINE x == Call("wallet", "txns", ui.offset + Limit)
  <1>1. /\ ui.page = "wallet" /\ ~ui.loading /\ ui.rows # <<>> /\ ui.hasMore
        /\ made' = made + 1 /\ calls' = Append(calls, x)
        /\ UNCHANGED <<server, ui, faults, last>> /\ Twice("txns")
    BY DEF LoadMore, OffersMore, ShowsCard
  <1>2. calls \in Seq(CallType) /\ made \in Nat /\ ui.offset \in Nat
    BY Shapes DEF PagesInv, CallShape, ScreenShape
  <1>3. /\ x \in CallType /\ x.page = "wallet" /\ x.kind = "txns" /\ x.pc = "sent" /\ x.live
        /\ x.arg = ui.offset + Limit /\ <<"wallet", "txns">> \in Belongs
    <2>1. ui.offset + Limit \in Int
      BY <1>2, WalletPagesAssumption
    <2>2. QED
      BY <2>1 DEF Call, CallType, Kinds, Stages, Pages, Belongs
  <1> HIDE DEF x
  <1> DEFINE c == Len(calls) + 1
  <1>4. c \notin DOMAIN calls \cup {0}
    BY <1>2
  <1> HIDE DEF c
  <1>5. calls' \in Seq(CallType)
    BY <1>1, <1>2, <1>3, <1>4, AppendCalls
  <1>6. PICK h : Leaves(h, c, x)
    BY <1>1, <1>2, <1>3, <1>4, AppendCalls, Zenon
  <1>7. \A d \in DOMAIN calls' :
           IF h[d] = 0 THEN calls'[d] = x ELSE h[d] \in DOMAIN calls /\ calls'[d] = calls[h[d]]
    BY <1>6 DEF Leaves
  <1>8. \A d, e \in DOMAIN calls' : h[d] = h[e] => d = e
    BY <1>6 DEF Leaves
  <1>9. /\ doubled \subseteq doubled'
        /\ "txns" \notin doubled' => \A d \in DOMAIN calls : ~IsTxns(d)
        /\ "detail" \notin doubled' => "detail" \notin doubled
        /\ "detail" \in doubled => "detail" \in doubled'
    BY <1>1 DEF Twice, IsTxns
  <1>10. RowsInv'
    <2>1. \A d \in DOMAIN calls' : h[d] # 0 => (IsTxns(d)' <=> IsTxns(h[d]))
      BY <1>7 DEF IsTxns
    <2>2. "txns" \notin doubled' => \A d \in DOMAIN calls' : IsTxns(d)' => h[d] = 0
      BY <1>7, <1>9, <2>1
    <2>3. ASSUME NEW d \in DOMAIN calls', IsTxns(d)'
          PROVE  /\ calls'[d].pc = "ok" => calls'[d].val \in ui.since..moved
                 /\ \E k \in Nat : calls'[d].arg = k * Limit
      <3>1. CASE h[d] = 0
        <4>1. PICK k \in Nat : ui.offset = k * Limit
          BY <1>1 DEF PagesInv, RowsInv
        <4>2. k + 1 \in Nat /\ ui.offset + Limit = (k + 1) * Limit
          BY <4>1, Multiple
        <4>3. calls'[d].arg = (k + 1) * Limit /\ calls'[d].pc = "sent"
          BY <1>3, <1>7, <3>1, <4>2
        <4>4. QED
          BY <4>2, <4>3
      <3>2. CASE h[d] # 0
        BY <1>1, <1>7, <2>1, <2>3, <3>2 DEF PagesInv, RowsInv
      <3>3. QED
        BY <3>1, <3>2
    <2>4. "txns" \notin doubled' =>
             /\ \A d, e \in DOMAIN calls' : IsTxns(d)' /\ IsTxns(e)' => d = e
             /\ \A d \in DOMAIN calls' : IsTxns(d)' => calls'[d].arg = ui.offset + Limit
      BY <1>3, <1>7, <1>8, <2>2
    <2>5. /\ \E k \in Nat : ui.offset = k * Limit
          /\ "txns" \notin doubled' /\ moved = ui.since =>
                /\ ui.rows = [i \in 1..Len(ui.rows) |-> moved - i + 1]
                /\ IF ui.hasMore
                   THEN ui.rows # <<>> => Len(ui.rows) = ui.offset + Limit /\ Len(ui.rows) <= moved
                   ELSE Len(ui.rows) = moved
      BY <1>1, <1>9 DEF PagesInv, RowsInv
    <2>6. QED
      BY <1>1, <2>3, <2>4, <2>5 DEF RowsInv, server
  <1>11. DetailInv'
    BY <1>1, <1>3, <1>7, <1>9 DEF PagesInv, DetailInv, ShowsDetail
  <1>12. ScreenShape' /\ made' \in Nat
    BY <1>1, <1>2 DEF PagesInv, ScreenShape, server
  <1>13. QED
    BY <1>1, <1>3, <1>5, <1>6, <1>10, <1>11, <1>12, MoreCalls

LEMMA OpenDetailKeeps ==
  ASSUME PagesInv, NEW m \in Range(ui.rows), OpenDetail(m)
  PROVE  PagesInv'
  <1> DEFINE x == Call("wallet", "detail", m)
  <1>1. /\ ui.page = "wallet" /\ ~ui.loading
        /\ ui' = [ui EXCEPT !.detail = None, !.asked = m]
        /\ made' = made + 1 /\ calls' = Append(calls, x)
        /\ UNCHANGED <<server, faults, last>> /\ Twice("detail")
    BY DEF OpenDetail, ShowsCard
  <1>2. calls \in Seq(CallType) /\ made \in Nat /\ ui.rows \in Seq(Int) /\ ScreenShape
    BY Shapes DEF PagesInv, CallShape, ScreenShape
  <1>3. m \in Int
    BY <1>2 DEF Range
  <1>4. /\ x \in CallType /\ x.page = "wallet" /\ x.kind = "detail" /\ x.pc = "sent" /\ x.live
        /\ x.arg = m /\ <<"wallet", "detail">> \in Belongs
    BY <1>3 DEF Call, CallType, Kinds, Stages, Pages, Belongs
  <1> HIDE DEF x
  <1> DEFINE c == Len(calls) + 1
  <1>5. c \notin DOMAIN calls \cup {0}
    BY <1>2
  <1> HIDE DEF c
  <1>6. calls' \in Seq(CallType)
    BY <1>1, <1>2, <1>4, <1>5, AppendCalls
  <1>7. PICK h : Leaves(h, c, x)
    BY <1>1, <1>2, <1>4, <1>5, AppendCalls, Zenon
  <1>8. \A d \in DOMAIN calls' :
           IF h[d] = 0 THEN calls'[d] = x ELSE h[d] \in DOMAIN calls /\ calls'[d] = calls[h[d]]
    BY <1>7 DEF Leaves
  <1>9. \A d, e \in DOMAIN calls' : h[d] = h[e] => d = e
    BY <1>7 DEF Leaves
  <1>10. /\ "txns" \in doubled' <=> "txns" \in doubled
         /\ "detail" \notin doubled' =>
               \A d \in DOMAIN calls : ~(calls[d].live /\ calls[d].kind = "detail")
    BY <1>1 DEF Twice
  <1>11. /\ ui'.page = ui.page /\ ui'.since = ui.since /\ ui'.recon = ui.recon
         /\ ui'.loading = ui.loading /\ ui'.busy = ui.busy /\ ui'.told = ui.told
         /\ ui'.rows = ui.rows /\ ui'.offset = ui.offset /\ ui'.hasMore = ui.hasMore
         /\ ui'.asked = m /\ ui'.detail = None
    BY <1>1, <1>2 DEF ScreenShape
  <1>12. ScreenShape' /\ made' \in Nat
    <2>1. None \in Int
      BY DEF None
    <2>2. ScreenShape'
      BY <1>1, <1>2, <1>3, <2>1 DEF ScreenShape, server
    <2>3. QED
      BY <1>1, <1>2, <2>2
  <1>13. \A d \in DOMAIN calls' : IsTxns(d)' => h[d] # 0 /\ IsTxns(h[d])
    BY <1>4, <1>8 DEF IsTxns
  <1>14. RowsInv'
    <2>1. \A d \in DOMAIN calls' : IsTxns(d)' =>
             h[d] \in DOMAIN calls /\ IsTxns(h[d]) /\ calls'[d] = calls[h[d]]
      BY <1>8, <1>13
    <2>2. QED
      BY <1>1, <1>9, <1>10, <1>11, <2>1, SMTT(60) DEF PagesInv, RowsInv, server
  <1>15. DetailInv'
    BY <1>4, <1>8, <1>10, <1>11 DEF PagesInv, DetailInv, ShowsDetail
  <1>16. QED
    BY <1>1, <1>4, <1>6, <1>7, <1>11, <1>12, <1>14, <1>15, MoreCalls

LEMMA CloseKeeps ==
  ASSUME PagesInv, CloseDetail
  PROVE  PagesInv'
  <1>1. /\ ui' = [ui EXCEPT !.detail = None] /\ ScreenShape
        /\ UNCHANGED <<server, doubled, calls, made, faults, last>>
    BY DEF CloseDetail, traffic, PagesInv
  <1>2. /\ ui'.page = ui.page /\ ui'.since = ui.since /\ ui'.recon = ui.recon
        /\ ui'.loading = ui.loading /\ ui'.busy = ui.busy /\ ui'.told = ui.told
        /\ ui'.rows = ui.rows /\ ui'.offset = ui.offset /\ ui'.hasMore = ui.hasMore
        /\ ui'.asked = ui.asked /\ ui'.detail = None
    BY <1>1 DEF ScreenShape
  <1>3. ScreenShape'
    BY <1>1 DEF ScreenShape, server, None
  <1>4. ServerShape' /\ CacheFresh' /\ LoadInv' /\ CallShape'
    BY <1>1, <1>2 DEF PagesInv, ServerShape, CacheFresh, LoadInv, CallShape, Settled, server
  <1>5. ReconInv' /\ DetailInv' /\ FormInv'
    BY <1>1, <1>2
    DEF PagesInv, ReconInv, DetailInv, FormInv, Read, At, ShowsDetail, IsForm, server
  <1>6. RowsInv'
    BY <1>1, <1>2 DEF PagesInv, RowsInv, IsTxns, server
  <1>7. QED
    BY <1>3, <1>4, <1>5, <1>6 DEF PagesInv

LEMMA SubmitKeeps ==
  ASSUME PagesInv, NEW kind \in Forms \cup {"create"}, Submit(kind)
  PROVE  PagesInv'
  <1> DEFINE x == Call(ui.page, kind, 0)
  <1>1. /\ ui' = [ui EXCEPT !.busy = TRUE, !.told = "nothing"]
        /\ made' = made + 1 /\ calls' = Append(calls, x)
        /\ UNCHANGED <<server, doubled, faults>>
        /\ last' = [taken |-> FALSE, lost |-> FALSE, kind |-> kind]
        /\ ~ui.busy /\ ui.page = IF kind = "create" THEN "dashboard" ELSE kind
    BY DEF Submit, Offers, OffersCreate, OffersTransfer, OffersCard, OffersDeposit, Forms
  <1>2. calls \in Seq(CallType) /\ made \in Nat /\ ScreenShape
    BY Shapes DEF PagesInv, CallShape
  <1>3. /\ x \in CallType /\ x.page = ui.page /\ x.kind = kind /\ x.pc = "sent" /\ x.live
        /\ <<ui.page, kind>> \in Belongs
    BY <1>1 DEF Call, CallType, Kinds, Stages, Pages, Belongs, Forms
  <1> HIDE DEF x
  <1> DEFINE c == Len(calls) + 1
  <1>4. c \notin DOMAIN calls \cup {0}
    BY <1>2
  <1> HIDE DEF c
  <1>5. calls' \in Seq(CallType)
    BY <1>1, <1>2, <1>3, <1>4, AppendCalls
  <1>6. PICK h : Leaves(h, c, x)
    BY <1>1, <1>2, <1>3, <1>4, AppendCalls, Zenon
  <1>7. \A d \in DOMAIN calls' :
           IF h[d] = 0 THEN calls'[d] = x ELSE h[d] \in DOMAIN calls /\ calls'[d] = calls[h[d]]
    BY <1>6 DEF Leaves
  <1>8. \A d, e \in DOMAIN calls' : h[d] = h[e] => d = e
    BY <1>6 DEF Leaves
  <1>9. /\ ui'.page = ui.page /\ ui'.since = ui.since /\ ui'.recon = ui.recon
        /\ ui'.busy = TRUE /\ ui'.told = "nothing" /\ ui'.asked = ui.asked
        /\ ui'.detail = ui.detail
    BY <1>1, <1>2 DEF ScreenShape
  <1>10. ScreenShape' /\ made' \in Nat
    <2>1. ScreenShape'
      BY <1>1, <1>2 DEF ScreenShape, server
    <2>2. QED
      BY <1>1, <1>2, <2>1
  <1>11. FormInv'
    <2>1. \A d \in DOMAIN calls : ~IsForm(d)
      BY <1>1 DEF PagesInv, FormInv
    <2>2. \A d \in DOMAIN calls' : IsForm(d)' => h[d] = 0 /\ calls'[d] = x
      BY <1>7, <2>1 DEF IsForm
    <2>3. kind # "relist"
      BY DEF Forms
    <2>4. last'.taken = FALSE /\ last'.kind = kind
      BY <1>1
    <2>5. QED
      BY <1>3, <1>8, <1>9, <2>2, <2>3, <2>4 DEF FormInv
  <1>12. /\ last' \in [taken : BOOLEAN, lost : BOOLEAN, kind : Kinds \cup {"none"}]
         /\ ui.page # "wallet"
    BY <1>1 DEF Kinds, Forms
  <1>13. QED
    BY <1>1, <1>3, <1>5, <1>6, <1>9, <1>10, <1>11, <1>12, OffWallet

LEMMA InvalidKeeps ==
  ASSUME PagesInv, NEW kind \in Forms \cup {"create"}, Invalid(kind)
  PROVE  PagesInv'
  <1>1. /\ ui' = [ui EXCEPT !.told = "error"] /\ ScreenShape /\ kind \in Forms /\ ~ui.busy
        /\ UNCHANGED <<server, doubled, calls, made, faults>>
        /\ last' = [taken |-> FALSE, lost |-> FALSE, kind |-> kind]
    BY DEF Invalid, Offers, traffic, PagesInv
  <1>2. /\ ui'.page = ui.page /\ ui'.since = ui.since /\ ui'.recon = ui.recon
        /\ ui'.loading = ui.loading /\ ui'.busy = ui.busy /\ ui'.told = "error"
        /\ ui'.rows = ui.rows /\ ui'.offset = ui.offset /\ ui'.hasMore = ui.hasMore
        /\ ui'.asked = ui.asked /\ ui'.detail = ui.detail
    BY <1>1 DEF ScreenShape
  <1>3. ScreenShape'
    BY <1>1 DEF ScreenShape, server
  <1>4. ServerShape'
    BY <1>1 DEF PagesInv, ServerShape, Kinds, server
  <1>5. CacheFresh' /\ LoadInv' /\ CallShape'
    BY <1>1, <1>2 DEF PagesInv, CacheFresh, LoadInv, CallShape, Settled, server
  <1>6. ReconInv' /\ DetailInv'
    BY <1>1, <1>2 DEF PagesInv, ReconInv, DetailInv, Read, At, ShowsDetail, server
  <1>7. RowsInv'
    BY <1>1, <1>2 DEF PagesInv, RowsInv, IsTxns, server
  <1>8. FormInv'
    <2>1. \A d \in DOMAIN calls : ~IsForm(d)
      BY <1>1 DEF PagesInv, FormInv
    <2>2. \A d \in DOMAIN calls' : ~IsForm(d)'
      BY <1>1, <2>1 DEF IsForm
    <2>3. ~last'.taken
      BY <1>1
    <2>4. QED
      BY <1>1, <1>2, <2>2, <2>3 DEF FormInv
  <1>9. QED
    BY <1>3, <1>4, <1>5, <1>6, <1>7, <1>8 DEF PagesInv

-----------------------------------------------------------------------------

LEMMA InitPages == Init => PagesInv
  <1> SUFFICES ASSUME Init PROVE PagesInv
    OBVIOUS
  <1>1. /\ moved = Start /\ Start \in Nat /\ calls = <<>> /\ doubled = {} /\ made = 0 /\ faults = 0
        /\ excused = FALSE /\ cache \in {None, Start} /\ ui = Blank("deposit")
        /\ last = [taken |-> FALSE, lost |-> FALSE, kind |-> "none"]
    BY WalletPagesAssumption DEF Init
  <1>2. ServerShape /\ CacheFresh
    <2>1. cache \in Int /\ (cache # None => cache = moved)
      BY <1>1 DEF None
    <2>2. CacheFresh
      BY <1>1, <2>1 DEF CacheFresh
    <2>3. QED
      BY <1>1, <2>1, <2>2 DEF ServerShape
  <1>3. /\ ui.page = "deposit" /\ ui.recon = "none" /\ ui.detail = None /\ ui.told = "nothing"
        /\ ui.busy = FALSE /\ ScreenShape
    BY <1>1 DEF Blank, ScreenShape, Pages, Forms, None
  <1>4. calls \in Seq(CallType) /\ DOMAIN calls = {}
    BY <1>1
  <1>5. QED
    BY <1>2, <1>3, <1>4
    DEF PagesInv, CallShape, ReconInv, LoadInv, RowsInv, DetailInv, FormInv, ShowsDetail

LEMMA NextPages == PagesInv /\ [Next]_vars => PagesInv'
  <1> SUFFICES ASSUME PagesInv, [Next]_vars PROVE PagesInv'
    OBVIOUS
  <1>1. CASE Serve
    <2>1. ASSUME NEW c \in DOMAIN calls,
                 \/ Get(c) \/ Put(c) \/ Reconcile(c) \/ ReconciledBalance(c) \/ Query(c)
                 \/ Find(c) \/ Create(c) \/ Pay(c) \/ PaymentAnswers(c)
          PROVE  PagesInv'
      BY <2>1, ReadKeeps, FormKeeps
    <2>2. QED
      BY <1>1, <2>1, MoneyKeeps DEF Serve
  <1>2. CASE Receive
    <2>1. ASSUME NEW c \in DOMAIN calls,
                 \/ MoreAnswered(c) \/ DetailAnswered(c) \/ Listed(c) \/ FallBack(c)
                 \/ FallbackAnswered(c) \/ TransferAnswered(c) \/ DepositAnswered(c)
                 \/ Created(c) \/ SubmitFailed(c) \/ Relisted(c)
          PROVE  PagesInv'
      BY <2>1, MoreKeeps, DetailKeeps, AnswerKeeps
    <2>2. QED
      BY <1>2, <2>1, LoadKeeps DEF Receive
  <1>3. CASE Use
    BY <1>3, OpenKeeps, LoadMoreKeeps, CloseKeeps, OpenDetailKeeps, SubmitKeeps, InvalidKeeps DEF Use
  <1>4. CASE UNCHANGED vars
    <2>1. /\ UNCHANGED <<screen, traffic, last>>
          /\ moved' = moved /\ cache' = cache /\ due' = due /\ excused' = excused
          /\ faults' = faults
      BY <1>4 DEF vars, server
    <2>2. CacheFresh'
      BY <2>1 DEF PagesInv, CacheFresh
    <2>3. QED
      BY <2>1, <2>2, ServerKeeps, Shapes
  <1>5. QED
    BY <1>1, <1>2, <1>3, <1>4, MoneyKeeps, FormKeeps DEF Next

LEMMA PagesAlways == Spec => []PagesInv
  BY InitPages, NextPages, PTL DEF Spec

\* A cached balance behind the wallet's own is accounted for: an eviction is still to come,
\* or one has failed, or a slow read has filled the cache (WalletService.get).
THEOREM CacheIsFresh == Spec => []CacheFresh
  <1>1. PagesInv => CacheFresh
    BY DEF PagesInv
  <1>2. QED
    BY <1>1, PagesAlways, PTL

\* "Out of sync" (WalletDetail) is never said of a ledger that is in order: the balance has
\* moved between the two reads of reconcile.
THEOREM OutOfSyncMeansMoved == Spec => []OutOfSyncOnlyIfMoved
  <1>1. PagesInv => OutOfSyncOnlyIfMoved
    BY DEF PagesInv, ReconInv, OutOfSyncOnlyIfMoved
  <1>2. QED
    BY <1>1, PagesAlways, PTL

\* Whatever the size of a page, the pages WalletDetail has loaded show the newest entries
\* of the ledger, each once, and all of them when it offers no more.
THEOREM RowsTile == Spec => []PagesTile
  <1>1. PagesInv => PagesTile
    BY DEF PagesInv, RowsInv, PagesTile
  <1>2. QED
    BY <1>1, PagesAlways, PTL

\* What the forms report is what has become of the payment (handleSubmit), and the details
\* on show are those that were asked for last.
THEOREM ReportsHold == Spec => []ReportsAreTrue
  <1>1. PagesInv => ReportsAreTrue
    BY DEF PagesInv, FormInv, DetailInv, ReportsAreTrue
  <1>2. QED
    BY <1>1, PagesAlways, PTL
=============================================================================
