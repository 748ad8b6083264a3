------------------------ MODULE TokenRegistryProofs ------------------------
(***************************************************************************)
(* Proofs about TokenRegistry, for any number of handlers, token strings,  *)
(* subjects and grants.                                                    *)
(***************************************************************************)
EXTENDS TokenRegistry, SequenceTheorems, TLAPS

\* The names of Once objects in use were allocated, and a name identifies the
\* token it was allocated for -- wherever copies of that token are.
OnceNames ==
    /\ bootAt <= allocated
    /\ \A t \in issued : t.claimed <= allocated
    /\ \A t, u \in issued : t.claimed = u.claimed => t = u
    /\ \A h \in Handlers : pc[h] = "add" =>
        /\ held[h] \in ScopedToken
        /\ held[h].claimed <= allocated
        /\ \A t \in issued : t.claimed # held[h].claimed
        /\ \A g \in Handlers \ {h} :
            pc[g] = "add" => held[g].claimed # held[h].claimed

\* The map holds only tokens that were handed out, under distinct strings.
Registered ==
    /\ byToken \subseteq issued
    /\ \A t, u \in byToken : t.Token = u.Token => t = u

\* A handler in the middle of a call works on a token that was handed out for
\* the string it was sent, or on a subject.
InFlight ==
    \A h \in Handlers :
        /\ pc[h] \in {"check", "once"} => held[h] \in issued /\ held[h].Token = arg[h]
        /\ pc[h] = "once" => checkedAt[h] <= held[h].expires /\ checkedAt[h] <= now
        /\ pc[h] = "generate" => arg[h] \in Subjects
        /\ pc[h] # "idle" => answer[h] = "none"

\* The Once objects that have run are those of the successful claims.
DoneAreClaims ==
    done = {claims[i].claimed : i \in 1..Len(claims)}

IInv == /\ TypeOK /\ OnceNames /\ Registered /\ InFlight /\ DoneAreClaims
        /\ SingleClaim /\ ClaimsFollowGrants /\ LiveGrantsRegistered
-----------------------------------------------------------------------------
USE LifespanAssumption

\* What a return of handler h leaves alone.
LEMMA ReturnFrame ==
    ASSUME LocalOK, NEW h \in Handlers, NEW a \in Answers, Return(h, a)
    PROVE  /\ LocalOK' /\ pc'[h] = "idle"
           /\ \A g \in Handlers \ {h} :
                /\ pc'[g] = pc[g] /\ arg'[g] = arg[g]
                /\ held'[g] = held[g] /\ checkedAt'[g] = checkedAt[g]
                /\ answer'[g] = answer[g]
<1> USE DEF LocalOK, Return
<1>1. pc' \in [Handlers -> Labels] /\ answer' \in [Handlers -> Answers]
  BY DEF Labels
<1>2. /\ arg' \in [Handlers -> TokenIDs \cup Subjects \cup {Nil}]
      /\ held' \in [Handlers -> ScopedToken \cup {Nil}]
  OBVIOUS
<1>3. checkedAt' \in [Handlers -> Nat]
  OBVIOUS
<1>4. pc'[h] = "idle"
  OBVIOUS
<1>5. \A g \in Handlers \ {h} :
        /\ pc'[g] = pc[g] /\ arg'[g] = arg[g]
        /\ held'[g] = held[g] /\ checkedAt'[g] = checkedAt[g]
        /\ answer'[g] = answer[g]
  OBVIOUS
<1> QED
  BY <1>1, <1>2, <1>3, <1>4, <1>5

\* What a step of handler h to another label leaves alone.
LEMMA GotoFrame ==
    ASSUME LocalOK, NEW h \in Handlers, NEW label \in Labels,
           NEW a \in TokenIDs \cup Subjects \cup {Nil},
           NEW t \in ScopedToken \cup {Nil}, NEW at \in Nat,
           Goto(h, label, a, t, at)
    PROVE  /\ LocalOK'
           /\ pc'[h] = label /\ arg'[h] = a /\ held'[h] = t /\ checkedAt'[h] = at
           /\ answer'[h] = "none"
           /\ \A g \in Handlers \ {h} :
                /\ pc'[g] = pc[g] /\ arg'[g] = arg[g]
                /\ held'[g] = held[g] /\ checkedAt'[g] = checkedAt[g]
                /\ answer'[g] = answer[g]
<1> USE DEF LocalOK, Goto
<1>1. pc' \in [Handlers -> Labels] /\ answer' \in [Handlers -> Answers]
  BY DEF Answers
<1>2. /\ arg' \in [Handlers -> TokenIDs \cup Subjects \cup {Nil}]
      /\ held' \in [Handlers -> ScopedToken \cup {Nil}]
  OBVIOUS
<1>3. checkedAt' \in [Handlers -> Nat]
  OBVIOUS
<1>4. /\ pc'[h] = label /\ arg'[h] = a /\ held'[h] = t /\ checkedAt'[h] = at
      /\ answer'[h] = "none"
  OBVIOUS
<1>5. \A g \in Handlers \ {h} :
        /\ pc'[g] = pc[g] /\ arg'[g] = arg[g]
        /\ held'[g] = held[g] /\ checkedAt'[g] = checkedAt[g]
        /\ answer'[g] = answer[g]
  OBVIOUS
<1> QED
  BY <1>1, <1>2, <1>3, <1>4, <1>5

\* A handler that returns drops its obligations and disturbs nobody else's.
LEMMA ReturnStep ==
    ASSUME LocalOK, OnceNames, InFlight, NEW h \in Handlers, NEW a \in Answers,
           Return(h, a), UNCHANGED <<now, allocated, bootAt, issued>>
    PROVE  LocalOK' /\ OnceNames' /\ InFlight'
<1>1. /\ LocalOK' /\ pc'[h] = "idle"
      /\ \A g \in Handlers \ {h} :
            /\ pc'[g] = pc[g] /\ arg'[g] = arg[g]
            /\ held'[g] = held[g] /\ checkedAt'[g] = checkedAt[g]
            /\ answer'[g] = answer[g]
  BY ReturnFrame
<1>2. OnceNames'
  BY <1>1 DEF OnceNames
<1>3. InFlight'
  BY <1>1 DEF InFlight
<1> QED
  BY <1>1, <1>2, <1>3

\* What a sequence looks like after one more claim.
LEMMA AppendClaim ==
    ASSUME NEW s \in Seq(Claim), NEW c \in Claim, NEW t, t = Append(s, c)
    PROVE  /\ t \in Seq(Claim)
           /\ Len(s) \in Nat /\ Len(t) = Len(s) + 1
           /\ \A i \in 1..Len(t) : \/ i \in 1..Len(s) /\ t[i] = s[i]
                                   \/ i = Len(s) + 1 /\ t[i] = c
           /\ {t[i].claimed : i \in 1..Len(t)}
                = {s[i].claimed : i \in 1..Len(s)} \cup {c.claimed}
<1>1. /\ t \in Seq(Claim) /\ Len(t) = Len(s) + 1
      /\ \A i \in 1..Len(s) : t[i] = s[i]
      /\ t[Len(s) + 1] = c
  BY AppendProperties
<1>2. Len(s) \in Nat
  BY LenProperties
<1>3. \A i : i \in 1..Len(t) <=> i \in 1..Len(s) \/ i = Len(s) + 1
  BY <1>1, <1>2
<1> QED
  BY <1>1, <1>2, <1>3

\* Initially nothing was granted, claimed or in flight.
LEMMA InitIInv == Init => IInv
<1> SUFFICES ASSUME Init PROVE IInv
  OBVIOUS
<1> USE DEF Init
<1>1. TypeOK
  BY DEF TypeOK, RegistryOK, LocalOK, HistoryOK, Answers, Labels
<1>2. OnceNames /\ Registered /\ InFlight /\ DoneAreClaims
  BY DEF OnceNames, Registered, InFlight, DoneAreClaims
<1>3. SingleClaim /\ ClaimsFollowGrants /\ LiveGrantsRegistered
  BY DEF SingleClaim, ClaimsFollowGrants, LiveGrantsRegistered
<1> QED
  BY <1>1, <1>2, <1>3 DEF IInv

\* A step of one handler that leaves the registry, the clock and the history
\* alone preserves what is said about those.
LEMMA LocalStep ==
    ASSUME IInv, UNCHANGED <<now, registry, history>>, LocalOK',
           OnceNames', InFlight'
    PROVE  IInv'
<1> USE DEF IInv, registry, history
<1>1. TypeOK'
  BY DEF TypeOK, RegistryOK, HistoryOK
<1>2. Registered' /\ DoneAreClaims' /\ SingleClaim' /\ ClaimsFollowGrants'
  BY DEF Registered, DoneAreClaims, SingleClaim, ClaimsFollowGrants
<1>3. LiveGrantsRegistered'
  BY DEF LiveGrantsRegistered, HasExpired
<1> QED
  BY <1>1, <1>2, <1>3

\* LookupToken gives the handler a copy of a token that was handed out.
LEMMA LookupTokenIInv ==
    ASSUME IInv, NEW h \in Handlers, NEW id \in TokenIDs, LookupToken(h, id)
    PROVE  IInv'
<1> USE DEF IInv, LookupToken, registry, history
<1>1. ASSUME NEW t \in byToken, t.Token = id, Goto(h, "check", id, t, 0)
      PROVE  LocalOK' /\ OnceNames' /\ InFlight'
  <2>1. t \in issued /\ t \in ScopedToken
    BY DEF Registered, TypeOK, HistoryOK
  <2>2. /\ LocalOK'
        /\ pc'[h] = "check" /\ answer'[h] = "none" /\ arg'[h] = id /\ held'[h] = t
        /\ \A g \in Handlers \ {h} :
                /\ pc'[g] = pc[g] /\ arg'[g] = arg[g]
                /\ held'[g] = held[g] /\ checkedAt'[g] = checkedAt[g]
                /\ answer'[g] = answer[g]
    BY <1>1, <2>1, GotoFrame DEF TypeOK, Labels
  <2> QED
    BY <1>1, <2>1, <2>2 DEF OnceNames, InFlight
<1>2. ASSUME Return(h, "unrecognized")
      PROVE  LocalOK' /\ OnceNames' /\ InFlight'
  BY <1>2, ReturnStep DEF TypeOK, Answers
<1>3. LocalOK' /\ OnceNames' /\ InFlight'
  BY <1>1, <1>2
<1> QED
  BY <1>3, LocalStep

\* The expiry check lets the handler go on only while its token has not expired.
LEMMA ClaimCheckIInv ==
    ASSUME IInv, NEW h \in Handlers, ClaimCheck(h)
    PROVE  IInv'
<1> USE DEF IInv, ClaimCheck, registry, history
<1>1. CASE Return(h, "expired")
  <2>1. LocalOK' /\ OnceNames' /\ InFlight'
    BY <1>1, ReturnStep DEF TypeOK, Answers
  <2> QED
    BY <2>1, LocalStep
<1>2. CASE ~HasExpired(held[h]) /\ Goto(h, "once", arg[h], held[h], now)
  <2>1. /\ held[h] \in issued /\ held[h] \in ScopedToken /\ held[h].Token = arg[h]
        /\ arg[h] \in TokenIDs \cup Subjects \cup {Nil}
        /\ now \in Nat /\ now <= held[h].expires
    BY <1>2 DEF InFlight, TypeOK, LocalOK, HistoryOK, HasExpired, ScopedToken
  <2>2. /\ LocalOK'
        /\ pc'[h] = "once" /\ answer'[h] = "none" /\ arg'[h] = arg[h] /\ held'[h] = held[h] /\ checkedAt'[h] = now
        /\ \A g \in Handlers \ {h} :
                /\ pc'[g] = pc[g] /\ arg'[g] = arg[g]
                /\ held'[g] = held[g] /\ checkedAt'[g] = checkedAt[g]
                /\ answer'[g] = answer[g]
    BY <1>2, <2>1, GotoFrame DEF TypeOK, Labels
  <2>3. OnceNames'
    BY <2>2 DEF OnceNames
  <2>4. InFlight'
    BY <2>1, <2>2 DEF InFlight
  <2> QED
    BY <2>2, <2>3, <2>4, LocalStep
<1> QED
  BY <1>1, <1>2

\* The Once lets one handler in: the new claim is the only one of its token.
LEMMA ClaimOnceIInv ==
    ASSUME IInv, NEW h \in Handlers, ClaimOnce(h)
    PROVE  IInv'
<1> USE DEF IInv, ClaimOnce
<1>0. /\ held[h] \in issued /\ held[h] \in ScopedToken
      /\ held[h].Token = arg[h] /\ checkedAt[h] <= held[h].expires
  BY DEF InFlight, TypeOK, HistoryOK
<1>1. CASE Return(h, "already claimed") /\ UNCHANGED <<done, claims>>
  <2>1. LocalOK' /\ OnceNames' /\ InFlight'
    BY <1>1, ReturnStep DEF TypeOK, Answers
  <2> QED
    BY <1>1, <2>1, LocalStep DEF registry, history
<1>2. CASE /\ held[h].claimed \notin done
           /\ done' = done \cup {held[h].claimed}
           /\ Admit(h)
  <2> DEFINE c == [presented |-> arg[h], Subject |-> held[h].Subject,
                   claimed |-> held[h].claimed, at |-> checkedAt[h]]
  <2>1. claims' = Append(claims, c) /\ Return(h, "subject")
    BY <1>2 DEF Admit
  <2>2. c \in Claim
    BY <1>0 DEF ScopedToken, TypeOK, LocalOK, Claim
  <2>3. claims \in Seq(Claim)
    BY DEF TypeOK, HistoryOK
  <2>4. c.claimed = held[h].claimed
    OBVIOUS
  <2>5. /\ held[h].Token = c.presented /\ held[h].Subject = c.Subject
        /\ c.at <= held[h].expires
    BY <1>0
  <2> HIDE DEF c
  <2>6. /\ claims' \in Seq(Claim)
        /\ Len(claims) \in Nat /\ Len(claims') = Len(claims) + 1
        /\ \A i \in 1..Len(claims') :
                \/ i \in 1..Len(claims) /\ claims'[i] = claims[i]
                \/ i = Len(claims) + 1 /\ claims'[i] = c
        /\ {claims'[i].claimed : i \in 1..Len(claims')}
                = {claims[i].claimed : i \in 1..Len(claims)} \cup {c.claimed}
    BY ONLY <2>1, <2>2, <2>3, AppendClaim
  <2>7. LocalOK' /\ OnceNames' /\ InFlight'
    BY <2>1, ReturnStep DEF TypeOK, Answers
  <2>8. TypeOK'
    BY <1>0, <1>2, <2>6, <2>7 DEF TypeOK, RegistryOK, HistoryOK, ScopedToken
  <2>9. DoneAreClaims'
    BY <1>2, <2>4, <2>6 DEF DoneAreClaims
  <2>10. SingleClaim'
    <3>1. \A i \in 1..Len(claims) : claims[i].claimed # c.claimed
      BY <1>2, <2>4 DEF DoneAreClaims
    <3> QED
      BY <3>1, <2>6 DEF SingleClaim
  <2>11. ClaimsFollowGrants'
    <3>1. ASSUME NEW i \in 1..Len(claims')
          PROVE  \E t \in issued : /\ t.Token = claims'[i].presented
                                   /\ t.Subject = claims'[i].Subject
                                   /\ t.claimed = claims'[i].claimed
                                   /\ claims'[i].at <= t.expires
      <4>1. CASE i \in 1..Len(claims) /\ claims'[i] = claims[i]
        BY <4>1 DEF ClaimsFollowGrants
      <4>2. CASE claims'[i] = c
        BY <1>0, <2>4, <2>5, <4>2
      <4> QED
        BY <2>6, <4>1, <4>2
    <3> QED
      BY <3>1 DEF ClaimsFollowGrants
  <2>12. Registered' /\ LiveGrantsRegistered'
    BY DEF Registered, LiveGrantsRegistered, HasExpired
  <2> QED
    BY <2>7, <2>8, <2>9, <2>10, <2>11, <2>12
<1> QED
  BY <1>1, <1>2

\* The purge removes expired tokens only.
LEMMA ExpireIInv ==
    ASSUME IInv, NEW h \in Handlers, NEW s \in Subjects, expireOldEntries(h, s)
    PROVE  IInv'
<1> USE DEF IInv, expireOldEntries, history
<1>1. /\ LocalOK'
      /\ pc'[h] = "generate" /\ answer'[h] = "none" /\ arg'[h] = s
      /\ \A g \in Handlers \ {h} :
            /\ pc'[g] = pc[g] /\ arg'[g] = arg[g]
            /\ held'[g] = held[g] /\ checkedAt'[g] = checkedAt[g]
            /\ answer'[g] = answer[g]
  BY GotoFrame DEF TypeOK, Labels
<1>2. TypeOK'
  BY <1>1 DEF TypeOK, RegistryOK, HistoryOK
<1>3. OnceNames' /\ InFlight'
  BY <1>1 DEF OnceNames, InFlight
<1>4. Registered' /\ DoneAreClaims' /\ SingleClaim' /\ ClaimsFollowGrants'
  BY DEF Registered, DoneAreClaims, SingleClaim, ClaimsFollowGrants
<1>5. LiveGrantsRegistered'
  BY DEF LiveGrantsRegistered, HasExpired
<1> QED
  BY <1>2, <1>3, <1>4, <1>5

\* GenerateToken allocates a Once object nobody has heard of.
LEMMA GenerateIInv ==
    ASSUME IInv, NEW h \in Handlers, NEW id \in TokenIDs, GenerateToken(h, id)
    PROVE  IInv'
<1> DEFINE t == [Token |-> id, Subject |-> arg[h], expires |-> now + Lifespan,
                 claimed |-> allocated + 1]
<1> USE DEF IInv, GenerateToken, history
<1>0. /\ t \in ScopedToken /\ t.claimed = allocated + 1 /\ allocated \in Nat
      /\ arg[h] \in TokenIDs \cup Subjects \cup {Nil}
  BY DEF TypeOK, RegistryOK, LocalOK, ScopedToken, InFlight
<1>1. Goto(h, "add", arg[h], t, 0)
  OBVIOUS
<1> HIDE DEF t
<1>2. /\ LocalOK'
      /\ pc'[h] = "add" /\ answer'[h] = "none" /\ held'[h] = t
      /\ \A g \in Handlers \ {h} :
            /\ pc'[g] = pc[g] /\ arg'[g] = arg[g]
            /\ held'[g] = held[g] /\ checkedAt'[g] = checkedAt[g]
            /\ answer'[g] = answer[g]
  BY <1>0, <1>1, GotoFrame DEF TypeOK, Labels
<1>3. TypeOK'
  BY <1>0, <1>2 DEF TypeOK, RegistryOK, HistoryOK
<1>4. OnceNames'
  BY <1>0, <1>2 DEF OnceNames, TypeOK, HistoryOK, ScopedToken
<1>5. InFlight'
  BY <1>2 DEF InFlight
<1>6. Registered' /\ DoneAreClaims' /\ SingleClaim' /\ ClaimsFollowGrants'
  BY DEF Registered, DoneAreClaims, SingleClaim, ClaimsFollowGrants
<1>7. LiveGrantsRegistered'
  BY DEF LiveGrantsRegistered, HasExpired
<1> QED
  BY <1>3, <1>4, <1>5, <1>6, <1>7

\* addToken stores a token only under a string that is free.
LEMMA AddTokenIInv ==
    ASSUME IInv, NEW h \in Handlers, addToken(h)
    PROVE  IInv'
<1> USE DEF IInv, addToken
<1>0. held[h] \in ScopedToken
  BY DEF OnceNames
<1>1. /\ LocalOK' /\ pc'[h] = "idle"
      /\ \A g \in Handlers \ {h} :
            /\ pc'[g] = pc[g] /\ arg'[g] = arg[g]
            /\ held'[g] = held[g] /\ checkedAt'[g] = checkedAt[g]
            /\ answer'[g] = answer[g]
  BY ReturnFrame DEF TypeOK, Answers
<1>2. TypeOK'
  BY <1>0, <1>1 DEF TypeOK, RegistryOK, HistoryOK
<1>3. OnceNames'
  BY <1>0, <1>1 DEF OnceNames
<1>4. InFlight'
  BY <1>1 DEF InFlight
<1>5. Registered'
  BY DEF Registered
<1>6. DoneAreClaims' /\ SingleClaim' /\ ClaimsFollowGrants'
  BY DEF DoneAreClaims, SingleClaim, ClaimsFollowGrants
<1>7. LiveGrantsRegistered'
  BY <1>5 DEF LiveGrantsRegistered, HasExpired, Registered
<1> QED
  BY <1>2, <1>3, <1>4, <1>5, <1>6, <1>7

\* After a restart no token of the past is live.
LEMMA RestartIInv == ASSUME IInv, Restart PROVE IInv'
<1> USE DEF IInv, Restart
<1>1. TypeOK'
  BY DEF TypeOK, RegistryOK, LocalOK, HistoryOK, Answers, Labels
<1>2. OnceNames' /\ InFlight'
  BY DEF OnceNames, InFlight, TypeOK, RegistryOK
<1>3. Registered' /\ DoneAreClaims' /\ SingleClaim' /\ ClaimsFollowGrants'
  BY DEF Registered, DoneAreClaims, SingleClaim, ClaimsFollowGrants
<1>4. LiveGrantsRegistered'
  BY DEF LiveGrantsRegistered, OnceNames, TypeOK, RegistryOK, HistoryOK, ScopedToken
<1> QED
  BY <1>1, <1>2, <1>3, <1>4

\* The passage of time only expires tokens.
LEMMA TickIInv == ASSUME IInv, Tick PROVE IInv'
<1> USE DEF IInv, Tick, registry, local, history
<1>1. TypeOK'
  BY DEF TypeOK, RegistryOK, LocalOK, HistoryOK
<1>2. OnceNames' /\ Registered' /\ DoneAreClaims' /\ SingleClaim' /\ ClaimsFollowGrants'
  BY DEF OnceNames, Registered, DoneAreClaims, SingleClaim, ClaimsFollowGrants
<1>3. InFlight'
  BY DEF InFlight, TypeOK, LocalOK
<1>4. LiveGrantsRegistered'
  BY DEF LiveGrantsRegistered, HasExpired, TypeOK, HistoryOK, ScopedToken
<1> QED
  BY <1>1, <1>2, <1>3, <1>4

\* The invariant is inductive: every action preserves it.
LEMMA NextIInv == IInv /\ [Next]_vars => IInv'
<1> SUFFICES ASSUME IInv, [Next]_vars PROVE IInv'
  OBVIOUS
<1>1. ASSUME NEW h \in Handlers, NEW id \in TokenIDs, LookupToken(h, id) PROVE IInv'
  BY <1>1, LookupTokenIInv
<1>2. ASSUME NEW h \in Handlers, NEW s \in Subjects, expireOldEntries(h, s) PROVE IInv'
  BY <1>2, ExpireIInv
<1>3. ASSUME NEW h \in Handlers, Continue(h) PROVE IInv'
  BY <1>3, ClaimCheckIInv, ClaimOnceIInv, GenerateIInv, AddTokenIInv DEF Continue
<1>4. CASE Restart
  BY <1>4, RestartIInv
<1>5. CASE Tick
  BY <1>5, TickIInv
<1>6. CASE UNCHANGED vars
  BY <1>6 DEF vars, registry, local, history, IInv, TypeOK, RegistryOK, LocalOK,
       HistoryOK, OnceNames, Registered,
       InFlight, DoneAreClaims, SingleClaim, ClaimsFollowGrants,
       LiveGrantsRegistered, HasExpired
<1> QED
  BY <1>1, <1>2, <1>3, <1>4, <1>5, <1>6 DEF Next

\* The inductive invariant holds in every reachable state.
THEOREM Invariance == Spec => []IInv
BY InitIInv, NextIInv, PTL DEF Spec

\* Every value the registry and its handlers work with has its type.
THEOREM TypeCorrect == Spec => []TypeOK
<1>1. IInv => TypeOK
  BY DEF IInv
<1> QED
  BY <1>1, Invariance, PTL

\* However many handlers race, at most one gets in with a given token.
THEOREM AtMostOneClaim == Spec => []SingleClaim
<1>1. IInv => SingleClaim
  BY DEF IInv
<1> QED
  BY <1>1, Invariance, PTL

\* Whoever gets in presented, before its expiry, a token handed out for the
\* subject he is taken for.
THEOREM ClaimsAreGranted == Spec => []ClaimsFollowGrants
<1>1. IInv => ClaimsFollowGrants
  BY DEF IInv
<1> QED
  BY <1>1, Invariance, PTL

\* No grant is lost or overwritten before it expires.
THEOREM GrantsStayLive == Spec => []LiveGrantsRegistered
<1>1. IInv => LiveGrantsRegistered
  BY DEF IInv
<1> QED
  BY <1>1, Invariance, PTL
-----------------------------------------------------------------------------
\* A handler that is told "token already claimed" lost to a claim that
\* succeeded: whichever step produced that answer found the Once done.
LEMMA RefusalStep ==
    ASSUME IInv, [Next]_vars, NEW h \in Handlers,
           pc[h] # "idle", answer'[h] = "already claimed"
    PROVE  \/ \E i \in 1..Len(claims) : claims[i].claimed = held[h].claimed
           \/ answer[h] = "already claimed" /\ pc'[h] = pc[h]
<1> USE DEF IInv, TypeOK, LocalOK
<1>1. ASSUME NEW g \in Handlers, NEW a \in Answers, Return(g, a), g # h \/ a # "already claimed"
      PROVE  answer[h] = "already claimed" /\ pc'[h] = pc[h]
  BY <1>1 DEF Return
<1>2. ASSUME NEW g \in Handlers, NEW l, NEW a, NEW t, NEW at, Goto(g, l, a, t, at)
      PROVE  answer[h] = "already claimed" /\ pc'[h] = pc[h]
  BY <1>2 DEF Goto
<1>3. ASSUME NEW g \in Handlers, ClaimOnce(g)
      PROVE  \/ \E i \in 1..Len(claims) : claims[i].claimed = held[h].claimed
             \/ answer[h] = "already claimed" /\ pc'[h] = pc[h]
  <2>1. CASE g = h /\ held[h].claimed \in done
    BY <2>1 DEF DoneAreClaims
  <2>2. CASE g = h /\ held[h].claimed \notin done
    BY <1>1, <1>3, <2>2 DEF ClaimOnce, Admit, Answers
  <2>3. CASE g # h
    BY <1>1, <1>3, <2>3 DEF ClaimOnce, Admit, Answers
  <2> QED
    BY <2>1, <2>2, <2>3
<1>4. ASSUME NEW g \in Handlers, NEW id \in TokenIDs, LookupToken(g, id)
      PROVE  answer[h] = "already claimed" /\ pc'[h] = pc[h]
  BY <1>1, <1>2, <1>4 DEF LookupToken, Answers
<1>5. ASSUME NEW g \in Handlers, NEW s \in Subjects, expireOldEntries(g, s)
      PROVE  answer[h] = "already claimed" /\ pc'[h] = pc[h]
  BY <1>2, <1>5 DEF expireOldEntries
<1>6. ASSUME NEW g \in Handlers, ClaimCheck(g)
      PROVE  answer[h] = "already claimed" /\ pc'[h] = pc[h]
  BY <1>1, <1>2, <1>6 DEF ClaimCheck, Answers
<1>7. ASSUME NEW g \in Handlers, NEW id \in TokenIDs, GenerateToken(g, id)
      PROVE  answer[h] = "already claimed" /\ pc'[h] = pc[h]
  BY <1>2, <1>7 DEF GenerateToken
<1>8. ASSUME NEW g \in Handlers, addToken(g)
      PROVE  answer[h] = "already claimed" /\ pc'[h] = pc[h]
  BY <1>1, <1>8 DEF addToken, Answers
<1>9. ~Restart
  BY DEF Restart
<1>10. ASSUME Tick \/ UNCHANGED vars
       PROVE  answer[h] = "already claimed" /\ pc'[h] = pc[h]
  BY <1>10 DEF Tick, vars, local
<1> QED
  BY <1>3, <1>4, <1>5, <1>6, <1>7, <1>8, <1>9, <1>10 DEF Next, Continue

\* Nobody is told "token already claimed" unless somebody got in with the token.
THEOREM RefusalsAreJustified == Spec => RefusedOnlyIfSpent
<1>1. IInv /\ [Next]_vars =>
        [\A h \in Handlers : pc[h] # "idle" /\ answer'[h] = "already claimed" =>
            \E i \in 1..Len(claims) : claims[i].claimed = held[h].claimed]_vars
  <2> SUFFICES ASSUME IInv, [Next]_vars, NEW h \in Handlers,
                      pc[h] # "idle", answer'[h] = "already claimed"
               PROVE  \E i \in 1..Len(claims) : claims[i].claimed = held[h].claimed
    OBVIOUS
  <2>1. answer[h] = "none"
    BY DEF IInv, InFlight
  <2> QED
    BY <2>1, RefusalStep
<1> QED
  BY <1>1, Invariance, PTL DEF Spec, RefusedOnlyIfSpent
-----------------------------------------------------------------------------
\* The registry with its separate critical sections implements atomic one-time
\* tokens: storing a token is the grant, running the Once is the redemption, and
\* every other step is invisible.
LEMMA RefinementStep ==
    IInv /\ [Next]_vars => [Tokens!Next]_<<now, issued, claims>>
<1> SUFFICES ASSUME IInv, [Next]_vars, ~UNCHANGED <<now, issued, claims>>
             PROVE  Tokens!Next
  OBVIOUS
<1>1. ASSUME NEW h \in Handlers, addToken(h) PROVE Tokens!Next
  <2>1. /\ held[h] \in ScopedToken
        /\ \A t \in issued : t.claimed # held[h].claimed
    BY <1>1 DEF IInv, OnceNames, addToken
  <2>2. issued' = issued \cup {held[h]} /\ UNCHANGED <<now, claims>>
    BY <1>1 DEF addToken
  <2>3. Tokens!Grant(held[h])
    BY <2>1, <2>2 DEF Tokens!Grant, ScopedToken
  <2> QED
    BY <2>2, <2>3 DEF Tokens!Next
<1>2. ASSUME NEW h \in Handlers, ClaimOnce(h) PROVE Tokens!Next
  <2>1. /\ held[h] \in issued /\ held[h].Token = arg[h]
        /\ checkedAt[h] <= held[h].expires /\ checkedAt[h] <= now
        /\ checkedAt[h] \in Nat /\ now \in Nat
    BY <1>2 DEF IInv, InFlight, TypeOK, LocalOK, ClaimOnce
  <2>2. /\ held[h].claimed \notin done
        /\ claims' = Append(claims, [presented |-> arg[h], Subject |-> held[h].Subject,
                                     claimed |-> held[h].claimed, at |-> checkedAt[h]])
        /\ UNCHANGED <<now, issued>>
    BY <1>2 DEF ClaimOnce, Admit
  <2>3. \A i \in DOMAIN claims : claims[i].claimed # held[h].claimed
    <3>1. DOMAIN claims = 1..Len(claims)
      BY LenProperties DEF IInv, TypeOK, HistoryOK
    <3> QED
      BY <2>2, <3>1 DEF IInv, DoneAreClaims
  <2>4. Tokens!Redeem(held[h], checkedAt[h])
    BY <2>1, <2>2, <2>3 DEF Tokens!Redeem
  <2> QED
    BY <2>1, <2>4 DEF Tokens!Next
<1>3. CASE Tick
  BY <1>3 DEF Tick, history, Tokens!Next, Tokens!Pass
<1>4. ASSUME NEW h \in Handlers, NEW id \in TokenIDs, LookupToken(h, id) PROVE FALSE
  BY <1>4 DEF LookupToken, history
<1>5. ASSUME NEW h \in Handlers, NEW s \in Subjects, expireOldEntries(h, s) PROVE FALSE
  BY <1>5 DEF expireOldEntries, history
<1>6. ASSUME NEW h \in Handlers, ClaimCheck(h) PROVE FALSE
  BY <1>6 DEF ClaimCheck, history
<1>7. ASSUME NEW h \in Handlers, NEW id \in TokenIDs, GenerateToken(h, id) PROVE FALSE
  BY <1>7 DEF GenerateToken, history
<1>8. ~Restart /\ ~UNCHANGED vars
  BY DEF Restart, vars, history
<1> QED
  BY <1>1, <1>2, <1>3, <1>4, <1>5, <1>6, <1>7, <1>8 DEF Next, Continue

\* The detailed specification implements the abstract one.
THEOREM Refinement == Spec => ImplementsOneTimeTokens
<1>1. Init => Tokens!Init
  BY DEF Init, Tokens!Init
<1> QED
  BY <1>1, RefinementStep, Invariance, PTL DEF Spec, Tokens!Spec, ImplementsOneTimeTokens
=============================================================================
