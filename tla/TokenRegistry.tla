--------------------------- MODULE TokenRegistry ---------------------------
(***************************************************************************)
(* The keyserver's registry of one-time bootstrap tokens                   *)
(* (keysystem/keyserver/token, token/scoped and verifier/token.go).        *)
(*                                                                         *)
(* Every HTTP request runs in a goroutine of its own (a Handler).  A       *)
(* handler either verifies a token it was sent -- LookupToken, the expiry  *)
(* check of Claim and the sync.Once of Claim are three separate moments -- *)
(* or grants a token -- expireOldEntries, GenerateToken and addToken are   *)
(* three separate moments too; only single registry calls hold the mutex.  *)
(*                                                                         *)
(* A ScopedToken is copied out of the map by LookupToken; its field        *)
(* "claimed" is a pointer to a sync.Once.  Once objects are named by the   *)
(* number of the GenerateToken call that allocated them, so that two       *)
(* tokens which happen to have the same string stay distinguishable.       *)
(***************************************************************************)
EXTENDS Integers, Sequences, FiniteSets

CONSTANTS
    Handlers,   \* the goroutines that serve requests
    TokenIDs,   \* the strings generateTokenID can return
    Subjects,   \* the principals a token can be granted to
    Lifespan,   \* lifespan of a token, in clock ticks
    Nil,        \* the content of a local variable before its first use
    MaxGrants,  \* bound: number of GenerateToken calls
    MaxTime     \* bound: last value of the clock

ASSUME LifespanAssumption == Lifespan \in Nat
ASSUME MaxGrantsAssumption == MaxGrants \in Nat
ASSUME MaxTimeAssumption == MaxTime \in Nat

VARIABLES
    now,        \* time.Now()
    byToken,    \* TokenRegistry.byToken, a set of ScopedTokens with distinct Token
    allocated,  \* the Once objects allocated so far are 1..allocated
    done,       \* the Once objects whose Do has run
    pc,         \* where each handler is
    arg,        \* the token string or the subject in each handler's request
    held,       \* the ScopedToken in each handler's local variable
    checkedAt,  \* when each handler passed the expiry check of Claim
    answer,     \* what each handler's last call returned
    bootAt,     \* history: the value of allocated at the last restart
    issued,     \* history: the ScopedTokens GrantToken returned to a caller
    claims      \* history: the Claims that succeeded, in order

registry == <<byToken, allocated, done>>
local == <<pc, arg, held, checkedAt, answer>>
history == <<bootAt, issued, claims>>
vars == <<now, registry, local, history>>

\* expires is a time, claimed the name of a Once object.
ScopedToken == [Token : TokenIDs, Subject : Subjects, expires : Nat, claimed : Nat]
Answers == {"none", "unrecognized", "expired", "already claimed", "subject",
            "granted", "panic"}

HasExpired(t) == now > t.expires

\* The call of handler h returns a; its local variables go away.
Return(h, a) ==
    /\ pc' = [pc EXCEPT ![h] = "idle"]
    /\ answer' = [answer EXCEPT ![h] = a]
    /\ arg' = [arg EXCEPT ![h] = Nil]
    /\ held' = [held EXCEPT ![h] = Nil]
    /\ checkedAt' = [checkedAt EXCEPT ![h] = 0]

\* The call of handler h goes on at label, with these local variables.
Goto(h, label, a, t, at) ==
    /\ pc' = [pc EXCEPT ![h] = label]
    /\ answer' = [answer EXCEPT ![h] = "none"]
    /\ arg' = [arg EXCEPT ![h] = a]
    /\ held' = [held EXCEPT ![h] = t]
    /\ checkedAt' = [checkedAt EXCEPT ![h] = at]
-----------------------------------------------------------------------------
(* TokenVerifier.Verify *)

\* If the string is found, the handler goes on with a copy of the map's value.
LookupToken(h, id) ==
    /\ pc[h] = "idle"
    /\ \/ \E t \in byToken : t.Token = id /\ Goto(h, "check", id, t, 0)
       \/ (\A t \in byToken : t.Token # id) /\ Return(h, "unrecognized")
    /\ UNCHANGED <<now, registry, history>>

\* Mutant: Claim forgets the expiry check.
ClaimCheckDropped(h) ==
    /\ pc[h] = "check"
    /\ Goto(h, "once", arg[h], held[h], now)
    /\ UNCHANGED <<now, registry, history>>

\* Claim, first half: the expiry check.
ClaimCheck(h) ==
    /\ pc[h] = "check"
    /\ \/ HasExpired(held[h]) /\ Return(h, "expired")
       \/ ~HasExpired(held[h]) /\ Goto(h, "once", arg[h], held[h], now)
    /\ UNCHANGED <<now, registry, history>>

\* The request of handler h gets in as the subject of its token.
Admit(h) ==
    /\ claims' = Append(claims, [presented |-> arg[h], Subject |-> held[h].Subject,
                                 claimed |-> held[h].claimed, at |-> checkedAt[h]])
    /\ Return(h, "subject")

\* Mutant: ScopedToken holds its sync.Once by value, so that each copy has one.
ClaimOnceByValue(h) ==
    /\ pc[h] = "once"
    /\ Admit(h)
    /\ UNCHANGED <<now, registry, bootAt, issued>>

\* Mutant: the function given to Do assigns to a shadowing hasClaimed.
ClaimOnceShadowed(h) ==
    /\ pc[h] = "once"
    /\ done' = done \cup {held[h].claimed}
    /\ Return(h, "already claimed")
    /\ UNCHANGED <<now, byToken, allocated, history>>

\* Claim, second half: claimed.Do runs its function for one caller only.
ClaimOnce(h) ==
    /\ pc[h] = "once"
    /\ \/ /\ held[h].claimed \in done
          /\ Return(h, "already claimed")
          /\ UNCHANGED <<done, claims>>
       \/ /\ held[h].claimed \notin done
          /\ done' = done \cup {held[h].claimed}
          /\ Admit(h)
    /\ UNCHANGED <<now, byToken, allocated, bootAt, issued>>
-----------------------------------------------------------------------------
(* TokenRegistry.GrantToken *)

Granting == {h \in Handlers : pc[h] = "generate"}

expireOldEntries(h, subject) ==
    /\ pc[h] = "idle"
    /\ allocated + Cardinality(Granting) < MaxGrants
    /\ byToken' = {t \in byToken : ~HasExpired(t)}
    /\ Goto(h, "generate", subject, Nil, 0)
    /\ UNCHANGED <<now, allocated, done, history>>

\* The string is random: it may be one the registry already holds.
GenerateToken(h, id) ==
    /\ pc[h] = "generate"
    /\ allocated' = allocated + 1
    /\ Goto(h, "add", arg[h], [Token |-> id, Subject |-> arg[h],
                               expires |-> now + Lifespan,
                               claimed |-> allocated + 1], 0)
    /\ UNCHANGED <<now, byToken, done, history>>

\* Mutant: addToken overwrites instead of panicking on a collision.
addTokenOverwrites(h) ==
    /\ pc[h] = "add"
    /\ byToken' = {t \in byToken : t.Token # held[h].Token} \cup {held[h]}
    /\ issued' = issued \cup {held[h]}
    /\ Return(h, "granted")
    /\ UNCHANGED <<now, allocated, done, bootAt, claims>>

\* A collision panics; net/http recovers the panic of a handler, the deferred
\* Unlock has run and nothing was stored.
addToken(h) ==
    /\ pc[h] = "add"
    /\ \/ /\ \E t \in byToken : t.Token = held[h].Token
          /\ Return(h, "panic")
          /\ UNCHANGED <<byToken, issued>>
       \/ /\ \A t \in byToken : t.Token # held[h].Token
          /\ byToken' = byToken \cup {held[h]}
          /\ issued' = issued \cup {held[h]}
          /\ Return(h, "granted")
    /\ UNCHANGED <<now, allocated, done, bootAt, claims>>
-----------------------------------------------------------------------------
(* The environment *)

\* The registry lives in memory only: a restart of the keyserver loses it and
\* every request that was being served.
Restart ==
    /\ byToken' = {}
    /\ pc' = [h \in Handlers |-> "idle"]
    /\ answer' = [h \in Handlers |-> "none"]
    /\ arg' = [h \in Handlers |-> Nil]
    /\ held' = [h \in Handlers |-> Nil]
    /\ checkedAt' = [h \in Handlers |-> 0]
    /\ bootAt' = allocated
    /\ UNCHANGED <<now, allocated, done, issued, claims>>

Tick == now < MaxTime /\ now' = now + 1 /\ UNCHANGED <<registry, local, history>>

Init ==
    /\ now = 0
    /\ byToken = {} /\ allocated = 0 /\ done = {}
    /\ pc = [h \in Handlers |-> "idle"]
    /\ arg = [h \in Handlers |-> Nil]
    /\ held = [h \in Handlers |-> Nil]
    /\ checkedAt = [h \in Handlers |-> 0]
    /\ answer = [h \in Handlers |-> "none"]
    /\ bootAt = 0 /\ issued = {} /\ claims = <<>>

Continue(h) == \/ ClaimCheck(h) \/ ClaimOnce(h)
               \/ (\E id \in TokenIDs : GenerateToken(h, id))
               \/ addToken(h)

Next ==
    \/ \E h \in Handlers :
        \/ \E id \in TokenIDs : LookupToken(h, id)
        \/ \E s \in Subjects : expireOldEntries(h, s)
        \/ Continue(h)
    \/ Restart
    \/ Tick

Spec == Init /\ [][Next]_vars

\* A goroutine that is inside a call is eventually scheduled again; nothing
\* obliges anybody to send a request, time to pass or the server to restart.
FairSpec == Spec /\ \A h \in Handlers : WF_vars(Continue(h))
-----------------------------------------------------------------------------
(* Properties *)

Tokens == INSTANCE OneTimeTokens WITH clock <- now, redeemed <- claims

Labels == {"idle", "check", "once", "generate", "add"}
Claim == [presented : TokenIDs, Subject : Subjects, claimed : Nat, at : Nat]

RegistryOK == byToken \subseteq ScopedToken /\ allocated \in Nat /\ done \subseteq Nat

LocalOK ==
    /\ pc \in [Handlers -> Labels]
    /\ arg \in [Handlers -> TokenIDs \cup Subjects \cup {Nil}]
    /\ held \in [Handlers -> ScopedToken \cup {Nil}]
    /\ checkedAt \in [Handlers -> Nat]
    /\ answer \in [Handlers -> Answers]

HistoryOK == bootAt \in Nat /\ issued \subseteq ScopedToken /\ claims \in Seq(Claim)

TypeOK == now \in Nat /\ RegistryOK /\ LocalOK /\ HistoryOK

\* However many requests present copies of one token at the same time, across
\* expiry and restarts, at most one of them is let in (scoped.Claim).
SingleClaim ==
    \A i, j \in 1..Len(claims) : claims[i].claimed = claims[j].claimed => i = j

\* A request is only told "token already claimed" when some request did get in
\* with that token: a refused claim never burns the token.
RefusedOnlyIfSpent ==
    [][\A h \in Handlers :
        pc[h] # "idle" /\ answer'[h] = "already claimed" =>
            \E i \in 1..Len(claims) : claims[i].claimed = held[h].claimed]_vars

\* A request that got in presented the string of a token that was handed out,
\* was taken for the subject of that token, and saw it before its expiry --
\* although the registry may have purged or lost the token in the meantime.
ClaimsFollowGrants ==
    \A i \in 1..Len(claims) : \E t \in issued :
        /\ t.Token = claims[i].presented
        /\ t.Subject = claims[i].Subject
        /\ t.claimed = claims[i].claimed
        /\ claims[i].at <= t.expires

\* Every token handed out since the last restart stays in the registry, with
\* its own subject and Once, until it expires: neither another grant nor the
\* purge of another grant can take it away ("cross-contamination of tokens").
LiveGrantsRegistered ==
    \A t \in issued : t.claimed > bootAt /\ ~HasExpired(t) =>
        t \in byToken /\ \A u \in byToken : u.Token = t.Token => u = t

\* A token that is found gets somebody in, unless it is seen to be expired or
\* the server restarts: racing handlers never all lose.
FoundTokenIsClaimed ==
    \A h \in Handlers, c \in 1..MaxGrants :
        pc[h] = "check" /\ held[h].claimed = c
            ~> \/ \E i \in 1..Len(claims) : claims[i].claimed = c
               \/ answer[h] = "expired"
               \/ bootAt >= c

\* The registry implements atomic one-time tokens.
ImplementsOneTimeTokens == Tokens!Spec
=============================================================================
