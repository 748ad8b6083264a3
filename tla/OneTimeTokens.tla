--------------------------- MODULE OneTimeTokens ---------------------------
(***************************************************************************)
(* What the token registry promises its callers, with every call atomic:   *)
(* a grant hands out a token, and a grant is redeemed at most once, by     *)
(* somebody who presents its string, for its subject, in a call that saw   *)
(* the token before its expiry.                                            *)
(***************************************************************************)
EXTENDS Integers, Sequences

CONSTANTS TokenIDs, Subjects

VARIABLES
    clock,     \* the time
    issued,    \* the grants made: a set of ScopedTokens
    redeemed   \* the successful redemptions, in order

\* A grant.  "claimed" names the grant: no two grants share it.  A slow grant
\* may hand out a token that is past its expiry already.
Grant(g) ==
    /\ g.Token \in TokenIDs /\ g.Subject \in Subjects
    /\ \A other \in issued : other.claimed # g.claimed
    /\ issued' = issued \cup {g}
    /\ UNCHANGED <<clock, redeemed>>

\* The one redemption of g, by a call that checked its expiry at time `at'.
Redeem(g, at) ==
    /\ g \in issued
    /\ at <= clock /\ at <= g.expires
    /\ \A i \in DOMAIN redeemed : redeemed[i].claimed # g.claimed
    /\ redeemed' = Append(redeemed, [presented |-> g.Token, Subject |-> g.Subject,
                                     claimed |-> g.claimed, at |-> at])
    /\ UNCHANGED <<clock, issued>>

Pass == clock' = clock + 1 /\ UNCHANGED <<issued, redeemed>>

Init == clock = 0 /\ issued = {} /\ redeemed = <<>>

Next == \/ \E g \in issued' : Grant(g)
        \/ \E g \in issued : \E at \in 0..clock : Redeem(g, at)
        \/ Pass

Spec == Init /\ [][Next]_<<clock, issued, redeemed>>
=============================================================================
