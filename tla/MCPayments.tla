----------------------------- MODULE MCPayments -----------------------------
(***************************************************************************)
(* Instances of Payments: one customer with two requests that carry the    *)
(* same no-claim code, two insurers and two keys.                          *)
(***************************************************************************)
EXTENDS Payments, TLC

CONSTANTS a1, a2, ann, r1, r2, zig, madison, hollard, key1, key2, code

MCQuotes  == {<<r1, zig>>, <<r1, madison>>, <<r2, zig>>, <<r2, hollard>>}
MCOwner   == [r \in {r1, r2} |-> ann]
MCCodeOf  == [r \in {r1, r2} |-> code]
MCIssuer  == [k \in {code} |-> zig]
MCHolder  == [k \in {code} |-> ann]
MCFee     == (r1 :> 1) @@ (r2 :> 0)
MCPremium == [q \in MCQuotes |-> CASE q = <<r1, madison>> -> 1
                                   [] q = <<r2, hollard>> -> 4
                                   [] OTHER               -> 2]

Body(k, r, i, n) ==
  [key |-> k, customer |-> ann, request |-> r, insurer |-> i, amount |-> n]

First == Body(key1, r1, zig, 3)

(* The second call: a retry, a payment of the same quote or of a rival     *)
(* one, of a wrong amount or too high an amount, of another request that   *)
(* spends the same code, of a quote nobody sent, with the same key or      *)
(* another.                                                                *)
Second == {First, Body(key2, r1, zig, 3), Body(key2, r1, zig, 2),
           Body(key2, r1, madison, 2), Body(key1, r1, madison, 2),
           Body(key1, r2, zig, 2), Body(key2, r2, zig, 2),
           Body(key2, r2, hollard, 4), Body(key2, r2, madison, 2)}

MCAsks == {First} \cup Second

MCExtendable == {<<r1, zig>>}

MCInit == Init /\ ask[a1] = First /\ ask[a2] \in Second

MCSpec == MCInit /\ [][Next]_vars /\ Progress

=============================================================================
