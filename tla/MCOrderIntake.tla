--------------------------- MODULE MCOrderIntake ---------------------------
(***************************************************************************)
(* Values for model checking OrderIntake.                                  *)
(***************************************************************************)
EXTENDS OrderIntake

CONSTANTS u1, u2, k1

\* A gift the client asks of botapi although its own provider is another, a
\* subscription, a gift that ends at a default provider that cannot send it, and
\* more stars than the schema admits.
Gift == [type |-> "gift", amount |-> 64, to |-> {"name"},
         requested |-> "botapi", forced |-> "fragment"]
Subscription == [type |-> "premium", amount |-> 3, to |-> {"id"},
                 requested |-> "botapi", forced |-> "none"]
Misrouted == [Gift EXCEPT !.requested = "none", !.forced = "none"]
TooMany == [type |-> "stars", amount |-> MaxStars + 1, to |-> {"name", "id"},
            requested |-> "none", forced |-> "fragment"]

From(u, k, b) == [sender |-> u, key |-> k, body |-> b]

\* One key used for every kind of body, by the client and by another; an empty
\* key; none.
MCAsks ==
  {From(u1, k1, b) : b \in {Gift, Misrouted, TooMany}}
    \cup {From(u2, k1, Gift), From(u1, EmptyKey, Gift), From(u1, NoKey, Subscription)}
=============================================================================
