----------------------------- MODULE MCServices -----------------------------
(* Small instances of the nineteen services.                               *)
EXTENDS Services

MCTokenCap == [w \in {"5h", "week"} |-> IF w = "5h" THEN 2 ELSE 3]
MCCostCap == [w \in {"5h", "week"} |-> IF w = "5h" THEN NoCap ELSE 2]
MCUsages == {[tokens |-> 2, usd |-> 1], [tokens |-> 1, usd |-> Unknown]}
MCPolicies == {[anchor |-> NoAnchor, sessions |-> FALSE], [anchor |-> 0, sessions |-> TRUE]}

\* Two subscriptions of one customer.
MCStripeEvents == {"paid", "paidAgain", "updated", "attempt1", "deleted"}
MCEventOf ==
    LET event(type, subscription, tier, attempt) ==
            [type |-> type, subscription |-> subscription, tier |-> tier, attempt |-> attempt]
    IN [e \in MCStripeEvents |->
          CASE e = "paid"      -> event("checkout_paid", "s1", "pro", 0)
            [] e = "paidAgain" -> event("checkout_paid", "s2", "pro", 0)
            [] e = "updated"   -> event("updated", "s1", "enterprise", 0)
            [] e = "attempt1"  -> event("payment_failed", "s1", "pro", 1)
            [] e = "deleted"   -> event("deleted", "s1", "pro", 0)]
MCCustomerOf == [s \in {"s1", "s2"} |-> "customer"]

MCTiers == <<{"a"}, {"b"}>>

\* Two runs of one task, and three requests of two tenants.
MCTaskOf == [r \in {"r1", "r2"} |-> "t1"]
MCTenantOf == [r \in {"q1", "q2", "q3"} |-> IF r = "q2" THEN "tenant2" ELSE "tenant1"]

\* One provider besides Anthropic, with models for two tiers of three.
MCServedTiers == [p \in {"deepseek"} |-> {1, 2}]
MCSpeaks == [p \in {"deepseek"} |-> {"claude-code", "opencode"}]
MCSignals == {[explicit |-> 0, inferred |-> 1, numeric |-> 2],
              [explicit |-> 1, inferred |-> 0, numeric |-> 3]}
MCEscalations == <<"budget", "blocked">>

\* Two models of one provider, and one of another's that shares a name with them.
MCListings == {<<"A", "x">>, <<"A", "y">>, <<"B", "x">>}
MCWindowOf == [m \in MCListings |-> CASE m = <<"A", "x">> -> "small"
                                     [] m = <<"A", "y">> -> "large"
                                     [] m = <<"B", "x">> -> "other"]
=============================================================================
