-------------------------- MODULE MCAirbapayCallback --------------------------
(* Instances of AirbapayCallback for TLC. *)
EXTENDS AirbapayCallback, TLC

\* Every step may be hit by every kind of fault.
AllFaults == {"fail", "lost", "crash"} \X Steps

\* The faults the handler is written to recover from: all but those that leave
\* a claim without an order, or that make it give the claim back.
Recoverable ==
    ({"crash"} \X (Steps \ {"create", "release", "persist"}))
        \cup {<<"lost", "persist">>, <<"lost", "pay">>, <<"lost", "settle">>}

\* Saleor turns a creation down; everything else works.
CreationFails == {<<"fail", "create">>}

\* Nothing goes wrong but instances that die.
Crashes == {"crash"} \X Steps

Symmetric == Permutations(Handlers) \cup Permutations(OrderIds)
=============================================================================
