---------------------------- MODULE ClickLedger -----------------------------
(***************************************************************************)
(* What click aggregation promises its advertisers: clicks are accepted    *)
(* once per impression, published in the order of acceptance, and the      *)
(* metrics are at any moment the numbers of published clicks.              *)
(***************************************************************************)
EXTENDS Naturals, Sequences, FiniteSets

CONSTANTS Impressions, Campaigns, CampaignOf, Minutes

VARIABLES
    accepted,          \* accepted clicks, in order
    published,         \* how many of them the metrics contain
    metrics            \* the number of published clicks of a campaign and minute

Keys == Campaigns \X Minutes

Init == accepted = <<>> /\ published = 0 /\ metrics = [k \in Keys |-> 0]

Accept(imp, minute) ==
    /\ \A i \in DOMAIN accepted : accepted[i].imp # imp
    /\ accepted' = Append(accepted, [imp |-> imp, key |-> <<CampaignOf[imp], minute>>])
    /\ UNCHANGED <<published, metrics>>

Publish(n) ==
    /\ published' = n
    /\ metrics' = [k \in Keys |-> Cardinality({i \in 1..n : accepted[i].key = k})]
    /\ UNCHANGED accepted

Next ==
    \/ \E imp \in Impressions, minute \in Minutes : Accept(imp, minute)
    \/ \E n \in (published + 1)..Len(accepted) : Publish(n)

Spec == Init /\ [][Next]_<<accepted, published, metrics>>
=============================================================================
