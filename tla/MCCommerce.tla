----------------------------- MODULE MCCommerce -----------------------------
(* Instances of HostingBilling, DomainPurchase and ProjectDeletion for TLC: *)
(* what a workspace pays for, and what it gives back.  The three share no   *)
(* state: a behaviour is one of one of them.                                *)
EXTENDS HostingBilling, DomainPurchase, ProjectDeletion

VARIABLE part

mcVars == <<billingVars, domainVars, removalVars, part>>

\* The names are interchangeable, and a part that is not chosen starts in one state.
MCInit == /\ part \in {"billing", "domain", "removal"}
          /\ BillingInit /\ DomainInit /\ RemovalInit
          /\ LET n == CHOOSE x \in Names : TRUE IN
             /\ domain[CHOOSE o \in Orders : TRUE] = n
             /\ part # "domain" => domain = [o \in Orders |-> n]

MCNext == \/ part = "billing" /\ BillingNext /\ UNCHANGED <<domainVars, removalVars, part>>
          \/ part = "domain" /\ DomainNext /\ UNCHANGED <<billingVars, removalVars, part>>
          \/ part = "removal" /\ RemovalNext /\ UNCHANGED <<billingVars, domainVars, part>>

\* The parts that are not chosen stay in their initial states, where no step that
\* their fairness is about is enabled.
MCSpec == /\ MCInit /\ [][MCNext]_mcVars
          /\ BillingFairness /\ DomainFairness /\ RemovalFairness
=============================================================================
