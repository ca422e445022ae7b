---------------------------- MODULE MCCustomers ----------------------------
(* Instances of AccountMail and MerchantOrders for TLC: a customer's        *)
(* account, and what is sold in a customer's shop.  The two share no state: *)
(* a behaviour is one of the one or of the other.                           *)
EXTENDS AccountMail, MerchantOrders

CONSTANTS ann, bob, b1, b2, w1, w2

VARIABLE part

mcVars == <<allVars, merchantVars, part>>

MCInit == part \in {"accounts", "merchant"} /\ MailInit /\ MerchantInit

MCNext == \/ part = "accounts" /\ MailNext /\ UNCHANGED <<merchantVars, part>>
          \/ part = "merchant" /\ MerchantNext /\ UNCHANGED <<allVars, part>>

\* The part that is not chosen stays in its initial state, where no step that its
\* fairness is about is enabled.
MCSpec == MCInit /\ [][MCNext]_mcVars /\ MailFairness /\ MerchantFairness
=============================================================================
