----------------------------- MODULE MCMailStore -----------------------------
(* One message, which arrives unread, in a directory of the plan or a retained *)
(* one; another choice of the account may be queued at the first id.           *)
EXTENDS MailStore
CONSTANTS m1
MCInit == MailInit /\ \A m \in Messages : remote[m] = "unseen"
MCSpec == MCInit /\ [][MailNext]_mailVars /\ MailFairness
==============================================================================
