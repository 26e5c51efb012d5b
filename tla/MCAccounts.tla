----------------------------- MODULE MCAccounts -----------------------------
(* Values of the constants of Accounts for TLC. *)
EXTENDS Accounts, TLC

\* Rows and handlers differ in nothing but their name.
Alike == Permutations(Sessions) \cup Permutations(Tokens) \cup Permutations(Requests)
         \cup Permutations(Uploads) \cup Permutations(Contacts) \cup Permutations(Users)
=============================================================================
