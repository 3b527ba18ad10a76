----------------------------- MODULE MCAccounts -----------------------------
(* Instances of Accounts for TLC. *)
EXTENDS Accounts, TLC

\* Requests are alike, and so are passwords and names.
Symmetry ==
    Permutations(Request) \cup Permutations(Password)
        \cup Permutations(UserName) \cup Permutations(MountName)
=============================================================================
