----------------------------- MODULE MCAccounts -----------------------------
(* Instances of Accounts: one user with a history of a few rows.           *)
EXTENDS Accounts, TLC

CONSTANTS alice, bob, p1, p2

MCNames == {alice, bob}

MCPasswords == {p1, p2}

MCOldName == alice

MCOldPassword == p1

MCAsked == 0 .. 3

=============================================================================
