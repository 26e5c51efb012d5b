------------------------------- MODULE Wallets -------------------------------
(***************************************************************************)
(* What TopUp and WalletDesk have in common: users with a wallet, and the  *)
(* requests that put money into it or take it out.                         *)
(***************************************************************************)
EXTENDS Integers, FiniteSetsExt

CONSTANTS
    Users,           \* owners of wallets
    Requests,        \* request handlers that may be in flight
    Nothing,         \* no row
    MaxInFlight,     \* bound on requests and jobs in flight at once
    MaxDrops         \* bound on requests that die between two statements
=============================================================================
