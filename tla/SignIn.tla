------------------------------- MODULE SignIn -------------------------------
(***************************************************************************)
(* How somebody gets at an account: with a key or an identity of his own   *)
(* (AccountKeys), or let in by a device that is signed in (AuthRequests).  *)
(***************************************************************************)
EXTENDS AccountKeys, AuthRequests

\* A newcomer gets one answer, whole and from one account, and a sign-in leaves
\* an account with its key and its secret in step.
SignInIsSound == AccountsStayWhole /\ OneWholeAnswer

=============================================================================
