------------------------------ MODULE TeamMail ------------------------------
(***************************************************************************)
(* The messages of a team on their way to the sessions that are connected  *)
(* (TeamPosts), and stored for those that read later (TeamMessages).       *)
(***************************************************************************)
EXTENDS TeamPosts, TeamMessages

\* The messages of a team reach those they are for: the sessions on its roster
\* at once, the readers when they page back.
TeamMessagesArrive ==
    RosterIsTold /\ DeletedAreSilent /\ ReadersMissNothing /\ SeenTwiceOnlyInATie

=============================================================================
