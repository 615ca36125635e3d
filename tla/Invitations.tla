---------------------------- MODULE Invitations ----------------------------
(***************************************************************************)
(* Invitation codes that may be redeemed a number of times, each by an     *)
(* account of its own.  A redemption is a transaction at the default       *)
(* isolation: it reads the account, reads the code, and then counts the    *)
(* use, which locks the row of the code until it commits or rolls back;    *)
(* so what follows the count is one step with it.                          *)
(***************************************************************************)
EXTENDS Absent, Naturals, FiniteSets

CONSTANTS
    Guests,         \* accounts
    Invitees,       \* slots for redemptions under way
    InvitationCodes,
    MaxUses         \* the number of uses a code may be made for is 1 .. MaxUses

\* The row of a code.
Invitation == [maxUses : Nat \ {0}, used : Nat, expired : BOOLEAN]

ASSUME InvitationsAssumption == MaxUses \in Nat /\ None \notin Invitation

VARIABLES
    verified,       \* the code that let each account in
    invitation,     \* the row of each code
    redemption,     \* the pairs of a code and an account
    redeeming       \* the redemption in each slot

invitationVars == <<verified, invitation, redemption, redeeming>>

\* Whoever was let in may make codes; some are there from the start.
Generate(a, code, uses) ==
    /\ verified[a] # None
    /\ invitation[code] = None
    /\ invitation' = [invitation EXCEPT ![code] = [maxUses |-> uses, used |-> 0, expired |-> FALSE]]
    /\ UNCHANGED <<verified, redemption, redeeming>>

\* An account that is in already gets the same answer again.
ReadAccount(i, a, code) ==
    /\ redeeming[i] = None /\ verified[a] = None
    /\ redeeming' = [redeeming EXCEPT ![i] = [account |-> a, code |-> code, looked |-> FALSE]]
    /\ UNCHANGED <<verified, invitation, redemption>>

Exhausted(code) == invitation[code].used >= invitation[code].maxUses

ReadCode(i) ==
    /\ redeeming[i] # None /\ ~redeeming[i].looked
    /\ LET code == redeeming[i].code
       IN  redeeming' = [redeeming EXCEPT ![i] =
              IF invitation[code] = None THEN None
              ELSE IF invitation[code].expired \/ Exhausted(code) THEN None
              ELSE [@ EXCEPT !.looked = TRUE]]
    /\ UNCHANGED <<verified, invitation, redemption>>

\* Variant: the count is not compared again when it is incremented.
CountableAlways(code) == TRUE

Countable(code) == ~Exhausted(code)

\* The use is counted, the redemption inserted, the account let in; an account
\* that redeemed this code before rolls everything back.
Redeem(i) ==
    /\ redeeming[i] # None /\ redeeming[i].looked
    /\ LET a == redeeming[i].account code == redeeming[i].code
       IN  IF ~Countable(code) THEN UNCHANGED <<verified, invitation, redemption>>
           ELSE IF <<code, a>> \in redemption
           THEN UNCHANGED <<verified, invitation, redemption>>
           ELSE /\ invitation' = [invitation EXCEPT ![code].used = @ + 1]
                /\ redemption' = redemption \cup {<<code, a>>}
                /\ verified' = [verified EXCEPT ![a] = code]
    /\ redeeming' = [redeeming EXCEPT ![i] = None]

ExpireInvitation(code) ==
    /\ invitation[code] # None /\ ~invitation[code].expired
    /\ invitation' = [invitation EXCEPT ![code].expired = TRUE]
    /\ UNCHANGED <<verified, redemption, redeeming>>

InvitationsInit ==
    /\ verified = [a \in Guests |-> None]
    /\ \E rows \in [InvitationCodes -> 0 .. MaxUses] :
          invitation = [code \in InvitationCodes |->
             IF rows[code] = 0 THEN None ELSE [maxUses |-> rows[code], used |-> 0, expired |-> FALSE]]
    /\ redemption = {}
    /\ redeeming = [i \in Invitees |-> None]

InvitationsNext ==
    \/ \E a \in Guests, code \in InvitationCodes :
          \/ \E uses \in 1 .. MaxUses : Generate(a, code, uses)
          \/ \E i \in Invitees : ReadAccount(i, a, code)
    \/ \E i \in Invitees : ReadCode(i) \/ Redeem(i)
    \/ \E code \in InvitationCodes : ExpireInvitation(code)

InvitationsSpec == InvitationsInit /\ [][InvitationsNext]_invitationVars

-----------------------------------------------------------------------------
(* Properties.                                                              *)

\* The last use of a code is redeemed once, by whoever counts it first, and every
\* use that is counted let an account in that the code knows of.
UsesAreCounted ==
    \A code \in InvitationCodes : invitation[code] # None =>
        /\ invitation[code].used = Cardinality({a \in Guests : <<code, a>> \in redemption})
        /\ invitation[code].used <= invitation[code].maxUses

=============================================================================
