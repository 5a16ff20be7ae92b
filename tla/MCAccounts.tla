----------------------------- MODULE MCAccounts ------------------------------
(***************************************************************************)
(* Accounts and Avatars for TLC.  A behaviour is about the accounts and    *)
(* the rows of one kind, or about the pictures of one user.                *)
(***************************************************************************)
EXTENDS Accounts, Avatars, TLC

\* Neither addresses nor pictures nor requests are told apart.
Symmetry == Permutations(Emails) \cup Permutations(Pictures) \cup Permutations(Workers)

VARIABLE topic
allVars == <<vars, avatarVars, topic>>

MCInit ==
    /\ Init /\ InitAvatars
    /\ topic \in {"accounts", "avatars"}
    /\ topic = "avatars" => kind = "session"
MCNext ==
    \/ topic = "accounts" /\ AccountsNext /\ UNCHANGED <<avatarVars, topic>>
    \/ topic = "avatars" /\ AvatarsNext /\ UNCHANGED <<vars, topic>>
Spec == MCInit /\ [][MCNext]_allVars

-----------------------------------------------------------------------------

\* The types of both parts, with the unique columns.
TypeOK == AccountsTypes /\ AvatarsTypes
=============================================================================
