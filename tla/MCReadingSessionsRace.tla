------------------------ MODULE MCReadingSessionsRace ------------------------
(***************************************************************************)
(* Instances of ReadingSessionsRace for TLC, with two sessions and one     *)
(* date beside NULL.  The progress log has no part in the race.            *)
(***************************************************************************)
EXTENDS ReadingSessionsRace

\* PATCHes that name any of the three fields.
MCPayloads ==
    [status : Status \cup {KeepStatus},
     started : Dates \cup {Keep}, finished : Dates \cup {Keep}]

\* The transitions of the status dialogs that send no dates of their own.
MCTransitions ==
    {t \in Transition :
        /\ t.start = NoDate /\ t.finish = NoDate
        /\ t.status # Open => ~t.skip /\ ~t.clearStart
        /\ t.clearFinish => t.status = "want_to_read"
        /\ ~t.clearStart}

\* Both date automations on, or both off.
MCAutoSettings == {a \in Automation : a.start = a.finish}

NoOwners == {}
=============================================================================
