-------------------------- MODULE MCReadingSessions --------------------------
(***************************************************************************)
(* Instances of ReadingSessions for TLC.  Three session ids, because it    *)
(* takes a deleted session, the latest remaining one and an open one       *)
(* between them to separate the book from its current session; one date    *)
(* beside NULL, and a date in the future, which every request must refuse. *)
(***************************************************************************)
EXTENDS ReadingSessions

\* All edits with a date up to now, and one with a date in the future.
MCPayloads ==
    [status : Status \cup {KeepStatus},
     started : Dates \cup {Keep}, finished : Dates \cup {Keep}]
    \cup {[status |-> KeepStatus, started |-> Now + 1, finished |-> Keep],
          [status |-> KeepStatus, started |-> Keep, finished |-> Now + 1]}

\* The flags the two dialogs of the frontend send with a target status: the
\* answers to a start conflict go with currently_reading, those to a finish
\* conflict with the others, and a date and its "clear" never go together.
MCTransitions ==
    {t \in Transition :
        /\ t.start <= Now /\ t.finish <= Now
        /\ t.status # Open => ~t.skip /\ ~t.clearStart
        /\ t.status \in Finished => t.start = NoDate /\ ~t.clearFinish
        /\ t.clearStart => t.start = NoDate /\ ~t.skip
        /\ t.clearFinish => t.finish = NoDate}

\* Both automations on, or both off.
MCAutoSettings == {a \in Automation : a.start = a.finish}

\* The sessions of a progress entry: every one there may be, or none named.
MCOwners == SessionIds \cup {NoSession}

\* No progress log, for the instances that leave it out.
NoOwners == {}
=============================================================================
