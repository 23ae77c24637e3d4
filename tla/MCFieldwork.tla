---------------------------- MODULE MCFieldwork ----------------------------
(***************************************************************************)
(* Small instances of Fieldwork for TLC.                                    *)
(***************************************************************************)
EXTENDS Fieldwork, TLC

CONSTANTS boss, emp1, emp2, k1, t1, t2, c1, c2

AllMembers == {boss, emp1, emp2}
Roles == boss :> "owner" @@ emp1 :> "employee" @@ emp2 :> "employee"
OneTask == {k1}
TwoTokens == {t1, t2}
TwoRequests == {c1, c2}

NoteOrForgery == {"note_added", "task_completed"}

\* The tasks of a lead that is reassigned and deleted; the devices and
\* the notices of its holders.
AllScopes == {{"task", "note", "lead"}, {"device", "lead"}, {"news", "lead"}}

Interchangeable == Permutations(TwoRequests) \cup Permutations({emp1, emp2})
                       \cup Permutations(TwoTokens)
=============================================================================
