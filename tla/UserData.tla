------------------------------- MODULE UserData -------------------------------
(***************************************************************************)
(* The purge of a user's data by user-management together with what it     *)
(* deletes: the reminder windows of the scheduler and the audit rows of    *)
(* delivery, while polls, jobs and deliveries for that user go on.         *)
(***************************************************************************)
EXTENDS Reminders, DataPurge

ASSUME UserDataAssumption == {"scheduler", "delivery"} \subseteq Services

userDataVars == <<vars, purgeVars>>

\* What a service deletes; ai-router's data is not part of this module.
Erase(s) ==
    \/ s = "scheduler" /\ EraseWindows /\ UNCHANGED deliveryVars
    \/ s = "delivery" /\ PurgeAudits /\ UNCHANGED reminderVars
    \/ s \notin {"scheduler", "delivery"} /\ UNCHANGED vars

UserDataInit == Init /\ PurgeInit

UserDataNext ==
    \/ RemindersOwn /\ UNCHANGED purgeVars
    \/ PurgeOwn /\ UNCHANGED vars
    \/ \E r \in Requests, s \in Services : Reach(r, s) /\ Erase(s)

UserDataSpec == UserDataInit /\ [][UserDataNext]_userDataVars

\* The types of the purge and of what it deletes.
UserDataTypeOK == TypeOK /\ PurgeTypeOK

UserDataFairness == RemindersFairness /\ PurgeFairness

=============================================================================
