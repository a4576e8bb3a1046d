----------------------------- MODULE MCUserData -----------------------------
(***************************************************************************)
(* Instances of UserData for TLC. Polls and requests are used once. One    *)
(* run would be large with everything in it, so it starts from several     *)
(* states, all of which UserDataInit leads to.                             *)
(***************************************************************************)
EXTENDS UserData

CONSTANTS p1   \* a poll

AllIntents == Polls \X (0 .. MaxStalls)

\* Days of 4, 3 (spring) and 5 (autumn) units.
FiringTimes == <<-5, -1, 2, 7>>
CatchUpTime == Firing[3] + Shift

\* The polls in failed found user-management down; one in empty has recorded its
\* window, and MonicaHQ had no reminders.
RemindersFrom(t, failed, empty, n) ==
    /\ DeliveryInit
    /\ now = t
    /\ row = [w \in Windows |-> IF empty # {} /\ w = Window(3) THEN "catch_up" ELSE "none"]
    /\ erased = [w \in Windows |-> 0]
    /\ poll = [p \in Polls |-> IF p \in failed THEN "failed"
                              ELSE IF p \in empty THEN "ended" ELSE "idle"]
    /\ pollNow = [p \in Polls |-> IF p \in empty THEN t ELSE 0]
    /\ era = [p \in Polls |-> 0]
    /\ job = [p \in Polls |-> IF p \in empty THEN "completed" ELSE "none"]
    /\ run = [p \in Polls |-> "none"]
    /\ stalls = [p \in Polls |-> 0]
    /\ crashes = n

\* A purge request has been given up; these DELETEs are still on their way.
GivenUp(late) ==
    /\ status = [r \in Requests |-> "failed"]
    /\ due = Requests
    /\ stale = {}
    /\ retries = [r \in Requests |-> MaxRetries]
    /\ sweep = [w \in Sweeps |-> "idle"]
    /\ claimed = [w \in Sweeps |-> {}]
    /\ current = [w \in Sweeps |-> NoRequest]
    /\ answered = [w \in Sweeps |-> {}]
    /\ calls = Requests \X late
    /\ purged = Requests \X (Services \ late)
    /\ refused = {}
    /\ faults = 0

\* Two polls at any times; a purge and a crash around one job; a purge between
\* two polls of one window; the purge alone.
TwoPolls     == RemindersFrom(1, {}, {}, MaxCrashes) /\ GivenUp({})
PurgeAndCrash == RemindersFrom(CatchUpTime, {p1}, {}, 0) /\ GivenUp({"scheduler"})
PurgeBetween == RemindersFrom(CatchUpTime, {}, {p1}, MaxCrashes) /\ GivenUp(Services)
PurgeAlone   == RemindersFrom(Horizon, Polls, {}, MaxCrashes) /\ PurgeInit

LiveSpec ==
    /\ TwoPolls \/ PurgeAndCrash \/ PurgeBetween \/ PurgeAlone
    /\ [][UserDataNext]_userDataVars
    /\ UserDataFairness

=============================================================================
