------------------------------ MODULE MCCheckin ------------------------------
(* What a check-in keeps across its runs: the configuration it applies, the   *)
(* credential, the result spool, the host actions it queues, and the console  *)
(* sessions it spawns.  The parts share no state, so a behaviour runs one of  *)
(* them and leaves the others at rest.                                        *)
EXTENDS ConfigApply, Enrollment, ResultSpool, HostActionQueue, Console

VARIABLE part

CheckinParts == {"config", "enrolment", "spool", "queue", "console"}

\* A push of a list, of one cadence or the other, of both, and of nonsense.
MCGenerations ==
    {[list |-> TRUE,  rescan |-> 0, capture |-> 0, sane |-> TRUE],
     [list |-> TRUE,  rescan |-> 3, capture |-> 0, sane |-> TRUE],
     [list |-> FALSE, rescan |-> 0, capture |-> 3, sane |-> TRUE],
     [list |-> FALSE, rescan |-> 2, capture |-> 1, sane |-> TRUE],
     [list |-> TRUE,  rescan |-> 3, capture |-> 1, sane |-> FALSE]}

CheckinInit ==
    /\ part \in CheckinParts
    /\ ConfInit /\ EnrolInit /\ SpoolInit /\ Init /\ ConsoleInit
    /\ part # "enrolment" => pinned = 0 /\ tokenFile = 1

CheckinNext ==
    /\ \/ /\ part = "config" /\ ConfNext
          /\ UNCHANGED <<enrolVars, spoolVars, vars, consoleVars>>
       \/ /\ part = "enrolment" /\ EnrolNext
          /\ UNCHANGED <<confVars, spoolVars, vars, consoleVars>>
       \/ /\ part = "spool" /\ SpoolNext
          /\ UNCHANGED <<confVars, enrolVars, vars, consoleVars>>
       \/ /\ part = "queue" /\ Next
          /\ UNCHANGED <<confVars, enrolVars, spoolVars, consoleVars>>
       \/ /\ part = "console" /\ ConsoleNext
          /\ UNCHANGED <<confVars, enrolVars, spoolVars, vars>>
    /\ UNCHANGED part

checkinVars == <<part, confVars, enrolVars, spoolVars, vars, consoleVars>>

\* The check-in timer keeps firing.  Other recreates may come again and again but
\* cannot interrupt every check-in for ever.
ConfFairness ==
    /\ WF_confVars(part = "config" /\ \E A \in SUBSET {"update", "host"} : Answered(A))
    /\ SF_confVars(part = "config" /\ WriteLists) /\ SF_confVars(part = "config" /\ WriteEnv)
    /\ SF_confVars(part = "config" /\ WriteVersion)
    /\ WF_confVars(part = "config" /\ (Exits \/ WrapperRecreates \/ WrapperLeaves \/ MarkPending))

\* The timer and the clock, and an administrator who answers refusals.
EnrolFairness ==
    /\ WF_enrolVars(part = "enrolment" /\ EnrolSteps)
    /\ WF_enrolVars(part = "enrolment" /\ HoldPasses)
    /\ SF_enrolVars(part = "enrolment" /\ AdminClears)

\* Both processes go on, the dashboard comes back, check-ins drain.
SpoolFairness ==
    /\ \A p \in Posters : WF_spoolVars(part = "spool" /\ SpoolStep(p))
    /\ WF_spoolVars(part = "spool" /\ DrainStep) /\ WF_spoolVars(part = "spool" /\ ComesBack)

\* As HostActionQueue!Fairness says of the queue alone.
QueueFairness ==
    /\ WF_vars(part = "queue" /\ CheckinStarts)
    /\ WF_vars(part = "queue" /\ Checkin) /\ SF_vars(part = "queue" /\ CheckinEnds(TRUE))
    /\ WF_vars(part = "queue" /\ Drain) /\ WF_vars(part = "queue" /\ UpdateEnds)
    /\ WF_vars(part = "queue" /\ Rebooted /\ rebooting)

\* Every wait of a session has a deadline, and the server reads its socket.
ConsoleFairness ==
    /\ \A i \in Sessions : WF_consoleVars(part = "console" /\ SessionStep(i))
    /\ \A s \in Sids :
          /\ WF_consoleVars(part = "console" /\ (Accept(s) \/ NobodyCame(s) \/ Hello(s)))
          /\ WF_consoleVars(part = "console" /\ Teardown(s))

CheckinSpec ==
    /\ CheckinInit /\ [][CheckinNext]_checkinVars
    /\ ConfFairness /\ EnrolFairness /\ SpoolFairness /\ QueueFairness /\ ConsoleFairness

=============================================================================
