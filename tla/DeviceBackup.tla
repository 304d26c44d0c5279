------------------------------ MODULE DeviceBackup ------------------------------
(***************************************************************************)
(* Signing in to a district's switches to read their configuration         *)
(* (discovery/device_config.py): the nightly pass and "Back up now" walk   *)
(* the targets one by one, "Test SSH" in waves of parallel sessions.  Both *)
(* stop once the credential was rejected by several devices in a row,      *)
(* because a rejected login counts towards locking the account.  On Ruckus *)
(* ICX the session also has to enter privileged mode: one dialog, in which *)
(* anything typed at a waiting prompt is one more login.                   *)
(*                                                                         *)
(* Targets are numbered in the order of the list.  `refused' is kept by    *)
(* the devices, not by the box.                                            *)
(***************************************************************************)
EXTENDS Naturals, FiniteSets

CONSTANTS
    Targets,      \* length of the target list
    Icx,          \* targets of platform ruckus_fastiron
    MaxWorkers,   \* max_workers of test_targets
    Threshold     \* AUTH_BREAKER_THRESHOLD

ASSUME BackupBounds ==
    /\ Targets \in Nat /\ Icx \subseteq 1..Targets
    /\ MaxWorkers \in Nat \ {0} /\ Threshold \in Nat \ {0}

Listed == 1..Targets
Entries == {"ok", "auth", "authz", "other", "stopped", "budget"}

VARIABLES
    kind,         \* "all": fetch_all; "test": test_targets
    launched,     \* targets handed to a session so far: 1..launched
    session,      \* where each session is
    line,         \* the whole prompt an ICX shows as its last line, or "text"
    asked,        \* what its enable dialog was given: "enable", "user", "secret"
    sentUser, sentSecret, unresolved,   \* what its driver remembers
    entry,        \* the result of each target
    recorded,     \* targets folded into the breaker: 1..recorded
    consecutive, tripped,
    refused       \* rejected logins each device has counted (history)

dialogVars == <<line, asked, sentUser, sentSecret, unresolved>>
backupVars == <<kind, launched, session, dialogVars, entry, recorded, consecutive, tripped,
                refused>>

BackupInit ==
    /\ kind \in {"all", "test"}
    /\ launched = 0 /\ recorded = 0 /\ consecutive = 0 /\ tripped = FALSE
    /\ session = [d \in Listed |-> "none"] /\ line = [d \in Listed |-> "text"]
    /\ asked = [d \in Listed |-> "enable"]
    /\ sentUser = [d \in Listed |-> FALSE] /\ sentSecret = [d \in Listed |-> FALSE]
    /\ unresolved = [d \in Listed |-> FALSE]
    /\ entry = [d \in Listed |-> "none"] /\ refused = [d \in Listed |-> 0]

Lesser(a, b) == IF a < b THEN a ELSE b
Headroom == IF Threshold > consecutive THEN Threshold - consecutive ELSE 1
WaveWidth ==
    IF kind = "all" THEN 1
    ELSE IF consecutive = 0 THEN MaxWorkers ELSE Lesser(MaxWorkers, Headroom)

\* Between waves: every launched target has returned and was folded in.
BetweenWaves == recorded = launched /\ launched < Targets

Launch ==
    /\ BetweenWaves /\ ~tripped
    /\ launched' = Lesser(Targets, launched + WaveWidth)
    /\ session' = [d \in Listed |->
          IF d \in (launched + 1)..launched' THEN "dial" ELSE session[d]]
    /\ UNCHANGED <<kind, dialogVars, entry, recorded, consecutive, tripped, refused>>

\* The rest of the list is reported as never attempted, and why.
Skip(why) ==
    /\ BetweenWaves
    /\ launched' = Targets /\ recorded' = Targets
    /\ entry' = [d \in Listed |-> IF d > launched THEN why ELSE entry[d]]
    /\ UNCHANGED <<kind, session, dialogVars, consecutive, tripped, refused>>

StopOnRejections == tripped /\ Skip("stopped")
\* fetch_all looks at its breaker first, test_targets at its clock.
OutOfTime == (kind = "all" => ~tripped) /\ Skip("budget")

Ends(d, how) ==
    /\ session' = [session EXCEPT ![d] = "done"]
    /\ entry' = [entry EXCEPT ![d] = how]
Rejects(d) == refused' = [refused EXCEPT ![d] = @ + 1]
Goes(d, where) == session' = [session EXCEPT ![d] = where]

\* The session fails before a credential was judged, the device rejects the login,
\* its authentication service never answers, or the account is signed in.  An ICX
\* account may land in privileged mode; otherwise the driver types `enable', after
\* it armed the rule that keeps a closing session silent.
DialFails(d) ==
    /\ session[d] = "dial"
    /\ \/ Ends(d, "other") /\ UNCHANGED refused
       \/ Ends(d, "auth") /\ (Rejects(d) \/ UNCHANGED refused)
    /\ UNCHANGED <<kind, launched, dialogVars, recorded, consecutive, tripped>>
SignedIn(d) ==
    /\ session[d] = "dial"
    /\ Goes(d, "read")
    /\ UNCHANGED <<kind, launched, dialogVars, entry, recorded, consecutive, tripped, refused>>
\* Mutant of TypesEnable: the rule that keeps a closing session silent is not armed.
EnablesUnarmed(d) ==
    /\ session[d] = "dial" /\ d \in Icx
    /\ Goes(d, "settle")
    /\ UNCHANGED <<kind, launched, dialogVars, entry, recorded, consecutive, tripped, refused>>
TypesEnable(d) ==
    /\ session[d] = "dial" /\ d \in Icx
    /\ Goes(d, "settle")
    /\ unresolved' = [unresolved EXCEPT ![d] = TRUE]
    /\ UNCHANGED <<kind, launched, line, asked, sentUser, sentSecret, entry, recorded,
                   consecutive, tripped, refused>>

\* The switch answers what it was given last: it asks for a user or a password,
\* grants, refuses back to the unprivileged prompt or by asking again.
Shows(d, what) == line' = [line EXCEPT ![d] = what]
SwitchAnswers(d) ==
    /\ session[d] \in {"settle", "close"} /\ line[d] = "text"
    /\ \/ asked[d] = "enable" /\ UNCHANGED refused
          /\ \E what \in {"user", "pass", "priv", "exec"} : Shows(d, what)
       \/ asked[d] = "user" /\ UNCHANGED refused
          /\ \E what \in {"pass", "exec", "user"} : Shows(d, what)
       \/ asked[d] = "secret" /\ Shows(d, "priv") /\ UNCHANGED refused
       \/ asked[d] = "secret" /\ Rejects(d)
          /\ \E what \in {"exec", "user", "pass"} : Shows(d, what)
    /\ UNCHANGED <<kind, launched, session, asked, sentUser, sentSecret, unresolved, entry,
                   recorded, consecutive, tripped>>

\* Typing at a prompt: the switch works on it, and shows nothing for now.
Types(d, what) ==
    /\ asked' = [asked EXCEPT ![d] = what]
    /\ Shows(d, "text")

Privileged(d) ==
    /\ session[d] = "settle" /\ line[d] = "priv"
    /\ Goes(d, "read") /\ unresolved' = [unresolved EXCEPT ![d] = FALSE]
    /\ UNCHANGED <<kind, launched, line, asked, sentUser, sentSecret, entry, recorded,
                   consecutive, tripped, refused>>
GivesUser(d) ==
    /\ session[d] = "settle" /\ line[d] = "user" /\ ~sentUser[d] /\ ~sentSecret[d]
    /\ sentUser' = [sentUser EXCEPT ![d] = TRUE] /\ Types(d, "user")
    /\ UNCHANGED <<kind, launched, session, sentSecret, unresolved, entry, recorded,
                   consecutive, tripped, refused>>
GivesSecret(d) ==
    /\ session[d] = "settle" /\ line[d] = "pass" /\ ~sentSecret[d]
    /\ sentSecret' = [sentSecret EXCEPT ![d] = TRUE] /\ Types(d, "secret")
    /\ UNCHANGED <<kind, launched, session, sentUser, unresolved, entry, recorded,
                   consecutive, tripped, refused>>

Raises(d, how) ==
    /\ session' = [session EXCEPT ![d] = "close"]
    /\ entry' = [entry EXCEPT ![d] = how]
    /\ UNCHANGED <<kind, launched, line, asked, sentUser, sentSecret, recorded, consecutive,
                   tripped, refused>>
\* Back at the unprivileged prompt: refused if a credential was given, and otherwise
\* no way in for this account, which is no failed login.
BackAtExec(d) ==
    /\ session[d] = "settle" /\ line[d] = "exec"
    /\ unresolved' = [unresolved EXCEPT ![d] = FALSE]
    /\ Raises(d, IF sentUser[d] \/ sentSecret[d] THEN "auth" ELSE "authz")
\* Asked again, or silent until the deadline: always reported as a rejection.
DoesNotComplete(d) ==
    /\ session[d] = "settle"
    /\ \/ line[d] = "user" /\ (sentUser[d] \/ sentSecret[d])
       \/ line[d] = "pass" /\ sentSecret[d]
       \/ line[d] = "text"
    /\ UNCHANGED unresolved
    /\ Raises(d, "auth")

\* Closing.  netmiko types a RETURN and `exit' unless the dialog is unresolved; at a
\* prompt for a credential, or ahead of one, those are a login with an empty password.
Disconnect(d) ==
    /\ session[d] = "close"
    /\ session' = [session EXCEPT ![d] = "done"]
    /\ IF ~unresolved[d] /\ line[d] \in {"user", "pass", "text"}
       THEN Rejects(d) ELSE UNCHANGED refused
    /\ UNCHANGED <<kind, launched, dialogVars, entry, recorded, consecutive, tripped>>

\* Signed in: whatever fails from here on is not about the credential.
ReadConfig(d) ==
    /\ session[d] = "read"
    /\ \E how \in {"ok", "authz", "other"} : Ends(d, how)
    /\ UNCHANGED <<kind, launched, dialogVars, recorded, consecutive, tripped, refused>>

\* The wave is back; its results are folded into the breaker in list order.
Record ==
    /\ recorded < launched /\ \A d \in 1..launched : entry[d] # "none" /\ session[d] = "done"
    /\ recorded' = recorded + 1
    /\ consecutive' = CASE entry[recorded'] = "auth" -> consecutive + 1
                        [] entry[recorded'] = "ok" -> 0
                        [] OTHER -> consecutive
    /\ tripped' = (tripped \/ (entry[recorded'] = "auth" /\ consecutive' >= Threshold))
    /\ UNCHANGED <<kind, launched, session, dialogVars, entry, refused>>

SessionSteps(d) ==
    \/ DialFails(d) \/ SignedIn(d) \/ TypesEnable(d) \/ SwitchAnswers(d)
    \/ Privileged(d) \/ GivesUser(d) \/ GivesSecret(d) \/ BackAtExec(d) \/ DoesNotComplete(d)
    \/ Disconnect(d) \/ ReadConfig(d)
BackupNext ==
    Launch \/ StopOnRejections \/ OutOfTime \/ Record \/ \E d \in Listed : SessionSteps(d)

BackupSpec == BackupInit /\ [][BackupNext]_backupVars
-----------------------------------------------------------------------------
BackupTypeOK ==
    /\ kind \in {"all", "test"} /\ launched \in 0..Targets /\ recorded \in 0..launched
    /\ session \in [Listed -> {"none", "dial", "settle", "close", "read", "done"}]
    /\ line \in [Listed -> {"text", "user", "pass", "priv", "exec"}]
    /\ asked \in [Listed -> {"enable", "user", "secret"}]
    /\ sentUser \in [Listed -> BOOLEAN] /\ sentSecret \in [Listed -> BOOLEAN]
    /\ unresolved \in [Listed -> BOOLEAN]
    /\ entry \in [Listed -> Entries \cup {"none"}]
    /\ consecutive \in Nat /\ tripped \in BOOLEAN
    /\ refused \in [Listed -> Nat]

\* One pass cannot lock the account.  No device counts more than one rejected login,
\* whatever its dialog does and however the session ends, and between two successes
\* the devices together count no more than the breaker's threshold, or one full
\* opening wave of a parallel test.
NoLockout ==
    /\ BackupTypeOK
    /\ \A d \in Listed : refused[d] =< 1
    /\ \A i, j \in Listed :
          (\A d \in i..j : entry[d] # "ok") =>
             Cardinality({d \in i..j : refused[d] > 0}) =<
                IF kind = "all" \/ MaxWorkers < Threshold THEN Threshold ELSE MaxWorkers
=============================================================================
