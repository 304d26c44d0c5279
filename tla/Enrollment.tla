------------------------------ MODULE Enrollment ------------------------------
(***************************************************************************)
(* The credential of a box (checkin.py _current_token, _auto_enroll,       *)
(* _note_checkin_auth, _store_token; run_checkin).                         *)
(*                                                                         *)
(* A box without a token enrols with the shared bootstrap key and stores   *)
(* the token it is issued.  Three check-ins in a row answered 401 delete   *)
(* a stored token, so that the next check-in enrols again; a token pinned  *)
(* in the environment is left alone.  A refused enrolment starts a         *)
(* back-off.  Every check-in is a fresh process: strikes, back-off and     *)
(* token are files.                                                        *)
(*                                                                         *)
(* The dashboard is external: it holds one active enrolment per identity   *)
(* and refuses a second one with 409 until an administrator clears it.     *)
(***************************************************************************)
EXTENDS Integers

CONSTANTS
    ClearThreshold,  \* CHECKIN_401_CLEAR_THRESHOLD
    EnrollBackoff,   \* ENROLL_BACKOFF_SEC, in ticks
    MaxMeddles,      \* bound: tokens revoked or rotated unasked
    MaxBlips,        \* bound: requests unanswered, answers lost, stray 401s, failed writes
    MaxEnrolKills    \* bound: check-ins killed

ASSUME EnrolBounds ==
    /\ ClearThreshold \in Nat \ {0} /\ EnrollBackoff \in Nat \ {0}
    /\ MaxMeddles \in Nat /\ MaxBlips \in Nat /\ MaxEnrolKills \in Nat

VARIABLES
    enrolled,    \* the dashboard's active token for this identity, 0 if cleared
    minted,      \* tokens issued so far
    pinned,      \* NETMON_ENROLL_TOKEN, 0 if it is unset
    tokenFile,   \* enroll-token, 0 if there is none
    strikes,     \* checkin-401-count
    hold,        \* ticks until the back-off of the last refusal is over
    phase,       \* where the check-in is
    bearer,      \* the token this check-in presents
    refusals,    \* consecutive check-ins answered 401 (history)
    meddles, blips, enrolKills

enrolVars == <<enrolled, minted, pinned, tokenFile, strikes, hold, phase, bearer, refusals,
               meddles, blips, enrolKills>>

EnrolPhases == {"idle", "enrol", "store", "checkin", "strike", "clear", "reset", "forgive"}

EnrolInit ==
    /\ enrolled = 1 /\ minted = 1 /\ pinned \in {0, 1} /\ tokenFile \in {0, 1}
    /\ strikes = 0 /\ hold = 0 /\ phase = "idle" /\ bearer = 0 /\ refusals = 0
    /\ meddles = 0 /\ blips = 0 /\ enrolKills = 0

Blip == blips < MaxBlips /\ blips' = blips + 1
EndCheckin == phase' = "idle" /\ bearer' = 0

----------------------------------------------------------------------------
\* run_checkin begins.  Without a token, and during the back-off, it is skipped.
CurrentToken == IF pinned # 0 THEN pinned ELSE tokenFile
StartCheckin ==
    /\ phase = "idle"
    /\ CurrentToken # 0 \/ hold = 0
    /\ bearer' = CurrentToken
    /\ phase' = IF CurrentToken # 0 THEN "checkin" ELSE "enrol"
    /\ UNCHANGED <<enrolled, minted, pinned, tokenFile, strikes, hold, refusals, meddles,
                   blips, enrolKills>>

\* _auto_enroll: the dashboard issues a token, or has an active enrolment and
\* answers 409.  The enrolment may succeed although its answer is lost.
Issue ==
    /\ enrolled = 0
    /\ enrolled' = minted + 1 /\ minted' = minted + 1
Enrol ==
    /\ phase = "enrol"
    /\ \/ /\ Issue                              \* a token came back
          /\ bearer' = minted + 1 /\ phase' = "store" /\ UNCHANGED <<hold, blips>>
       \/ /\ Issue /\ Blip                      \* the answer was lost
          /\ EndCheckin /\ UNCHANGED hold
       \/ /\ enrolled # 0                       \* 409
          /\ hold' = EnrollBackoff /\ EndCheckin /\ UNCHANGED <<enrolled, minted, blips>>
       \/ /\ Blip                               \* no answer, or a 5xx
          /\ EndCheckin /\ UNCHANGED <<enrolled, minted, hold>>
    /\ UNCHANGED <<pinned, tokenFile, strikes, refusals, meddles, enrolKills>>

\* The back-off file is removed, then the token is stored; a failed write is only
\* logged and this check-in goes on with the token.
StoreToken ==
    /\ phase = "store"
    /\ hold' = 0
    /\ \/ tokenFile' = bearer /\ UNCHANGED blips
       \/ Blip /\ UNCHANGED tokenFile
    /\ phase' = "checkin"
    /\ UNCHANGED <<enrolled, minted, pinned, strikes, bearer, refusals, meddles, enrolKills>>

\* The POST of the check-in, and the first write of _note_checkin_auth.
Answer401 ==
    /\ phase = "checkin"
    /\ IF bearer = enrolled THEN Blip ELSE UNCHANGED blips
    /\ refusals' = IF refusals < ClearThreshold THEN refusals + 1 ELSE refusals
    /\ phase' = "strike"
    /\ UNCHANGED <<enrolled, minted, pinned, tokenFile, strikes, hold, bearer, meddles, enrolKills>>
AnswerOther ==
    /\ phase = "checkin"
    /\ IF bearer = enrolled THEN blips' \in {blips, blips + 1} /\ blips' <= MaxBlips ELSE Blip
    /\ refusals' = 0
    /\ phase' = "forgive"
    /\ UNCHANGED <<enrolled, minted, pinned, tokenFile, strikes, hold, bearer, meddles, enrolKills>>

\* Any other outcome breaks the row of refusals.
ForgiveNothing ==  \* mutant: the count survives a check-in that was not refused
    /\ phase = "forgive" /\ EndCheckin
    /\ UNCHANGED <<enrolled, minted, pinned, tokenFile, strikes, hold, refusals, meddles,
                   blips, enrolKills>>
Forgive ==
    /\ phase = "forgive" /\ EndCheckin
    /\ strikes' = 0
    /\ UNCHANGED <<enrolled, minted, pinned, tokenFile, hold, refusals, meddles, blips,
                   enrolKills>>

\* The count is written; at the threshold a token of the file is deleted.
StrikeForgotten ==  \* mutant: the count is not persisted across check-ins
    /\ phase = "strike" /\ EndCheckin
    /\ UNCHANGED <<enrolled, minted, pinned, tokenFile, strikes, hold, refusals, meddles,
                   blips, enrolKills>>
Strike ==
    /\ phase = "strike"
    /\ strikes' = IF strikes < ClearThreshold THEN strikes + 1 ELSE strikes
    /\ IF strikes + 1 < ClearThreshold \/ pinned # 0
       THEN EndCheckin
       ELSE phase' = "clear" /\ UNCHANGED bearer
    /\ UNCHANGED <<enrolled, minted, pinned, tokenFile, hold, refusals, meddles, blips,
                   enrolKills>>
ClearToken ==
    /\ phase = "clear"
    /\ tokenFile' = 0 /\ phase' = "reset"
    /\ UNCHANGED <<enrolled, minted, pinned, strikes, hold, bearer, refusals, meddles, blips,
                   enrolKills>>
ResetStrikes ==
    /\ phase = "reset" /\ EndCheckin
    /\ strikes' = 0
    /\ UNCHANGED <<enrolled, minted, pinned, tokenFile, hold, refusals, meddles, blips,
                   enrolKills>>

EnrolKilled ==
    /\ phase # "idle" /\ enrolKills < MaxEnrolKills
    /\ enrolKills' = enrolKills + 1 /\ EndCheckin
    /\ UNCHANGED <<enrolled, minted, pinned, tokenFile, strikes, hold, refusals, meddles,
                   blips>>

HoldPasses ==
    /\ phase = "idle" /\ hold > 0
    /\ hold' = hold - 1
    /\ UNCHANGED <<enrolled, minted, pinned, tokenFile, strikes, phase, bearer, refusals, meddles,
                   blips, enrolKills>>

----------------------------------------------------------------------------
\* An administrator clears the enrolment of a box that was refused; or, unasked,
\* revokes the token or rotates it to one the box does not have.
AdminClears ==
    /\ enrolled # 0 /\ hold > 0
    /\ enrolled' = 0
    /\ UNCHANGED <<minted, pinned, tokenFile, strikes, hold, phase, bearer, refusals, meddles,
                   blips, enrolKills>>
AdminMeddles ==
    /\ meddles < MaxMeddles /\ meddles' = meddles + 1
    /\ \/ enrolled' = 0 /\ UNCHANGED minted
       \/ enrolled' = minted + 1 /\ minted' = minted + 1
    /\ UNCHANGED <<pinned, tokenFile, strikes, hold, phase, bearer, refusals, blips, enrolKills>>

EnrolSteps ==
    \/ StartCheckin \/ Enrol \/ StoreToken \/ Answer401 \/ AnswerOther
    \/ Forgive \/ Strike \/ ClearToken \/ ResetStrikes
EnrolNext == EnrolSteps \/ EnrolKilled \/ HoldPasses \/ AdminClears \/ AdminMeddles

EnrolSpec == EnrolInit /\ [][EnrolNext]_enrolVars

----------------------------------------------------------------------------
EnrolTypeOK ==
    /\ minted \in Nat /\ enrolled \in 0..minted /\ pinned \in {0, 1}
    /\ tokenFile \in 0..minted /\ strikes \in 0..ClearThreshold
    /\ hold \in 0..EnrollBackoff /\ phase \in EnrolPhases /\ bearer \in 0..minted
    /\ refusals \in 0..ClearThreshold /\ meddles \in 0..MaxMeddles
    /\ blips \in 0..MaxBlips /\ enrolKills \in 0..MaxEnrolKills

\* A stored token is deleted only after the threshold of refusals in a row, and
\* one the dashboard still honours only if as many of them were strays: refusals
\* of an earlier token, or before a check-in that worked, never count.
LiveTokenKept ==
    []EnrolTypeOK /\ [][tokenFile # 0 /\ tokenFile' = 0 =>
          \/ enrolKills > 0
          \/ /\ pinned = 0 /\ refusals >= ClearThreshold
             /\ tokenFile # enrolled \/ blips >= ClearThreshold]_enrolVars

\* Whatever was lost, refused, revoked or killed, an unpinned box ends up with the
\* token the dashboard honours, provided refusals are answered.
Repaired == pinned = 0 => <>[](enrolled # 0 /\ tokenFile = enrolled)
=============================================================================
