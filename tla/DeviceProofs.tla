----------------------------- MODULE DeviceProofs -----------------------------
(***************************************************************************)
(* What reaching into the devices may do to them.  One pass over the       *)
(* switches cannot lock the account, for every number of targets and of    *)
(* parallel sessions, every threshold, and every way a dialog can go:      *)
(* first each device by itself, whose dialog costs at most one rejected    *)
(* login, which is then what its result says; then the list, where the     *)
(* breaker's count covers every rejection since the last success, and a    *)
(* wave is never wider than what is left below the threshold.  An SNMP     *)
(* poll asks whom the operator said, in that order.  And of a              *)
(* configuration nothing leaves that was recognized as a secret.           *)
(***************************************************************************)
EXTENDS DeviceBackup, SnmpPoll, Redaction, ListLemmas, FiniteSetTheorems, TLAPS

\* What a device has counted and what its driver remembers, by where its session
\* is.  An open dialog stays unresolved until it is granted or plainly refused.
DialogOf(d) ==
    /\ refused[d] <= 1
    /\ session[d] \in {"none", "dial"} =>
          /\ refused[d] = 0 /\ entry[d] \in {"none", "stopped", "budget"}
          /\ asked[d] = "enable" /\ line[d] = "text" /\ ~sentSecret[d]
    /\ session[d] \in {"dial", "settle", "read"} => entry[d] = "none"
    /\ session[d] = "settle" => unresolved[d]
    /\ session[d] = "read" => refused[d] = 0
    /\ session[d] \in {"settle", "close"} =>
          /\ asked[d] = "secret" <=> sentSecret[d]
          /\ refused[d] > 0 => asked[d] = "secret" /\ line[d] \in {"exec", "user", "pass"}
    /\ session[d] = "close" => (unresolved[d] /\ entry[d] = "auth") \/ line[d] = "exec"
    /\ session[d] \in {"close", "done"} => (refused[d] > 0 => entry[d] = "auth")

\* Sessions are opened in list order, and what is folded in has ended.
InOrder ==
    /\ \A d \in Listed : d > launched =>
          session[d] = "none" /\ entry[d] = "none" /\ refused[d] = 0
    /\ \A d \in Listed : d <= recorded => session[d] \in {"none", "done"}

RejectBound == IF kind = "all" \/ MaxWorkers < Threshold THEN Threshold ELSE MaxWorkers
AuthIn(i, j) == {d \in i..j : entry[d] = "auth"}

\* The breaker's count covers what was rejected since the last success, and leaves
\* room for every session that is still out.
BreakerCovers ==
    /\ \A i \in 1..recorded :
          (\A d \in i..recorded : entry[d] # "ok") => Cardinality(AuthIn(i, recorded)) <= consecutive
    /\ \A i, j \in 1..recorded :
          (\A d \in i..j : entry[d] # "ok") => Cardinality(AuthIn(i, j)) <= RejectBound
    /\ consecutive + (launched - recorded) <= RejectBound
    /\ ~tripped => consecutive < Threshold

\* The inductive invariant.
IInv == BackupTypeOK /\ InOrder /\ (\A d \in Listed : DialogOf(d)) /\ BreakerCovers

----------------------------------------------------------------------------
(* One device.                                                             *)

\* A pass starts with no login rejected.
LEMMA InitIInv == BackupInit => IInv
<1> SUFFICES ASSUME BackupInit PROVE IInv
  OBVIOUS
<1> USE BackupBounds DEF BackupInit, Listed
<1>1. BackupTypeOK
  <2>1. /\ kind \in {"all", "test"} /\ launched \in 0..Targets /\ recorded \in 0..launched
        /\ session \in [Listed -> {"none", "dial", "settle", "close", "read", "done"}]
        /\ line \in [Listed -> {"text", "user", "pass", "priv", "exec"}]
        /\ asked \in [Listed -> {"enable", "user", "secret"}]
        /\ entry \in [Listed -> Entries \cup {"none"}]
        /\ consecutive \in Nat /\ refused \in [Listed -> Nat]
    BY DEF Entries
  <2>2. /\ sentUser \in [Listed -> BOOLEAN] /\ sentSecret \in [Listed -> BOOLEAN]
        /\ unresolved \in [Listed -> BOOLEAN] /\ tripped \in BOOLEAN
    OBVIOUS
  <2> QED BY <2>1, <2>2 DEF BackupTypeOK
<1>2. InOrder /\ \A d \in Listed : DialogOf(d)
  BY DEF InOrder, DialogOf
<1>3. BreakerCovers
  BY DEF BreakerCovers, RejectBound
<1> QED BY <1>1, <1>2, <1>3 DEF IInv

\* A step of a session moves an open session and its own device only.
LEMMA SessionFrame ==
    ASSUME BackupTypeOK, NEW d \in Listed, SessionSteps(d)
    PROVE  /\ UNCHANGED <<kind, launched, recorded, consecutive, tripped>>
           /\ session[d] \in {"dial", "settle", "close", "read"}
           /\ \A e \in Listed \ {d} :
                 /\ session'[e] = session[e] /\ entry'[e] = entry[e] /\ refused'[e] = refused[e]
                 /\ line'[e] = line[e] /\ asked'[e] = asked[e] /\ sentUser'[e] = sentUser[e]
                 /\ sentSecret'[e] = sentSecret[e] /\ unresolved'[e] = unresolved[e]
<1> USE DEF BackupTypeOK, SessionSteps, Goes, Ends, Rejects, Shows, Types, Raises, dialogVars
<1>1. CASE DialFails(d) \/ SignedIn(d) \/ TypesEnable(d)
  BY <1>1 DEF DialFails, SignedIn, TypesEnable
<1>2. CASE SwitchAnswers(d) \/ Privileged(d)
  BY <1>2 DEF SwitchAnswers, Privileged
<1>3. CASE GivesUser(d) \/ GivesSecret(d)
  BY <1>3 DEF GivesUser, GivesSecret
<1>4. CASE BackAtExec(d) \/ DoesNotComplete(d)
  BY <1>4 DEF BackAtExec, DoesNotComplete
<1>5. CASE Disconnect(d) \/ ReadConfig(d)
  BY <1>5 DEF Disconnect, ReadConfig
<1> QED BY <1>1, <1>2, <1>3, <1>4, <1>5

\* A step of a session keeps the types.
LEMMA SessionTypes ==
    ASSUME BackupTypeOK, NEW d \in Listed, SessionSteps(d)
    PROVE  BackupTypeOK'
<1> USE DEF BackupTypeOK, SessionSteps, Goes, Ends, Rejects, Shows, Types, Raises, dialogVars,
            Entries
<1>1. CASE DialFails(d)
  BY <1>1 DEF DialFails
<1>6. CASE SignedIn(d)
  BY <1>6 DEF SignedIn
<1>7. CASE TypesEnable(d)
  BY <1>7 DEF TypesEnable
<1>2. CASE SwitchAnswers(d)
  <2>1. /\ line' \in [Listed -> {"text", "user", "pass", "priv", "exec"}]
        /\ refused' \in [Listed -> Nat]
    BY <1>2 DEF SwitchAnswers
  <2>2. UNCHANGED <<kind, launched, session, asked, sentUser, sentSecret, unresolved, entry,
                    recorded, consecutive, tripped>>
    BY <1>2 DEF SwitchAnswers
  <2> QED BY <2>1, <2>2
<1>3. CASE Privileged(d) \/ GivesUser(d) \/ GivesSecret(d)
  BY <1>3 DEF Privileged, GivesUser, GivesSecret
<1>4. CASE BackAtExec(d) \/ DoesNotComplete(d)
  BY <1>4 DEF BackAtExec, DoesNotComplete
<1>5. CASE Disconnect(d) \/ ReadConfig(d)
  BY <1>5 DEF Disconnect, ReadConfig
<1> QED BY <1>1, <1>2, <1>3, <1>4, <1>5, <1>6, <1>7

\* The dialog of the device that moves: nothing is typed where it would be a second
\* login, and a session that closes silently rejects nothing.
LEMMA DialogStep ==
    ASSUME BackupTypeOK, NEW d \in Listed, DialogOf(d), SessionSteps(d)
    PROVE  DialogOf(d)'
<1> USE DEF BackupTypeOK, DialogOf, Goes, Ends, Rejects, Shows, Types, Raises, dialogVars, Entries
<1>1. CASE DialFails(d)
  BY <1>1 DEF DialFails
<1>2. CASE SignedIn(d)
  BY <1>2 DEF SignedIn
<1>3. CASE TypesEnable(d)
  BY <1>3 DEF TypesEnable
<1>4. CASE SwitchAnswers(d)
  <2> USE <1>4 DEF SwitchAnswers
  <2>1. session'[d] = session[d] /\ entry'[d] = entry[d] /\ asked'[d] = asked[d]
        /\ sentSecret'[d] = sentSecret[d] /\ unresolved'[d] = unresolved[d]
    OBVIOUS
  <2>2. /\ refused[d] = 0 /\ session[d] \in {"settle", "close"}
        /\ unresolved[d] /\ sentSecret[d] <=> asked[d] = "secret"
        /\ session[d] = "settle" => entry[d] = "none"
    OBVIOUS
  <2>3. CASE asked[d] # "secret"
    <3>1. refused'[d] = 0
      BY <2>2, <2>3
    <3> QED BY <2>1, <3>1
  <2>4. CASE asked[d] = "secret"
    <3>1. \/ refused'[d] = 0
          \/ refused'[d] = 1 /\ line'[d] \in {"exec", "user", "pass"}
      BY <2>2, <2>4
    <3>2. session[d] = "close" => entry[d] = "auth"
      BY <2>2, <2>4
    <3> QED BY <2>1, <2>2, <3>1, <3>2, <2>4
  <2> QED BY <2>3, <2>4
<1>5. CASE Privileged(d)
  BY <1>5 DEF Privileged
<1>6. CASE GivesUser(d)
  BY <1>6 DEF GivesUser
<1>7. CASE GivesSecret(d)
  BY <1>7 DEF GivesSecret
<1>8. CASE BackAtExec(d)
  BY <1>8 DEF BackAtExec
<1>9. CASE DoesNotComplete(d)
  BY <1>9 DEF DoesNotComplete
<1>10. CASE Disconnect(d)
  BY <1>10 DEF Disconnect
<1>11. CASE ReadConfig(d)
  BY <1>11 DEF ReadConfig
<1> QED
  BY <1>1, <1>2, <1>3, <1>4, <1>5, <1>6, <1>7, <1>8, <1>9, <1>10, <1>11 DEF SessionSteps

----------------------------------------------------------------------------
(* The list.                                                               *)

\* Rejections of a stretch of the list can be counted.
LEMMA AuthFinite ==
    ASSUME NEW i \in Int, NEW j \in Int
    PROVE  IsFiniteSet(AuthIn(i, j)) /\ Cardinality(AuthIn(i, j)) \in Nat
<1>1. IsFiniteSet(i..j)
  BY FS_Interval
<1>2. AuthIn(i, j) \in SUBSET (i..j)
  BY DEF AuthIn
<1>3. IsFiniteSet(AuthIn(i, j))
  BY <1>1, <1>2, FS_Subset
<1> QED BY <1>3, FS_CardinalityType

\* A session that moves has not been folded in: the list keeps its order and the
\* breaker its count.
LEMMA ListSession ==
    ASSUME IInv, NEW d \in Listed, SessionSteps(d)
    PROVE  InOrder' /\ BreakerCovers'
<1> USE DEF IInv
<1>1. /\ UNCHANGED <<kind, launched, recorded, consecutive, tripped>>
      /\ session[d] \in {"dial", "settle", "close", "read"}
      /\ \A e \in Listed \ {d} :
            session'[e] = session[e] /\ entry'[e] = entry[e] /\ refused'[e] = refused[e]
  BY SessionFrame
<1>2. recorded < d /\ d <= launched
  BY <1>1 DEF InOrder, BackupTypeOK, Listed
<1>3. InOrder'
  BY <1>1, <1>2 DEF InOrder
<1>4. \A e \in 1..recorded : e \in Listed \ {d}
  BY <1>2, BackupBounds DEF Listed, BackupTypeOK
<1>5. \A i, j \in 1..recorded : AuthIn(i, j)' = AuthIn(i, j)
  BY <1>1, <1>4 DEF AuthIn, BackupTypeOK
<1>6. \A i, j \in 1..recorded : \A e \in i..j : entry'[e] = entry[e]
  BY <1>1, <1>4 DEF BackupTypeOK
<1>7. \A i \in 1..recorded : recorded \in 1..recorded
  BY DEF BackupTypeOK
<1> QED BY <1>1, <1>3, <1>5, <1>6, <1>7 DEF BreakerCovers, RejectBound

\* A wave fits into what the breaker has left.
LEMMA ListLaunch ==
    ASSUME IInv, Launch
    PROVE  IInv'
<1> USE BackupBounds DEF IInv, Launch, BetweenWaves
<1>1. WaveWidth \in Nat \ {0} /\ consecutive + WaveWidth <= RejectBound
  BY DEF WaveWidth, Headroom, Lesser, RejectBound, BreakerCovers, BackupTypeOK
<1>2. /\ launched' \in launched..Targets /\ launched' <= launched + WaveWidth
      /\ launched < launched'
  BY <1>1 DEF Lesser, BackupTypeOK
<1>3. /\ UNCHANGED <<kind, dialogVars, entry, recorded, consecutive, tripped, refused>>
      /\ \A d \in Listed : session'[d] =
            IF d \in (launched + 1)..launched' THEN "dial" ELSE session[d]
  BY DEF Launch
<1>4. BackupTypeOK'
  BY <1>2, <1>3 DEF BackupTypeOK, dialogVars
<1>5. InOrder'
  BY <1>2, <1>3 DEF InOrder, BackupTypeOK, Listed
<1>6. ASSUME NEW d \in Listed PROVE DialogOf(d)'
  <2>1. CASE d \in (launched + 1)..launched'
    <3>1. session[d] = "none" /\ entry[d] = "none" /\ session'[d] = "dial"
      BY <1>3, <2>1 DEF InOrder, BackupTypeOK
    <3> QED BY <1>3, <3>1 DEF DialogOf, dialogVars
  <2>2. CASE d \notin (launched + 1)..launched'
    BY <1>3, <2>2 DEF DialogOf, dialogVars
  <2> QED BY <2>1, <2>2
<1>7. BreakerCovers'
  <2>1. consecutive' + (launched' - recorded') <= RejectBound'
    BY <1>1, <1>2, <1>3 DEF RejectBound, BackupTypeOK
  <2> QED BY <1>3, <2>1 DEF BreakerCovers, RejectBound, AuthIn
<1> QED BY <1>4, <1>5, <1>6, <1>7

\* What is skipped was not attempted.
LEMMA ListSkip ==
    ASSUME IInv, NEW why \in {"stopped", "budget"}, Skip(why)
    PROVE  IInv'
<1> USE BackupBounds DEF IInv, Skip, BetweenWaves
<1>1. /\ UNCHANGED <<kind, session, dialogVars, consecutive, tripped, refused>>
      /\ launched' = Targets /\ recorded' = Targets /\ recorded = launched /\ launched < Targets
      /\ \A d \in Listed : entry'[d] = IF d > launched THEN why ELSE entry[d]
      /\ entry' \in [Listed -> Entries \cup {"none"}]
  BY DEF Entries, BackupTypeOK
<1>2. BackupTypeOK'
  BY <1>1 DEF BackupTypeOK, dialogVars
<1>3. \A d \in Listed : d > launched => session[d] = "none" /\ entry[d] = "none" /\ refused[d] = 0
  BY DEF InOrder
<1>4. InOrder'
  BY <1>1, <1>3 DEF InOrder, BackupTypeOK, Listed
<1>5. ASSUME NEW d \in Listed PROVE DialogOf(d)'
  BY <1>1, <1>3 DEF DialogOf, dialogVars
<1>6. BreakerCovers'
  <2> recorded \in 0..Targets /\ recorded = launched
    BY <1>1 DEF BackupTypeOK
  <2>0. ASSUME NEW d \in 1..Targets
        PROVE  /\ entry'[d] = "auth" <=> d <= recorded /\ entry[d] = "auth"
               /\ d <= recorded => entry'[d] = entry[d]
    BY <1>1 DEF Listed
  <2>1. ASSUME NEW i \in 1..Targets, NEW j \in 1..Targets,
               \A d \in i..j : entry'[d] # "ok"
        PROVE  /\ AuthIn(i, j)' = {} \/ i \in 1..recorded
               /\ j > recorded /\ i \in 1..recorded =>
                     /\ AuthIn(i, j)' = AuthIn(i, recorded)
                     /\ \A d \in i..recorded : entry[d] # "ok"
               /\ j <= recorded =>
                     /\ AuthIn(i, j)' = AuthIn(i, j)
                     /\ \A d \in i..j : entry[d] # "ok"
    <3>1. AuthIn(i, j)' = {d \in i..j : d <= recorded /\ entry[d] = "auth"}
      BY <2>0 DEF AuthIn
    <3>2. AuthIn(i, j)' = {} \/ i \in 1..recorded
      BY <3>1
    <3>3. ASSUME j > recorded PROVE AuthIn(i, j)' = AuthIn(i, recorded)
      BY <3>1, <3>3 DEF AuthIn
    <3>4. ASSUME j <= recorded PROVE AuthIn(i, j)' = AuthIn(i, j)
      BY <3>1, <3>4 DEF AuthIn
    <3>5. \A d \in i..j : d <= recorded => entry[d] # "ok"
      BY <2>0, <2>1
    <3> QED BY <3>2, <3>3, <3>4, <3>5
  <2>2. consecutive <= RejectBound /\ RejectBound \in Nat
    BY <1>1 DEF BreakerCovers, BackupTypeOK, RejectBound
  <2>3. ASSUME NEW i \in 1..Targets, NEW j \in 1..Targets, j > recorded,
               \A d \in i..j : entry'[d] # "ok"
        PROVE  Cardinality(AuthIn(i, j)') <= consecutive
    <3>1. CASE i \in 1..recorded
      BY <2>1, <2>3, <3>1 DEF BreakerCovers, BackupTypeOK
    <3>2. CASE i \notin 1..recorded
      <4>1. AuthIn(i, j)' = {}
        BY <2>1, <2>3, <3>2
      <4> QED BY <4>1, FS_EmptySet DEF BackupTypeOK
    <3> QED BY <3>1, <3>2
  <2>4. ASSUME NEW i \in 1..Targets, NEW j \in 1..Targets, j <= recorded,
               \A d \in i..j : entry'[d] # "ok"
        PROVE  Cardinality(AuthIn(i, j)') <= RejectBound
    <3>1. CASE i \in 1..recorded
      BY <2>1, <2>4, <3>1 DEF BreakerCovers, BackupTypeOK
    <3>2. CASE i \notin 1..recorded
      <4>1. AuthIn(i, j)' = {}
        BY <2>1, <2>4, <3>2
      <4> QED BY <2>2, <4>1, FS_EmptySet
    <3> QED BY <3>1, <3>2
  <2>5. \A i \in 1..Targets : (\A d \in i..Targets : entry'[d] # "ok") =>
            Cardinality(AuthIn(i, Targets)') <= consecutive
    BY <1>1, <2>3 DEF BackupTypeOK
  <2>6. \A i, j \in 1..Targets : (\A d \in i..j : entry'[d] # "ok") =>
            Cardinality(AuthIn(i, j)') <= RejectBound
    <3> SUFFICES ASSUME NEW i \in 1..Targets, NEW j \in 1..Targets,
                        \A d \in i..j : entry'[d] # "ok"
                 PROVE  Cardinality(AuthIn(i, j)') <= RejectBound
      OBVIOUS
    <3>1. IsFiniteSet(AuthIn(i, j)') /\ Cardinality(AuthIn(i, j)') \in Nat
      <4>1. AuthIn(i, j)' \in SUBSET (i..j)
        BY DEF AuthIn
      <4>2. IsFiniteSet(AuthIn(i, j)')
        BY <4>1, FS_Interval, FS_Subset
      <4> QED BY <4>2, FS_CardinalityType
    <3>2. CASE j <= recorded
      BY <2>4, <3>2
    <3>3. CASE j > recorded
      BY <2>2, <2>3, <3>1, <3>3 DEF BackupTypeOK
    <3> QED BY <3>2, <3>3 DEF BackupTypeOK
  <2>7. RejectBound' = RejectBound /\ consecutive' + (launched' - recorded') <= RejectBound
    BY <1>1, <2>2 DEF RejectBound, BackupTypeOK
  <2>8. ~tripped' => consecutive' < Threshold
    BY <1>1 DEF BreakerCovers
  <2>9. /\ \A i \in 1..recorded' : (\A d \in i..recorded' : entry'[d] # "ok") =>
              Cardinality(AuthIn(i, recorded)') <= consecutive'
        /\ \A i, j \in 1..recorded' : (\A d \in i..j : entry'[d] # "ok") =>
              Cardinality(AuthIn(i, j)') <= RejectBound'
    BY <1>1, <2>5, <2>6, <2>7 DEF AuthIn
  <2> QED BY <2>7, <2>8, <2>9 DEF BreakerCovers
<1> QED BY <1>2, <1>4, <1>5, <1>6

\* A result that is folded in is counted as it was rejected, or starts a new count.
LEMMA ListRecord ==
    ASSUME IInv, Record
    PROVE  IInv'
<1> DEFINE r == recorded + 1
<1>1. /\ UNCHANGED <<kind, launched, session, dialogVars, entry, refused>>
      /\ recorded' = r /\ r \in 1..launched /\ recorded \in Nat /\ launched \in 1..Targets
      /\ entry[r] \in Entries /\ \A d \in 1..launched : session[d] = "done"
  <2>1. /\ UNCHANGED <<kind, launched, session, dialogVars, entry, refused>>
        /\ recorded' = r /\ recorded < launched
        /\ \A d \in 1..launched : entry[d] # "none" /\ session[d] = "done"
    BY DEF Record
  <2>2. /\ launched \in 0..Targets /\ recorded \in 0..launched
        /\ entry \in [1..Targets -> Entries \cup {"none"}]
    BY DEF IInv, BackupTypeOK, Listed
  <2>3. r \in 1..launched /\ recorded \in Nat /\ launched \in 1..Targets /\ r \in 1..Targets
    BY <2>1, <2>2, BackupBounds
  <2> QED BY <2>1, <2>2, <2>3
<1>2. /\ consecutive' = CASE entry[r] = "auth" -> consecutive + 1
                          [] entry[r] = "ok" -> 0
                          [] OTHER -> consecutive
      /\ tripped' = (tripped \/ (entry[r] = "auth" /\ consecutive' >= Threshold))
      /\ consecutive \in Nat /\ consecutive' \in Nat /\ consecutive' <= consecutive + 1
      /\ tripped \in BOOLEAN /\ (~tripped => consecutive < Threshold) /\ Threshold \in Nat
  BY <1>1, BackupBounds DEF IInv, Record, BackupTypeOK, BreakerCovers
<1>3. BackupTypeOK'
  BY <1>1, <1>2, BackupBounds DEF IInv, BackupTypeOK, dialogVars
<1>4. InOrder'
  BY <1>1 DEF IInv, InOrder, BackupTypeOK, Listed
<1>5. \A d \in Listed : DialogOf(d)'
  BY <1>1 DEF IInv, DialogOf, dialogVars
<1>7. ~tripped' => consecutive' < Threshold
  <2>1. CASE entry[r] = "auth"
    <3> SUFFICES ASSUME ~(consecutive' < Threshold) PROVE tripped'
      OBVIOUS
    <3>1. consecutive' >= Threshold
      BY <1>2
    <3> QED BY <1>2, <2>1, <3>1
  <2>2. CASE entry[r] # "auth"
    <3>1. consecutive' <= consecutive /\ tripped' = tripped
      BY <1>2, <2>2
    <3> QED BY <1>2, <3>1
  <2> QED BY <2>1, <2>2
<1>8. RejectBound' = RejectBound /\ consecutive' + (launched' - recorded') <= RejectBound
  BY <1>1, <1>2, BackupBounds DEF IInv, BreakerCovers, BackupTypeOK, RejectBound
<1>9. ASSUME NEW i \in 1..r, \A d \in i..r : entry[d] # "ok"
      PROVE  Cardinality(AuthIn(i, r)) <= consecutive'
  <2>1. entry[r] # "ok"
    BY <1>1, <1>9
  <2>2. IsFiniteSet(AuthIn(i, recorded)) /\ Cardinality(AuthIn(i, recorded)) \in Nat
    <3>1. i \in Int /\ recorded \in Int
      BY <1>1
    <3> QED BY <3>1, AuthFinite
  <2>3. Cardinality(AuthIn(i, recorded)) <= consecutive
    <3>1. CASE i \in 1..recorded
      BY <1>1, <1>9, <3>1 DEF IInv, BreakerCovers
    <3>2. CASE i \notin 1..recorded
      <4>1. AuthIn(i, recorded) = {}
        BY <1>1, <3>2 DEF AuthIn
      <4> QED BY <1>2, <4>1, FS_EmptySet
    <3> QED BY <3>1, <3>2
  <2>4. CASE entry[r] = "auth"
    <3>1. AuthIn(i, r) = AuthIn(i, recorded) \cup {r}
      BY <1>1, <2>4 DEF AuthIn
    <3>2. Cardinality(AuthIn(i, recorded) \cup {r}) =
              IF r \in AuthIn(i, recorded) THEN Cardinality(AuthIn(i, recorded))
              ELSE Cardinality(AuthIn(i, recorded)) + 1
      BY <2>2, FS_AddElement
    <3>3. Cardinality(AuthIn(i, r)) <= Cardinality(AuthIn(i, recorded)) + 1
          /\ Cardinality(AuthIn(i, r)) \in Nat
      BY <2>2, <3>1, <3>2
    <3> HIDE DEF r
    <3> QED BY <1>2, <2>2, <2>3, <2>4, <3>3
  <2>5. CASE entry[r] # "auth"
    <3>1. AuthIn(i, r) = AuthIn(i, recorded)
      BY <1>1, <2>5 DEF AuthIn
    <3> QED BY <1>2, <2>1, <2>3, <2>5, <3>1
  <2> QED BY <2>4, <2>5
<1>10. ASSUME NEW i \in 1..r, NEW j \in 1..r, \A d \in i..j : entry[d] # "ok"
       PROVE  Cardinality(AuthIn(i, j)) <= RejectBound
  <2>0. RejectBound \in Nat /\ consecutive' <= RejectBound
    BY <1>1, <1>2, <1>8, BackupBounds DEF RejectBound
  <2>1. CASE j = r
    <3>1. Cardinality(AuthIn(i, j)) <= consecutive'
      BY <1>9, <1>10, <2>1
    <3> QED BY <1>1, <1>2, <2>0, <3>1, AuthFinite
  <2>2. CASE j # r /\ i \in 1..recorded
    BY <1>1, <1>10, <2>2 DEF IInv, BreakerCovers
  <2>3. CASE j # r /\ i \notin 1..recorded
    <3>1. AuthIn(i, j) = {}
      BY <1>1, <2>3 DEF AuthIn
    <3> QED BY <2>0, <3>1, FS_EmptySet
  <2> QED BY <2>1, <2>2, <2>3
<1>11. BreakerCovers'
  <2>0. entry' = entry /\ recorded' = r
    BY <1>1
  <2> HIDE DEF r
  <2>1. ASSUME NEW i \in 1..recorded', \A d \in i..recorded' : entry'[d] # "ok"
        PROVE  Cardinality(AuthIn(i, recorded)') <= consecutive'
    <3>1. AuthIn(i, recorded)' = AuthIn(i, r)
      BY <2>0 DEF AuthIn
    <3>2. Cardinality(AuthIn(i, r)) <= consecutive'
      BY <1>9, <2>0, <2>1
    <3> QED BY <3>1, <3>2
  <2>2. ASSUME NEW i \in 1..recorded', NEW j \in 1..recorded', \A d \in i..j : entry'[d] # "ok"
        PROVE  Cardinality(AuthIn(i, j)') <= RejectBound'
    <3>1. AuthIn(i, j)' = AuthIn(i, j)
      BY <2>0 DEF AuthIn
    <3>2. Cardinality(AuthIn(i, j)) <= RejectBound
      BY <1>10, <2>0, <2>2
    <3> QED BY <3>1, <3>2, <1>8
  <2> QED BY <1>7, <1>8, <2>1, <2>2 DEF BreakerCovers
<1> QED BY <1>3, <1>4, <1>5, <1>11 DEF IInv

----------------------------------------------------------------------------
(* The properties.                                                         *)

\* Every step of the pass keeps each dialog and the breaker's count.
LEMMA StepIInv == IInv /\ [BackupNext]_backupVars => IInv'
<1> SUFFICES ASSUME IInv, [BackupNext]_backupVars PROVE IInv'
  OBVIOUS
<1>1. CASE Launch
  BY <1>1, ListLaunch
<1>2. CASE StopOnRejections
  BY <1>2, ListSkip DEF StopOnRejections
<1>3. CASE OutOfTime
  BY <1>3, ListSkip DEF OutOfTime
<1>4. CASE Record
  BY <1>4, ListRecord
<1>5. ASSUME NEW d \in Listed, SessionSteps(d) PROVE IInv'
  <2>1. BackupTypeOK'
    BY <1>5, SessionTypes DEF IInv
  <2>2. InOrder' /\ BreakerCovers'
    BY <1>5, ListSession
  <2>3. DialogOf(d)'
    BY <1>5, DialogStep DEF IInv
  <2>4. ASSUME NEW e \in Listed \ {d} PROVE DialogOf(e)'
    <3>1. /\ session'[e] = session[e] /\ entry'[e] = entry[e] /\ refused'[e] = refused[e]
          /\ line'[e] = line[e] /\ asked'[e] = asked[e]
          /\ sentSecret'[e] = sentSecret[e] /\ unresolved'[e] = unresolved[e]
      BY <1>5, SessionFrame DEF IInv
    <3>2. DialogOf(e)
      BY DEF IInv
    <3> QED BY <3>1, <3>2 DEF DialogOf
  <2> QED BY <2>1, <2>2, <2>3, <2>4 DEF IInv
<1>6. CASE UNCHANGED backupVars
  BY <1>6 DEF backupVars, dialogVars, IInv, BackupTypeOK, InOrder, DialogOf, BreakerCovers,
              RejectBound, AuthIn
<1> QED BY <1>1, <1>2, <1>3, <1>4, <1>5, <1>6 DEF BackupNext

\* The dialogs and the breaker's count are an inductive invariant.
THEOREM Inductive == BackupSpec => []IInv
BY InitIInv, StepIInv, PTL DEF BackupSpec

\* What a stretch of the list has rejected was folded in, or is out with the wave.
LEMMA CountedOrOut ==
    ASSUME IInv, NEW i \in Listed, NEW j \in Listed, \A d \in i..j : entry[d] # "ok"
    PROVE  Cardinality({d \in i..j : refused[d] > 0}) <= RejectBound
<1> DEFINE R == {d \in i..j : refused[d] > 0}
<1> DEFINE out == (recorded + 1)..launched
<1>0. /\ i \in Nat \ {0} /\ j \in Nat \ {0} /\ launched \in Nat /\ recorded \in 0..launched
      /\ consecutive \in Nat /\ RejectBound \in Nat
      /\ consecutive + (launched - recorded) <= RejectBound
  BY BackupBounds DEF IInv, BackupTypeOK, Listed, RejectBound, BreakerCovers
<1>1. ASSUME NEW d \in R PROVE d \in out \/ (d <= recorded /\ entry[d] = "auth")
  <2>1. d \in Listed /\ refused[d] > 0 /\ DialogOf(d)
    <3>1. d \in i..j /\ refused[d] > 0
      BY <1>1
    <3>2. d \in Listed
      BY <3>1, BackupBounds DEF Listed
    <3> QED BY <3>1, <3>2 DEF IInv
  <2>2. d <= launched
    BY <2>1, <1>0 DEF IInv, InOrder, Listed
  <2>3. d <= recorded => entry[d] = "auth"
    BY <2>1 DEF IInv, InOrder, DialogOf
  <2> QED BY <1>0, <2>1, <2>2, <2>3 DEF Listed
<1>2. IsFiniteSet(out) /\ Cardinality(out) = launched - recorded
  <2>1. /\ IsFiniteSet(out)
        /\ Cardinality(out) = IF recorded + 1 > launched THEN 0
                              ELSE launched - (recorded + 1) + 1
    BY <1>0, FS_Interval
  <2> QED BY <1>0, <2>1
<1>3. CASE j <= recorded
  <2>1. R \in SUBSET AuthIn(i, j)
    <3> SUFFICES ASSUME NEW d \in R PROVE d \in AuthIn(i, j)
      OBVIOUS
    <3>1. d \in out \/ entry[d] = "auth"
      BY <1>1
    <3> QED BY <1>0, <1>3, <3>1 DEF AuthIn
  <2>2. Cardinality(R) <= Cardinality(AuthIn(i, j)) /\ Cardinality(R) \in Nat
    <3>1. IsFiniteSet(AuthIn(i, j))
      BY <1>0, AuthFinite
    <3>2. IsFiniteSet(R) /\ Cardinality(R) <= Cardinality(AuthIn(i, j))
      BY <2>1, <3>1, FS_Subset
    <3> QED BY <3>2, FS_CardinalityType
  <2>3. Cardinality(AuthIn(i, j)) <= RejectBound
    <3>1. CASE i <= recorded
      BY <1>0, <1>3, <3>1 DEF IInv, BreakerCovers
    <3>2. CASE i > recorded
      <4>1. AuthIn(i, j) = {}
        BY <1>0, <1>3, <3>2 DEF AuthIn
      <4> QED BY <1>0, <4>1, FS_EmptySet
    <3> QED BY <1>0, <3>1, <3>2
  <2> QED BY <1>0, <2>2, <2>3, AuthFinite
<1>4. CASE j > recorded /\ i <= recorded
  <2>1. R \in SUBSET (AuthIn(i, recorded) \cup out)
    <3> SUFFICES ASSUME NEW d \in R PROVE d \in AuthIn(i, recorded) \cup out
      OBVIOUS
    <3>1. d \in out \/ (d <= recorded /\ entry[d] = "auth")
      BY <1>1
    <3> QED BY <1>0, <1>4, <3>1 DEF AuthIn
  <2>2. IsFiniteSet(AuthIn(i, recorded)) /\ Cardinality(AuthIn(i, recorded)) \in Nat
    <3>1. i \in Int /\ recorded \in Int
      BY <1>0
    <3> QED BY <3>1, AuthFinite
  <2>3. Cardinality(AuthIn(i, recorded)) <= consecutive
    BY <1>0, <1>4 DEF IInv, BreakerCovers
  <2>4. /\ IsFiniteSet(AuthIn(i, recorded) \cup out)
        /\ Cardinality(AuthIn(i, recorded) \cup out) <=
              Cardinality(AuthIn(i, recorded)) + Cardinality(out)
    <3>1. Cardinality(AuthIn(i, recorded) \cap out) \in Nat
      BY <2>2, FS_Intersection, FS_CardinalityType
    <3>2. /\ IsFiniteSet(AuthIn(i, recorded) \cup out)
          /\ Cardinality(AuthIn(i, recorded) \cup out) =
                Cardinality(AuthIn(i, recorded)) + Cardinality(out)
                - Cardinality(AuthIn(i, recorded) \cap out)
      BY <1>2, <2>2, FS_Union
    <3> HIDE DEF out
    <3> QED BY <1>0, <1>2, <2>2, <3>1, <3>2
  <2>5. /\ Cardinality(R) <= Cardinality(AuthIn(i, recorded) \cup out)
        /\ Cardinality(AuthIn(i, recorded) \cup out) \in Nat /\ Cardinality(R) \in Nat
    BY <2>1, <2>4, FS_Subset, FS_CardinalityType
  <2> QED BY <1>0, <1>2, <2>2, <2>3, <2>4, <2>5
<1>5. CASE i > recorded
  <2>1. R \in SUBSET out
    BY <1>0, <1>1, <1>5
  <2>2. Cardinality(R) <= Cardinality(out) /\ Cardinality(R) \in Nat
    BY <1>2, <2>1, FS_Subset, FS_CardinalityType
  <2> QED BY <1>0, <1>2, <2>2
<1> QED BY <1>0, <1>3, <1>4, <1>5

\* fetch_all and test_targets cannot lock the account: whatever the switches show and
\* whichever session ends first, no device counts two rejected logins in a pass, and
\* between two successes the list does not cost more than the threshold, or one
\* opening wave.
THEOREM NoAccountLocked == BackupSpec => []NoLockout
<1>1. IInv => NoLockout
  BY CountedOrOut DEF IInv, NoLockout, DialogOf, RejectBound
<1> QED BY <1>1, Inductive, PTL

(***************************************************************************)
(* Whom a scan asks over SNMP.  The candidates are ranked by their         *)
(* evidence, each at a place of its own, and a poll takes them from the    *)
(* first; what the operator set does not move while a poll is under way.   *)
(***************************************************************************)

Community == Answerable \cup ToSet(Communities)

Cache == [Ips -> [comm : Community \cup {None},
                  fails : 0..MaxFails, age : 0..Backoff]]

\* The cache, and what was sent, by device.
PollShape ==
    /\ SnmpTypeOK
    /\ cred \in Cache
    /\ worked \in [Ips -> BOOLEAN] /\ sent \in [Ips -> Seq(Community)]

\* A community is in the cache only while the last attempt was answered.
CacheIsFresh == \A d \in Ips : cred[d].comm # None => worked[d]

\* The i-th device in the order of the candidates.
AtPlace(d, i) == d \in Found /\ Place(d, Found) = i

\* A poll attempts the candidates in their order, none twice and none left out.
InRank ==
    phase = "poll" =>
       /\ \A i \in DOMAIN tried : AtPlace(tried[i], i)
       /\ \A i \in DOMAIN todo : AtPlace(todo[i], Len(tried) + i)

\* Only devices of this poll were sent anything, a pinned one its pin before all else.
AskedInTurn ==
    /\ phase # "poll" => tried = <<>>
    /\ \A d \in Ips : d \notin ToSet(tried) => sent[d] = <<>>
    /\ \A i \in DOMAIN tried : pin[tried[i]] # None =>
          sent[tried[i]] # <<>> /\ sent[tried[i]][1] = pin[tried[i]]

PollInv == PollShape /\ CacheIsFresh /\ RespondsMeansAnswered /\ InRank /\ AskedInTurn

\* Evidence orders the devices: one of any two comes before the other.
LEMMA StrongerOrders ==
    ASSUME PollShape
    PROVE  /\ \A d \in Ips : Strength(d) \in 1..5
           /\ \A d, e \in Ips : Stronger(d, e) \in BOOLEAN
           /\ \A d \in Ips : ~Stronger(d, d)
           /\ \A d, e \in Ips : d # e => Stronger(d, e) \/ Stronger(e, d)
           /\ \A d, e, f \in Ips : Stronger(d, e) /\ Stronger(e, f) => Stronger(d, f)
<1>1. \A d \in Ips : Strength(d) \in 1..5
  BY DEF Strength
<1>2. Ips \subseteq Nat
  BY SnmpBounds
<1> QED BY <1>1, <1>2 DEF Stronger

\* The devices a scan found are finitely many.
LEMMA FoundIsFinite ==
    ASSUME PollShape
    PROVE  Found \subseteq Ips /\ IsFiniteSet(Found) /\ Cardinality(Found) \in Nat
<1>1. Found \subseteq Ips
  BY SnmpBounds DEF Found, Pinned, PollShape, SnmpTypeOK
<1>2. IsFiniteSet(Found)
  BY <1>1, SnmpBounds, FS_Subset
<1> QED BY <1>1, <1>2, FS_CardinalityType

\* The place of a device is one of as many as there are, and no two share one.
LEMMA PlacesAreApart ==
    ASSUME PollShape, NEW d \in Found
    PROVE  /\ Place(d, Found) \in 1..Cardinality(Found)
           /\ \A e \in Found : Stronger(e, d) => Place(e, Found) < Place(d, Found)
           /\ \A e \in Found : Place(e, Found) = Place(d, Found) => e = d
<1> DEFINE Before(x) == {e \in Found : Stronger(e, x)}
<1>0. Found \subseteq Ips /\ IsFiniteSet(Found) /\ Cardinality(Found) \in Nat
  BY FoundIsFinite
<1>1. \A x \in Found : IsFiniteSet(Before(x)) /\ Cardinality(Before(x)) \in Nat
  <2> TAKE x \in Found
  <2>1. Before(x) \in SUBSET Found
    OBVIOUS
  <2>2. IsFiniteSet(Before(x))
    BY <1>0, <2>1, FS_Subset
  <2> QED BY <2>2, FS_CardinalityType
<1>2. Cardinality(Before(d)) < Cardinality(Found)
  <2>1. Before(d) \in SUBSET Found /\ d \notin Before(d) /\ d \in Found
    BY <1>0, StrongerOrders
  <2>2. Cardinality(Before(d)) <= Cardinality(Found) /\ Cardinality(Before(d)) # Cardinality(Found)
    BY <1>0, <2>1, FS_Subset
  <2> QED BY <1>0, <1>1, <2>2
<1>3. \A x, y \in Found : Stronger(x, y) => Cardinality(Before(x)) < Cardinality(Before(y))
  <2> SUFFICES ASSUME NEW x \in Found, NEW y \in Found, Stronger(x, y)
               PROVE  Cardinality(Before(x)) < Cardinality(Before(y))
    OBVIOUS
  <2>1. Before(x) \in SUBSET Before(y) /\ x \in Before(y) /\ x \notin Before(x)
    BY <1>0, StrongerOrders
  <2>2. /\ Cardinality(Before(x)) <= Cardinality(Before(y))
        /\ Cardinality(Before(x)) # Cardinality(Before(y))
    BY <1>1, <2>1, FS_Subset
  <2> QED BY <1>1, <2>2
<1>4. \A x \in Found : Place(x, Found) = 1 + Cardinality(Before(x))
  BY DEF Place
<1> HIDE DEF Before
<1>5. \A x, y \in Found : Stronger(x, y) => Place(x, Found) < Place(y, Found)
  BY <1>1, <1>3, <1>4
<1>6. ASSUME NEW e \in Found, Place(e, Found) = Place(d, Found) PROVE e = d
  <2>1. e # d => Stronger(e, d) \/ Stronger(d, e)
    BY <1>0, StrongerOrders
  <2>2. Place(e, Found) \in Nat /\ Place(d, Found) \in Nat
    BY <1>1, <1>4
  <2> QED BY <1>5, <1>6, <2>1, <2>2
<1>7. Place(d, Found) \in 1..Cardinality(Found)
  BY <1>0, <1>1, <1>2, <1>4
<1> QED BY <1>5, <1>6, <1>7

\* So every place is taken, and the list of candidates has a device at each.
LEMMA CandidatesAreRanked ==
    ASSUME PollShape
    PROVE  /\ Candidates \in Seq(Ips) /\ Len(Candidates) = Cardinality(Found)
           /\ \A i \in DOMAIN Candidates : AtPlace(Candidates[i], i)
<1> DEFINE n == Cardinality(Found)
<1> DEFINE f == [d \in Found |-> Place(d, Found)]
<1>0. Found \subseteq Ips /\ IsFiniteSet(Found) /\ n \in Nat
  BY FoundIsFinite
<1>1. f \in [Found -> 1..n]
  BY PlacesAreApart
<1>2. f \in Injection(Found, 1..n)
  <2>1. \A d, e \in Found : f[d] = f[e] => d = e
    BY PlacesAreApart
  <2> QED BY <1>1, <2>1 DEF Injection, IsInjective
<1>3. IsFiniteSet(1..n) /\ Cardinality(1..n) = n
  BY <1>0, FS_Interval
<1> HIDE DEF f
<1>4. f \in Surjection(Found, 1..n)
  BY <1>2, <1>3, FS_Injection
<1>5. \A i \in 1..n : \E d \in Found : f[d] = i
  BY <1>4 DEF Surjection
<1>6. \A i \in 1..n : \E d \in Found : Place(d, Found) = i
  BY <1>5 DEF f
<1> HIDE DEF n
<1>7. Candidates = [i \in 1..n |-> CHOOSE d \in Found : Place(d, Found) = i]
  BY DEF Candidates, n
<1>8. \A i \in 1..n : /\ (CHOOSE d \in Found : Place(d, Found) = i) \in Found
                      /\ Place(CHOOSE d \in Found : Place(d, Found) = i, Found) = i
  BY <1>6
<1>9. /\ DOMAIN Candidates = 1..n
      /\ \A i \in 1..n : Candidates[i] \in Found /\ Place(Candidates[i], Found) = i
  BY <1>7, <1>8
<1>10. Candidates \in [1..n -> Ips]
  BY <1>0, <1>7, <1>8
<1>11. Candidates \in Seq(Ips) /\ Len(Candidates) = n
  BY <1>0, <1>10 DEF n
<1> QED BY <1>9, <1>11 DEF AtPlace, n

\* What ranks the devices is what the operator set: no other step moves a place.
LEMMA PlacesStand ==
    ASSUME PollShape, UNCHANGED <<pin, registered, excluded>>
    PROVE  /\ \A d \in Ips : Strength(d)' = Strength(d)
           /\ \A d, i : AtPlace(d, i) => AtPlace(d, i)'
<1>1. Found' = Found
  BY DEF Found, Pinned
<1>2. \A d \in Ips : Strength(d)' = Strength(d)
  BY DEF Strength
<1>3. \A d, e \in Ips : Stronger(d, e)' <=> Stronger(d, e)
  BY <1>2 DEF Stronger
<1>4. \A d \in Ips : Place(d, Found)' = Place(d, Found)
  <2> TAKE d \in Ips
  <2>1. {e \in Found : Stronger(e, d)}' = {e \in Found : Stronger(e, d)}
    BY <1>1, <1>3, FoundIsFinite
  <2> QED BY <2>1 DEF Place
<1>5. Found \subseteq Ips
  BY FoundIsFinite
<1> QED BY <1>1, <1>2, <1>4, <1>5 DEF AtPlace

\* What a device is asked with, its pin first.
LEMMA TrialsAreCommunities ==
    ASSUME PollShape, NEW d \in Ips
    PROVE  /\ Trials(d) \in Seq(Community)
           /\ pin[d] # None => Len(Trials(d)) >= 1 /\ Trials(d)[1] = pin[d]
<1> DEFINE p == IF pin[d] = None THEN <<>> ELSE <<pin[d]>>
           rest == ToSet(Communities) \ {pin[d], cred[d].comm}
           k == Sifted(Communities, rest)
<1>1. Communities \in Seq(Community)
  BY SnmpBounds DEF Community, ToSet
<1>2. k \in Seq(Community)
  <2> HIDE DEF rest
  <2> QED BY <1>1, Sifting
<1>3. p \in Seq(Community) /\ (pin[d] # None => p = <<pin[d]>>)
  <2>1. pin[d] # None => pin[d] \in Community
    BY DEF PollShape, SnmpTypeOK, Community
  <2>2. pin[d] # None => p = <<pin[d]>>
    OBVIOUS
  <2>3. pin[d] = None => p = <<>>
    OBVIOUS
  <2>4. CASE pin[d] = None
    BY <2>3, <2>4
  <2>5. CASE pin[d] # None
    <3>1. <<pin[d]>> \in Seq(Community)
      BY <2>1, <2>5
    <3> HIDE DEF p
    <3> QED BY <2>2, <2>5, <3>1
  <2> QED BY <2>4, <2>5
<1>4. Cached(d) \in Seq(Community)
  <2>1. cred[d].comm \notin {None, pin[d]} => cred[d].comm \in Community
    BY DEF Cache, PollShape
  <2>2. CASE cred[d].comm \in {None, pin[d]}
    BY <2>2 DEF Cached
  <2>3. CASE cred[d].comm \notin {None, pin[d]}
    BY <2>1, <2>3 DEF Cached
  <2> QED BY <2>2, <2>3
<1> HIDE DEF k
<1>5. Trials(d) = p \o Cached(d) \o k
  BY DEF Trials, k
<1> HIDE DEF p
<1>6. p \o Cached(d) \in Seq(Community)
  BY <1>3, <1>4
<1>7. pin[d] # None => Len(p \o Cached(d)) >= 1 /\ (p \o Cached(d))[1] = pin[d]
  BY <1>3, <1>4
<1> QED BY <1>2, <1>5, <1>6, <1>7

\* How many fail before one is answered, or all of them.
LEMMA MissesCount ==
    ASSUME PollShape, NEW d \in Ips
    PROVE  /\ Misses(d) \in 0..Len(Trials(d))
           /\ Hits(d) = {} => Misses(d) = Len(Trials(d))
           /\ Hits(d) # {} => Misses(d) < Len(Trials(d)) /\ answers[d] \in Community
<1>1. Trials(d) \in Seq(Community) /\ Len(Trials(d)) \in Nat
  BY TrialsAreCommunities
<1>2. Hits(d) \in SUBSET (1..Len(Trials(d)))
  BY <1>1 DEF Hits
<1>3. ASSUME Hits(d) # {} PROVE Min(Hits(d)) \in Hits(d)
  BY <1>2, <1>3, MinOfNumbers
<1>4. \A k \in Hits(d) : answers[d] \in Community
  BY <1>1 DEF Hits
<1> QED BY <1>1, <1>2, <1>3, <1>4 DEF Misses

\* The invariant holds before the first scan,
LEMMA PollInit == SnmpInit => PollInv
<1> SUFFICES ASSUME SnmpInit PROVE PollInv
  OBVIOUS
<1>1. SnmpTypeOK
  BY SnmpBounds DEF SnmpInit, SnmpTypeOK
<1>2. 0 \in 0..MaxFails /\ Backoff \in 0..Backoff
  BY SnmpBounds
<1>3. PollShape
  <2>1. cred \in Cache
    BY <1>2 DEF Cache, SnmpInit
  <2> QED BY <1>1, <2>1 DEF PollShape, SnmpInit
<1>4. CacheIsFresh /\ RespondsMeansAnswered /\ InRank
  BY DEF SnmpInit, CacheIsFresh, RespondsMeansAnswered, InRank
<1>5. AskedInTurn
  BY DEF SnmpInit, AskedInTurn
<1> QED BY <1>3, <1>4, <1>5 DEF PollInv

\* What an attempt leaves: the device is the next in rank, and it was not asked before.
LEMMA NextInRank ==
    ASSUME PollInv, NEW d \in Ips, Polls(d)
    PROVE  /\ AtPlace(d, Len(tried) + 1) /\ d \notin ToSet(tried) /\ sent[d] = <<>>
           /\ phase = "poll" /\ todo \in Seq(Ips) /\ todo # <<>> /\ tried \in Seq(Ips)
           /\ spent \in Nat /\ spent < PollBudget
<1>1. /\ phase = "poll" /\ todo \in Seq(Ips) /\ todo # <<>> /\ tried \in Seq(Ips)
      /\ spent \in Nat /\ spent < PollBudget /\ d = todo[1] /\ 1 \in DOMAIN todo
  BY DEF PollInv, PollShape, SnmpTypeOK, Polls
<1>2. AtPlace(d, Len(tried) + 1)
  BY <1>1 DEF PollInv, InRank
<1>3. \A i \in DOMAIN tried : tried[i] # d
  BY <1>1, <1>2 DEF PollInv, InRank, AtPlace
<1>4. d \notin ToSet(tried)
  BY <1>3 DEF ToSet
<1> QED BY <1>1, <1>2, <1>4 DEF PollInv, AskedInTurn

\* A success puts the community in the cache, a failure empties it.
LEMMA CacheFollows ==
    ASSUME PollInv, NEW d \in Ips
    PROVE  /\ Success(d) /\ answers[d] \in Community =>
                 /\ cred' \in Cache
                 /\ worked' \in [Ips -> BOOLEAN] /\ CacheIsFresh'
           /\ Failure(d) =>
                 /\ cred' \in Cache
                 /\ worked' \in [Ips -> BOOLEAN] /\ CacheIsFresh'
<1>1. 0 \in 0..MaxFails /\ 0 \in 0..Backoff
  BY SnmpBounds
<1>2. /\ cred \in Cache
      /\ worked \in [Ips -> BOOLEAN] /\ CacheIsFresh
  BY DEF PollInv, PollShape
<1>3. ASSUME Success(d), answers[d] \in Community
      PROVE  /\ cred' \in Cache
             /\ worked' \in [Ips -> BOOLEAN] /\ CacheIsFresh'
  <2>1. cred' \in Cache
    BY <1>1, <1>2, <1>3 DEF Cache, Success
  <2>2. worked' \in [Ips -> BOOLEAN]
    BY <1>2, <1>3 DEF Success
  <2>3. CacheIsFresh'
    BY <1>2, <1>3 DEF Success, CacheIsFresh
  <2> QED BY <2>1, <2>2, <2>3
<1>4. ASSUME Failure(d)
      PROVE  /\ cred' \in Cache
             /\ worked' \in [Ips -> BOOLEAN] /\ CacheIsFresh'
  <2> DEFINE n == Min({cred[d].fails + 1, MaxFails})
  <2>1. n \in 0..MaxFails
    <3>1. cred[d].fails + 1 \in Nat /\ MaxFails \in Nat
      BY <1>2, SnmpBounds DEF Cache
    <3> DEFINE S == {cred[d].fails + 1, MaxFails}
    <3>2. S \in SUBSET Nat /\ S # {} /\ MaxFails \in S
      BY <3>1
    <3> HIDE DEF S
    <3>3. Min(S) \in S /\ Min(S) <= MaxFails
      BY <3>2, MinOfNumbers
    <3> QED BY <3>2, <3>3, SnmpBounds DEF S
  <2>2. cred' = [cred EXCEPT ![d] = [comm |-> None, fails |-> n, age |-> 0]]
    BY <1>2, <1>4 DEF Failure
  <2> HIDE DEF n
  <2>3. cred' \in Cache
    BY <1>1, <1>2, <2>1, <2>2 DEF Cache
  <2>4. worked' \in [Ips -> BOOLEAN]
    BY <1>2, <1>4 DEF Failure
  <2>5. CacheIsFresh'
    BY <1>2, <1>4, <2>2 DEF Cache, Failure, CacheIsFresh
  <2> QED BY <2>3, <2>4, <2>5
<1> QED BY <1>3, <1>4

\* What is sent to a device is the first so many of its trials.
LEMMA SentInOrder ==
    ASSUME PollInv, NEW d \in Ips, sent[d] = <<>>, NEW n \in 0..Len(Trials(d)), Ask(d, n)
    PROVE  /\ sent' \in [Ips -> Seq(Community)]
           /\ \A e \in Ips \ {d} : sent'[e] = sent[e]
           /\ pin[d] # None /\ n > 0 => sent'[d] # <<>> /\ sent'[d][1] = pin[d]
<1>0. sent \in [Ips -> Seq(Community)]
  BY DEF PollInv, PollShape
<1>1. Trials(d) \in Seq(Community)
  BY TrialsAreCommunities DEF PollInv
<1> DEFINE s == SubSeq(Trials(d), 1, n)
<1>2. s \in Seq(Community) /\ Len(s) = n /\ (n > 0 => s[1] = Trials(d)[1])
  BY <1>1
<1> HIDE DEF s
<1>3. sent' = [sent EXCEPT ![d] = s]
  BY <1>0, <1>2 DEF Ask, s
<1>4. sent' \in [Ips -> Seq(Community)] /\ sent'[d] = s
  BY <1>0, <1>2, <1>3
<1>5. pin[d] # None => Trials(d)[1] = pin[d]
  BY TrialsAreCommunities DEF PollInv
<1> QED BY <1>0, <1>2, <1>3, <1>4, <1>5

\* What an attempt does to the lists, whatever came of it.
LEMMA AttemptKeeps ==
    ASSUME PollInv, NEW d \in Ips, Polls(d), Attempt(d), GoesOn \/ Stops,
           sent' \in [Ips -> Seq(Community)],
           \A e \in Ips \ {d} : sent'[e] = sent[e],
           pin[d] # None => sent'[d] # <<>> /\ sent'[d][1] = pin[d]
    PROVE  /\ tried' \in Seq(Ips) /\ todo' \in Seq(Ips)
           /\ InRank' /\ AskedInTurn'
<1>1. /\ AtPlace(d, Len(tried) + 1) /\ d \notin ToSet(tried) /\ phase = "poll"
      /\ todo \in Seq(Ips) /\ todo # <<>> /\ tried \in Seq(Ips)
  BY NextInRank
<1>2. tried' = Append(tried, d) /\ UNCHANGED <<pin, registered, excluded>> /\ phase' = phase
  BY DEF Attempt, operatorVars, GoesOn, Stops
<1>3. todo' = Tail(todo) \/ todo' = <<>>
  BY DEF GoesOn, Stops
<1>4. /\ tried' \in Seq(Ips) /\ Len(tried') = Len(tried) + 1 /\ todo' \in Seq(Ips)
      /\ \A i \in DOMAIN tried : tried'[i] = tried[i]
      /\ tried'[Len(tried) + 1] = d
      /\ \A i \in DOMAIN tried' : i \in DOMAIN tried \/ i = Len(tried) + 1
      /\ DOMAIN tried \subseteq DOMAIN tried' /\ Len(tried) + 1 \in DOMAIN tried'
  <2>1. tried' \in Seq(Ips) /\ Len(tried') = Len(tried) + 1
    BY <1>1, <1>2
  <2>2. \A i \in 1..(Len(tried) + 1) : tried'[i] = IF i <= Len(tried) THEN tried[i] ELSE d
    BY <1>1, <1>2
  <2>3. /\ DOMAIN tried = 1..Len(tried) /\ DOMAIN tried' = 1..(Len(tried) + 1)
        /\ Len(tried) \in Nat
    BY <1>1, <2>1
  <2>4. todo' \in Seq(Ips)
    <3>1. Tail(todo) \in Seq(Ips) /\ <<>> \in Seq(Ips)
      BY <1>1
    <3> QED BY <1>3, <3>1
  <2> DEFINE n == Len(tried)
  <2>5. /\ \A i \in 1..n : i \in 1..(n + 1) /\ i <= n
        /\ n + 1 \in 1..(n + 1) /\ ~(n + 1 <= n)
        /\ \A i \in 1..(n + 1) : i \in 1..n \/ i = n + 1
    BY <2>3
  <2>6. \A i \in DOMAIN tried : tried'[i] = tried[i]
    BY <2>2, <2>3, <2>5
  <2>7. tried'[n + 1] = d
    BY <2>2, <2>5
  <2> QED BY <2>1, <2>3, <2>4, <2>5, <2>6, <2>7
<1>5. \A i \in DOMAIN todo' : i + 1 \in DOMAIN todo /\ todo'[i] = todo[i + 1] /\ i \in Nat
  <2>1. CASE todo' = Tail(todo)
    BY <1>1, <2>1
  <2>2. CASE todo' = <<>>
    BY <2>2
  <2> QED BY <1>3, <2>1, <2>2
<1>6. \A e \in Ips : \A i : AtPlace(e, i) => AtPlace(e, i)'
  BY <1>2, PlacesStand DEF PollInv
<1>7. \A i \in DOMAIN tried' : AtPlace(tried'[i], i)
  BY <1>1, <1>4 DEF PollInv, InRank
<1>8. \A i \in DOMAIN todo' : AtPlace(todo'[i], Len(tried') + i)
  <2> TAKE i \in DOMAIN todo'
  <2>1. AtPlace(todo[i + 1], Len(tried) + (i + 1))
    BY <1>1, <1>5 DEF PollInv, InRank
  <2>2. Len(tried) + (i + 1) = Len(tried') + i
    BY <1>1, <1>4, <1>5
  <2> QED BY <1>5, <2>1, <2>2
<1>9. \A i \in DOMAIN tried' : tried'[i] \in Ips
  BY <1>4
<1>10. \A i \in DOMAIN todo' : todo'[i] \in Ips
  BY <1>4
<1>11. InRank'
  BY <1>6, <1>7, <1>8, <1>9, <1>10 DEF InRank
<1>12. /\ \A x \in ToSet(tried) : x \in ToSet(tried')
       /\ d \in ToSet(tried')
  <2>1. \A x \in ToSet(tried) : \E i \in DOMAIN tried : tried[i] = x
    BY DEF ToSet
  <2>2. \A i \in DOMAIN tried' : tried'[i] \in ToSet(tried')
    BY DEF ToSet
  <2> QED BY <1>4, <2>1, <2>2
<1>13. AskedInTurn'
  <2>1. \A e \in Ips : e \notin ToSet(tried') => sent'[e] = <<>>
    BY <1>12 DEF PollInv, AskedInTurn
  <2>2. \A i \in DOMAIN tried' : pin[tried'[i]] # None =>
           sent'[tried'[i]] # <<>> /\ sent'[tried'[i]][1] = pin[tried'[i]]
    <3> SUFFICES ASSUME NEW i \in DOMAIN tried', pin[tried'[i]] # None
                 PROVE  sent'[tried'[i]] # <<>> /\ sent'[tried'[i]][1] = pin[tried'[i]]
      OBVIOUS
    <3>1. CASE i = Len(tried) + 1
      BY <1>4, <3>1
    <3>2. CASE i \in DOMAIN tried
      <4>1. tried'[i] = tried[i] /\ tried[i] \in Ips \ {d}
        BY <1>1, <1>4, <1>9, <3>2 DEF ToSet
      <4> QED BY <3>2, <4>1 DEF PollInv, AskedInTurn
    <3> QED BY <1>4, <3>1, <3>2
  <2> QED BY <1>1, <1>2, <2>1, <2>2 DEF AskedInTurn
<1> QED BY <1>4, <1>11, <1>13

\* One attempt after the other: what each leaves.
LEMMA LeaveAlonePolls == ASSUME PollInv, NEW d \in Ips, LeaveAlone(d) PROVE PollInv'
<1>1. /\ Polls(d) /\ Attempt(d) /\ GoesOn /\ ~(pin[d] # None)
      /\ UNCHANGED <<cred, spent, rows, sent, worked>>
  BY DEF LeaveAlone, BacksOff
<1>2. sent' \in [Ips -> Seq(Community)] /\ \A e \in Ips \ {d} : sent'[e] = sent[e]
  BY <1>1 DEF PollInv, PollShape
<1>3. tried' \in Seq(Ips) /\ todo' \in Seq(Ips) /\ InRank' /\ AskedInTurn'
  BY <1>1, <1>2, AttemptKeeps
<1>4. phase = "poll" /\ phase' = phase
  BY <1>1, NextInRank DEF GoesOn
<1>5. SnmpTypeOK'
  BY <1>1, <1>3, <1>4 DEF PollInv, PollShape, SnmpTypeOK, Attempt, operatorVars
<1>6. PollShape'
  BY <1>1, <1>2, <1>5 DEF PollInv, PollShape
<1>7. CacheIsFresh' /\ RespondsMeansAnswered'
  BY <1>1, <1>4 DEF PollInv, CacheIsFresh, RespondsMeansAnswered
<1> QED BY <1>3, <1>6, <1>7 DEF PollInv

\* and when a community answers,
LEMMA FindsAnswerPolls == ASSUME PollInv, NEW d \in Ips, FindsAnswer(d) PROVE PollInv'
<1>1. /\ Polls(d) /\ Attempt(d) /\ Hits(d) # {} /\ spent + Misses(d) < PollBudget
      /\ Ask(d, Misses(d) + 1) /\ Success(d)
      /\ spent' = spent + Misses(d) + (IF d \in Slow THEN 1 ELSE 0)
      /\ GoesOn \/ Stops
      /\ rows' = rows \cup {d} \/ rows' = rows
  BY DEF FindsAnswer
<1>2. Misses(d) \in Nat /\ Misses(d) + 1 \in 0..Len(Trials(d)) /\ answers[d] \in Community
  <2>1. Len(Trials(d)) \in Nat
    BY TrialsAreCommunities DEF PollInv
  <2> QED BY <1>1, <2>1, MissesCount DEF PollInv
<1>3. sent[d] = <<>> /\ phase = "poll" /\ phase' = phase /\ spent \in Nat
  BY <1>1, NextInRank DEF GoesOn, Stops
<1>4. /\ sent' \in [Ips -> Seq(Community)] /\ \A e \in Ips \ {d} : sent'[e] = sent[e]
      /\ pin[d] # None => sent'[d] # <<>> /\ sent'[d][1] = pin[d]
  <2> DEFINE n == Misses(d) + 1
  <2>1. n \in 0..Len(Trials(d)) /\ n > 0 /\ Ask(d, n)
    BY <1>1, <1>2
  <2> HIDE DEF n
  <2> QED BY <1>3, <2>1, SentInOrder
<1>5. tried' \in Seq(Ips) /\ todo' \in Seq(Ips) /\ InRank' /\ AskedInTurn'
  BY <1>1, <1>4, AttemptKeeps
<1>6. /\ cred' \in Cache
      /\ worked' \in [Ips -> BOOLEAN] /\ CacheIsFresh'
  BY <1>1, <1>2, CacheFollows
<1>7. spent' \in 0..(PollBudget + 1) /\ rows' \subseteq Ips
  <2>1. spent' \in 0..(PollBudget + 1)
    BY <1>1, <1>2, <1>3, SnmpBounds
  <2>2. rows' \subseteq Ips
    BY <1>1 DEF PollInv, PollShape, SnmpTypeOK
  <2> QED BY <2>1, <2>2
<1>8. SnmpTypeOK'
  <2>1. \A e \in Ips : /\ cred'[e].comm \in Answerable \cup ToSet(Communities) \cup {None}
                       /\ cred'[e].fails \in 0..MaxFails /\ cred'[e].age \in 0..Backoff
    BY <1>6 DEF Cache, Community
  <2> QED BY <1>1, <1>3, <1>5, <1>7, <2>1
        DEF PollInv, PollShape, SnmpTypeOK, Attempt, operatorVars
<1>9. PollShape'
  BY <1>4, <1>6, <1>8 DEF PollShape
<1>10. RespondsMeansAnswered'
  BY <1>3 DEF RespondsMeansAnswered
<1> QED BY <1>5, <1>6, <1>9, <1>10 DEF PollInv

\* when none does,
LEMMA NoAnswerPolls == ASSUME PollInv, NEW d \in Ips, NoAnswer(d) PROVE PollInv'
<1>1. /\ Polls(d) /\ Attempt(d) /\ Hits(d) = {} /\ spent + Misses(d) =< PollBudget
      /\ Ask(d, Misses(d)) /\ Failure(d) /\ spent' = spent + Misses(d)
      /\ GoesOn /\ rows' = rows
  BY DEF NoAnswer
<1>2. /\ Misses(d) \in Nat /\ Misses(d) \in 0..Len(Trials(d))
      /\ pin[d] # None => Misses(d) > 0
  <2>1. Len(Trials(d)) \in Nat /\ (pin[d] # None => Len(Trials(d)) >= 1)
    BY TrialsAreCommunities DEF PollInv
  <2> QED BY <1>1, <2>1, MissesCount DEF PollInv
<1>3. sent[d] = <<>> /\ phase = "poll" /\ phase' = phase /\ spent \in Nat
  BY <1>1, NextInRank DEF GoesOn
<1>4. /\ sent' \in [Ips -> Seq(Community)] /\ \A e \in Ips \ {d} : sent'[e] = sent[e]
      /\ pin[d] # None => sent'[d] # <<>> /\ sent'[d][1] = pin[d]
  BY <1>1, <1>2, <1>3, SentInOrder
<1>5. tried' \in Seq(Ips) /\ todo' \in Seq(Ips) /\ InRank' /\ AskedInTurn'
  BY <1>1, <1>4, AttemptKeeps
<1>6. /\ cred' \in Cache
      /\ worked' \in [Ips -> BOOLEAN] /\ CacheIsFresh'
  BY <1>1, CacheFollows
<1>7. spent' \in 0..(PollBudget + 1) /\ rows' \subseteq Ips
  <2>1. spent' \in 0..(PollBudget + 1)
    BY <1>1, <1>2, <1>3, SnmpBounds
  <2>2. rows' \subseteq Ips
    BY <1>1 DEF PollInv, PollShape, SnmpTypeOK
  <2> QED BY <2>1, <2>2
<1>8. SnmpTypeOK'
  <2>1. \A e \in Ips : /\ cred'[e].comm \in Answerable \cup ToSet(Communities) \cup {None}
                       /\ cred'[e].fails \in 0..MaxFails /\ cred'[e].age \in 0..Backoff
    BY <1>6 DEF Cache, Community
  <2> QED BY <1>1, <1>3, <1>5, <1>7, <2>1
        DEF PollInv, PollShape, SnmpTypeOK, Attempt, operatorVars
<1>9. PollShape'
  BY <1>4, <1>6, <1>8 DEF PollShape
<1>10. RespondsMeansAnswered'
  BY <1>3 DEF RespondsMeansAnswered
<1> QED BY <1>5, <1>6, <1>9, <1>10 DEF PollInv

\* when the budget ends in the middle of one,
LEMMA CutOffPolls == ASSUME PollInv, NEW d \in Ips, CutOff(d) PROVE PollInv'
<1>1. /\ Polls(d) /\ Attempt(d) /\ Stops /\ spent' = PollBudget
      /\ IF Hits(d) = {} THEN spent + Misses(d) > PollBudget
         ELSE spent + Misses(d) >= PollBudget
      /\ Ask(d, PollBudget - spent) /\ UNCHANGED <<cred, rows, worked>>
  BY DEF CutOff
<1>2. /\ sent[d] = <<>> /\ phase = "poll" /\ phase' = phase
      /\ spent \in Nat /\ spent < PollBudget
  BY <1>1, NextInRank DEF Stops
<1>3. PollBudget - spent \in 0..Len(Trials(d)) /\ PollBudget - spent > 0
  <2>1. Len(Trials(d)) \in Nat
    BY TrialsAreCommunities DEF PollInv
  <2>2. Misses(d) \in 0..Len(Trials(d))
    BY MissesCount DEF PollInv
  <2> QED BY <1>1, <1>2, <2>1, <2>2, SnmpBounds
<1>4. /\ sent' \in [Ips -> Seq(Community)] /\ \A e \in Ips \ {d} : sent'[e] = sent[e]
      /\ pin[d] # None => sent'[d] # <<>> /\ sent'[d][1] = pin[d]
  <2> DEFINE n == PollBudget - spent
  <2>1. n \in 0..Len(Trials(d)) /\ n > 0 /\ Ask(d, n)
    BY <1>1, <1>3
  <2> HIDE DEF n
  <2> QED BY <1>2, <2>1, SentInOrder
<1>5. tried' \in Seq(Ips) /\ todo' \in Seq(Ips) /\ InRank' /\ AskedInTurn'
  BY <1>1, <1>4, AttemptKeeps
<1>6. spent' \in 0..(PollBudget + 1)
  BY <1>1, SnmpBounds
<1>7. SnmpTypeOK'
  BY <1>1, <1>2, <1>5, <1>6 DEF PollInv, PollShape, SnmpTypeOK, Attempt, operatorVars
<1>8. PollShape' /\ CacheIsFresh' /\ RespondsMeansAnswered'
  BY <1>1, <1>2, <1>4, <1>7
     DEF PollInv, PollShape, CacheIsFresh, RespondsMeansAnswered
<1> QED BY <1>5, <1>8 DEF PollInv

\* A new scan ranks the devices afresh; nobody was asked yet.
LEMMA BeginScanPolls == ASSUME PollInv, BeginScan PROVE PollInv'
<1> DEFINE C == Candidates
           n == Min({PollCap, Len(C)})
<1>1. /\ phase = "idle" /\ phase' = "poll" /\ rows' = {} /\ todo' = SubSeq(C, 1, n)
      /\ cred' = [d \in Ips |-> [cred[d] EXCEPT !.age = Min({cred[d].age + 1, Backoff})]]
      /\ UNCHANGED <<answers, operatorVars, spent, tried, responds, sent, worked, rekeys>>
  BY Zenon DEF BeginScan
<1>2. C \in Seq(Ips) /\ \A i \in DOMAIN C : AtPlace(C[i], i)
  BY CandidatesAreRanked DEF PollInv
<1> HIDE DEF C
<1>3. n \in 0..Len(C)
  <2> DEFINE S == {PollCap, Len(C)}
  <2>1. S \in SUBSET Nat /\ S # {} /\ Len(C) \in S
    BY <1>2, SnmpBounds
  <2> HIDE DEF S
  <2>2. Min(S) \in S /\ Min(S) <= Len(C)
    BY <2>1, MinOfNumbers
  <2> QED BY <1>2, <2>1, <2>2 DEF S
<1> HIDE DEF n
<1>4. /\ todo' \in Seq(Ips) /\ \A i \in DOMAIN todo' : i \in DOMAIN C /\ todo'[i] = C[i] /\ i \in Nat
  <2>1. todo' \in Seq(Ips) /\ Len(todo') = n
    BY <1>1, <1>2, <1>3
  <2>2. \A i \in 1..n : i \in DOMAIN C /\ todo'[i] = C[i] /\ i \in Nat
    BY <1>1, <1>2, <1>3
  <2> QED BY <2>1, <2>2
<1>5. \A d \in Ips : Min({cred[d].age + 1, Backoff}) \in 0..Backoff
  <2> TAKE d \in Ips
  <2> DEFINE S == {cred[d].age + 1, Backoff}
  <2>1. S \in SUBSET Nat /\ S # {} /\ Backoff \in S
    BY SnmpBounds DEF Cache, PollInv, PollShape
  <2> HIDE DEF S
  <2>2. Min(S) \in S /\ Min(S) <= Backoff
    BY <2>1, MinOfNumbers
  <2> QED BY <2>1, <2>2, SnmpBounds DEF S
<1>6. /\ cred' \in Cache
      /\ \A d \in Ips : cred'[d].comm = cred[d].comm
  <2>1. cred \in Cache
    BY DEF PollInv, PollShape
  <2> DEFINE m(d) == Min({cred[d].age + 1, Backoff})
  <2>2. /\ \A d \in Ips : m(d) \in 0..Backoff
        /\ cred' = [d \in Ips |-> [cred[d] EXCEPT !.age = m(d)]]
    BY <1>1, <1>5
  <2> HIDE DEF m
  <2> QED BY <2>1, <2>2 DEF Cache
<1>7. \A e \in Ips : \A i : AtPlace(e, i) => AtPlace(e, i)'
  BY <1>1, PlacesStand DEF PollInv, operatorVars
<1>8. tried = <<>> /\ tried' = <<>>
  BY <1>1 DEF PollInv, AskedInTurn
<1>9. SnmpTypeOK'
  <2>1. \A e \in Ips : /\ cred'[e].comm \in Answerable \cup ToSet(Communities) \cup {None}
                       /\ cred'[e].fails \in 0..MaxFails /\ cred'[e].age \in 0..Backoff
    BY <1>6 DEF Cache, Community
  <2> QED BY <1>1, <1>4, <2>1 DEF PollInv, PollShape, SnmpTypeOK, operatorVars
<1>10. PollShape'
  BY <1>1, <1>6, <1>9 DEF PollInv, PollShape
<1>11. CacheIsFresh'
  BY <1>1, <1>6 DEF PollInv, CacheIsFresh
<1>12. InRank'
  <2>1. \A i \in DOMAIN todo' : AtPlace(todo'[i], Len(tried') + i) /\ todo'[i] \in Ips
    <3> TAKE i \in DOMAIN todo'
    <3>1. todo'[i] \in Ips /\ AtPlace(todo'[i], i)
      BY <1>2, <1>4
    <3>2. Len(tried') + i = i
      BY <1>4, <1>8
    <3> QED BY <3>1, <3>2
  <2> QED BY <1>7, <1>8, <2>1 DEF InRank
<1>13. RespondsMeansAnswered' /\ AskedInTurn'
  BY <1>1, <1>8 DEF PollInv, RespondsMeansAnswered, AskedInTurn, operatorVars
<1> QED BY <1>10, <1>11, <1>12, <1>13 DEF PollInv

\* when the poll is over,
LEMMA EndPollPolls == ASSUME PollInv, EndPoll PROVE PollInv'
<1>1. /\ phase' \in {"crawl", "report"} /\ todo' \in {<<>>, Candidates}
      /\ spent' = 0 /\ tried' = <<>> /\ sent' = [d \in Ips |-> <<>>]
      /\ UNCHANGED <<answers, operatorVars, cred, rows, responds, worked, rekeys>>
  <2>1. \/ phase' = "crawl" /\ todo' = Candidates
        \/ phase' = "report" /\ todo' = <<>>
    BY Zenon DEF EndPoll
  <2>2. /\ spent' = 0 /\ tried' = <<>> /\ sent' = [d \in Ips |-> <<>>]
        /\ UNCHANGED <<answers, operatorVars, cred, rows, responds, worked, rekeys>>
    BY DEF EndPoll
  <2> QED BY <2>1, <2>2
<1>2. todo' \in Seq(Ips)
  <2>1. Candidates \in Seq(Ips)
    BY CandidatesAreRanked DEF PollInv
  <2>2. CASE todo' = <<>>
    BY <2>2
  <2>3. CASE todo' = Candidates
    BY <2>1, <2>3
  <2> QED BY <1>1, <2>2, <2>3
<1>3. spent' \in 0..(PollBudget + 1)
  BY <1>1, SnmpBounds
<1>4. SnmpTypeOK'
  BY <1>1, <1>2, <1>3 DEF PollInv, PollShape, SnmpTypeOK, operatorVars
<1>5. PollShape'
  BY <1>1, <1>4 DEF PollInv, PollShape
<1>6. CacheIsFresh' /\ RespondsMeansAnswered' /\ InRank' /\ AskedInTurn'
  BY <1>1 DEF PollInv, CacheIsFresh, RespondsMeansAnswered, InRank, AskedInTurn
<1> QED BY <1>5, <1>6 DEF PollInv

\* when the crawl asks,
LEMMA CrawlPolls == ASSUME PollInv, NEW d \in Ips, Crawl(d) PROVE PollInv'
<1>1. /\ phase = "crawl" /\ phase' = phase /\ todo # <<>> /\ todo' = Tail(todo)
      /\ UNCHANGED <<answers, operatorVars, spent, tried, rows, responds, sent, rekeys>>
  BY DEF Crawl, GoesOn
<1>2. /\ cred' \in Cache
      /\ worked' \in [Ips -> BOOLEAN] /\ CacheIsFresh'
  <2>1. CASE UNCHANGED <<cred, worked>>
    BY <2>1 DEF PollInv, PollShape, CacheIsFresh
  <2>2. CASE Hits(d) # {} /\ Success(d)
    BY <2>2, MissesCount, CacheFollows DEF PollInv
  <2>3. CASE Failure(d)
    BY <2>3, CacheFollows
  <2> QED BY <2>1, <2>2, <2>3 DEF Crawl
<1>3. todo' \in Seq(Ips)
  BY <1>1 DEF PollInv, PollShape, SnmpTypeOK
<1>4. SnmpTypeOK'
  <2>1. \A e \in Ips : /\ cred'[e].comm \in Answerable \cup ToSet(Communities) \cup {None}
                       /\ cred'[e].fails \in 0..MaxFails /\ cred'[e].age \in 0..Backoff
    BY <1>2 DEF Cache, Community
  <2> QED BY <1>1, <1>3, <2>1 DEF PollInv, PollShape, SnmpTypeOK, operatorVars
<1>5. PollShape'
  BY <1>1, <1>2, <1>4 DEF PollInv, PollShape
<1>6. RespondsMeansAnswered' /\ InRank' /\ AskedInTurn'
  BY <1>1 DEF PollInv, RespondsMeansAnswered, InRank, AskedInTurn, operatorVars
<1> QED BY <1>2, <1>5, <1>6 DEF PollInv

\* when the crawl is over,
LEMMA EndCrawlPolls == ASSUME PollInv, EndCrawl PROVE PollInv'
<1>1. /\ phase = "crawl" /\ phase' = "report" /\ todo' = <<>>
      /\ UNCHANGED <<answers, operatorVars, cred, spent, tried, rows, responds, sent, worked, rekeys>>
  BY DEF EndCrawl
<1>2. SnmpTypeOK'
  BY <1>1 DEF PollInv, PollShape, SnmpTypeOK, operatorVars
<1>3. PollShape'
  BY <1>1, <1>2 DEF PollInv, PollShape
<1>4. CacheIsFresh' /\ RespondsMeansAnswered' /\ InRank' /\ AskedInTurn'
  BY <1>1 DEF PollInv, CacheIsFresh, RespondsMeansAnswered, InRank, AskedInTurn, operatorVars
<1> QED BY <1>3, <1>4 DEF PollInv

\* What is reported was answered: in this poll, or when it was last asked.
LEMMA ReportPolls == ASSUME PollInv, Report PROVE PollInv'
<1>1. /\ phase = "report" /\ phase' = "idle"
      /\ responds' = {d \in ToSet(Candidates) : d \in rows \/ cred[d].comm # None}
      /\ UNCHANGED <<answers, operatorVars, cred, todo, spent, tried, rows, sent, worked, rekeys>>
  BY DEF Report
<1>2. ToSet(Candidates) \subseteq Ips
  BY CandidatesAreRanked DEF PollInv, ToSet
<1>3. SnmpTypeOK'
  BY <1>1, <1>2 DEF PollInv, PollShape, SnmpTypeOK, operatorVars
<1>4. PollShape'
  BY <1>1, <1>3 DEF PollInv, PollShape
<1>5. RespondsMeansAnswered'
  BY <1>1, <1>2 DEF PollInv, CacheIsFresh, RespondsMeansAnswered
<1>6. CacheIsFresh' /\ InRank' /\ AskedInTurn'
  BY <1>1 DEF PollInv, CacheIsFresh, InRank, AskedInTurn, operatorVars
<1> QED BY <1>4, <1>5, <1>6 DEF PollInv

\* when a device gets another community,
LEMMA RekeyedPolls == ASSUME PollInv, NEW d \in Ips, Rekeyed(d) PROVE PollInv'
<1>1. /\ answers' \in [Ips -> Answerable \cup {None}]
      /\ UNCHANGED <<operatorVars, cred, scanState, sent, worked>>
  BY DEF Rekeyed, PollInv, PollShape, SnmpTypeOK
<1>2. SnmpTypeOK'
  BY <1>1 DEF PollInv, PollShape, SnmpTypeOK, operatorVars, scanState
<1>3. PollShape'
  BY <1>1, <1>2 DEF PollInv, PollShape
<1>4. CacheIsFresh' /\ RespondsMeansAnswered' /\ AskedInTurn'
  BY <1>1 DEF PollInv, CacheIsFresh, RespondsMeansAnswered, AskedInTurn, operatorVars, scanState
<1>5. InRank'
  <2>1. \A e, i : AtPlace(e, i) => AtPlace(e, i)'
    BY <1>1, PlacesStand DEF PollInv, operatorVars
  <2> QED BY <1>1, <2>1 DEF PollInv, InRank, scanState
<1> QED BY <1>3, <1>4, <1>5 DEF PollInv

\* when the operator changes what is pinned or excluded,
LEMMA PushedPolls == ASSUME PollInv, NEW d \in Ips, Pushed(d) PROVE PollInv'
<1>1. /\ phase = "idle" /\ phase' = phase
      /\ UNCHANGED <<answers, cred, scanState, sent, worked, rekeys>>
  BY DEF Pushed, scanState
<1>2. /\ pin' \in [Ips -> Answerable \cup {None}]
      /\ registered' \subseteq Ips /\ excluded' \subseteq Ips
  BY DEF Pushed, PollInv, PollShape, SnmpTypeOK
<1>3. SnmpTypeOK'
  BY <1>1, <1>2 DEF PollInv, PollShape, SnmpTypeOK, scanState
<1>4. PollShape'
  BY <1>1, <1>3 DEF PollInv, PollShape
<1>5. CacheIsFresh' /\ RespondsMeansAnswered' /\ InRank' /\ AskedInTurn'
  BY <1>1 DEF PollInv, CacheIsFresh, RespondsMeansAnswered, InRank, AskedInTurn, scanState
<1> QED BY <1>4, <1>5 DEF PollInv

\* and when nothing happens;
LEMMA PollIdle == ASSUME PollInv, UNCHANGED snmpVars PROVE PollInv'
<1>1. UNCHANGED <<answers, operatorVars, cred, scanState, sent, worked>>
  BY DEF snmpVars
<1>2. SnmpTypeOK'
  BY <1>1 DEF PollInv, PollShape, SnmpTypeOK, operatorVars, scanState
<1>3. PollShape'
  BY <1>1, <1>2 DEF PollInv, PollShape
<1>4. CacheIsFresh' /\ RespondsMeansAnswered' /\ AskedInTurn'
  BY <1>1 DEF PollInv, CacheIsFresh, RespondsMeansAnswered, AskedInTurn, operatorVars, scanState
<1>5. InRank'
  <2>1. \A e, i : AtPlace(e, i) => AtPlace(e, i)'
    BY <1>1, PlacesStand DEF PollInv, operatorVars
  <2> QED BY <1>1, <2>1 DEF PollInv, InRank, scanState
<1> QED BY <1>3, <1>4, <1>5 DEF PollInv

\* so it always holds.
LEMMA PollInductive == SnmpSpec => []PollInv
<1>1. SnmpInit => PollInv
  BY PollInit
<1>2. PollInv /\ [SnmpNext]_snmpVars => PollInv'
  <2> SUFFICES ASSUME PollInv, [SnmpNext]_snmpVars PROVE PollInv'
    OBVIOUS
  <2>1. CASE BeginScan
    BY <2>1, BeginScanPolls
  <2>2. CASE EndPoll
    BY <2>2, EndPollPolls
  <2>3. CASE EndCrawl
    BY <2>3, EndCrawlPolls
  <2>4. CASE Report
    BY <2>4, ReportPolls
  <2>5. ASSUME NEW d \in Ips, PollSteps(d) PROVE PollInv'
    BY <2>5, LeaveAlonePolls, FindsAnswerPolls, NoAnswerPolls, CutOffPolls, CrawlPolls
       DEF PollSteps
  <2>6. ASSUME NEW d \in Ips, Rekeyed(d) \/ Pushed(d) PROVE PollInv'
    BY <2>6, RekeyedPolls, PushedPolls
  <2>7. CASE UNCHANGED snmpVars
    BY <2>7, PollIdle
  <2> QED BY <2>1, <2>2, <2>3, <2>4, <2>5, <2>6, <2>7 DEF SnmpNext, ScanSteps
<1> QED BY <1>1, <1>2, PTL DEF SnmpSpec

\* What an operator said decides whom a poll reaches, for every number of devices, list
\* of communities, cap and budget: nothing is sent to an excluded device, nobody guessed
\* is attempted before everyone registered or pinned, and a pin is asked first.
THEOREM OperatorIsObeyed == SnmpSpec => []OperatorDecides
<1>1. PollInv => OperatorDecides
  <2> SUFFICES ASSUME PollInv PROVE OperatorDecides
    OBVIOUS
  <2>1. ASSUME phase = "poll", NEW d \in excluded PROVE sent[d] = <<>>
    <3>1. \A i \in DOMAIN tried : tried[i] \in Found
      BY <2>1 DEF PollInv, InRank, AtPlace
    <3>2. d \in Ips /\ d \notin Found
      BY <2>1 DEF PollInv, PollShape, SnmpTypeOK, Found
    <3>3. d \notin ToSet(tried)
      BY <3>1, <3>2 DEF ToSet
    <3> QED BY <3>2, <3>3 DEF PollInv, AskedInTurn
  <2>2. ASSUME phase = "poll", NEW i \in DOMAIN tried, Strength(tried[i]) = 5,
               NEW e \in (registered \cup Pinned) \ excluded
        PROVE  e \in ToSet(SubSeq(tried, 1, i))
    <3>1. tried \in Seq(Ips) /\ i \in 1..Len(tried) /\ Len(tried) \in Nat
      BY DEF PollInv, PollShape, SnmpTypeOK
    <3>2. tried[i] \in Found /\ Place(tried[i], Found) = i
      BY <2>2 DEF PollInv, InRank, AtPlace
    <3>3. e \in Found /\ e \in Ips
      BY FoundIsFinite DEF Found, PollInv
    <3>4. Strength(e) < 5
      BY DEF Strength, Pinned
    <3>5. Stronger(e, tried[i])
      BY <2>2, <3>4 DEF Stronger
    <3>6. Place(e, Found) \in 1..Cardinality(Found) /\ Place(e, Found) < i
      BY <3>2, <3>3, <3>5, PlacesAreApart DEF PollInv
    <3> DEFINE k == Place(e, Found)
    <3>7. k \in Nat /\ k \in 1..i /\ k \in DOMAIN tried
      BY <3>1, <3>6, FoundIsFinite DEF PollInv
    <3> HIDE DEF k
    <3>8. tried[k] \in Found /\ Place(tried[k], Found) = k
      BY <2>2, <3>7 DEF PollInv, InRank, AtPlace
    <3>9. tried[k] = e
      BY <3>3, <3>8, PlacesAreApart DEF k, PollInv
    <3>10. k \in DOMAIN SubSeq(tried, 1, i) /\ SubSeq(tried, 1, i)[k] = e
      BY <3>1, <3>7, <3>9
    <3> QED BY <3>10 DEF ToSet
  <2>3. phase = "poll" => \A i \in DOMAIN tried :
           /\ Strength(tried[i]) = 5 =>
                 (registered \cup Pinned) \ excluded \subseteq ToSet(SubSeq(tried, 1, i))
           /\ pin[tried[i]] # None => sent[tried[i]] # <<>> /\ sent[tried[i]][1] = pin[tried[i]]
    BY <2>2 DEF PollInv, AskedInTurn
  <2>4. SnmpTypeOK /\ RespondsMeansAnswered
    BY DEF PollInv, PollShape
  <2> QED BY <2>1, <2>3, <2>4 DEF OperatorDecides
<1> QED BY <1>1, PollInductive, PTL

(***************************************************************************)
(* Redaction of a line.                                                    *)
(***************************************************************************)

Hides == {"token", "suspect"}
Word == [kind : WordKinds \cup Hides, of : SUBSET Places]

\* The line W with the words from i to j replaced by one, and what it hides.
Masking(W, i, j, c) ==
    SubSeq(W, 1, i - 1) \o <<[kind |-> c, of |-> UNION {W[k].of : k \in i..j}]>>
        \o SubSeq(W, j + 1, Len(W))
HiddenIn(W) == UNION {W[i].of : i \in {k \in DOMAIN W : W[k].kind \in Hides}}

\* A line that still stands for every place of the printed one, in their order.
Whole(W) ==
    /\ W \in Seq(Word) /\ Len(W) <= LineLength
    /\ \A i \in DOMAIN W : W[i].of # {}
    /\ \A p \in Places : \E i \in DOMAIN W : p \in W[i].of
    /\ \A i, j \in DOMAIN W : i < j => \A p \in W[i].of, q \in W[j].of : p < q

LineShape ==
    /\ printed \in [Places -> WordKinds] /\ claims \subseteq Spans /\ spans \subseteq claims
    /\ merged \in Seq(Spans) /\ pos \in 0..(Len(words) + 1) /\ Whole(words)

\* Merged spans are apart, start before those to come, and hold, with what is hidden,
\* whatever was claimed.
Claimed(s) ==
    \/ s[1]..s[2] \subseteq HiddenIn(words)
    \/ \E i \in DOMAIN merged : merged[i][1] <= s[1] /\ s[2] <= merged[i][2]
MergedRight ==
    /\ \A i, j \in DOMAIN merged : i < j => merged[i][2] < merged[j][1]
    /\ \A s \in spans, i \in DOMAIN merged : merged[i][1] <= s[1]
    /\ \A s \in claims \ spans : Claimed(s)
    /\ pos > 0 => spans = {} /\ merged = <<>>

\* The words a merged span speaks of are still where they were printed.
Intact(p) == p \in DOMAIN words /\ words[p].of = {p}
InPlace ==
    /\ spans # {} => \A p \in Places : Intact(p)
    /\ \A i \in DOMAIN merged : \A p \in 1..merged[i][2] : Intact(p)

\* Every keyword the sweep is past has its credential masked.
Served ==
    /\ pos = 0 => \A i \in DOMAIN words : words[i].kind # "suspect"
    /\ \A k \in DOMAIN words : k < pos /\ words[k].kind = "keyword" =>
          \A i \in Tails(k) : \E h \in (k + 1)..i : words[h].kind = "suspect"
    /\ \A i \in DOMAIN words : words[i].kind = "suspect" =>
          \E k \in 1..(i - 1) : words[k].kind = "keyword"

RedactInv == LineShape /\ MergedRight /\ InPlace /\ Served

\* What is hidden is what the tokens of the line stand for.
LEMMA HiddenPlaces ==
    ASSUME NEW W
    PROVE  \A p : p \in HiddenIn(W) <=>
              \E i \in DOMAIN W : W[i].kind \in Hides /\ p \in W[i].of
BY DEF HiddenIn

\* The words before the masked ones stay, those behind move up.
MovedUp(M, W, i, j, c) ==
    /\ M \in Seq(Word) /\ Len(M) = Len(W) - (j - i)
    /\ \A x \in 1..(i - 1) : M[x] = W[x]
    /\ M[i].kind = c /\ M[i].of = UNION {W[k].of : k \in i..j}
    /\ \A x \in (i + 1)..(Len(W) - (j - i)) : M[x] = W[x + (j - i)]

LEMMA MaskingMoves ==
    ASSUME NEW W \in Seq(Word), NEW i \in 1..Len(W), NEW j \in i..Len(W),
           NEW c \in WordKinds \cup Hides
    PROVE  MovedUp(Masking(W, i, j, c), W, i, j, c)
<1> DEFINE U == UNION {W[k].of : k \in i..j}
           r == [kind |-> c, of |-> U]
           A == SubSeq(W, 1, i - 1)
           B == SubSeq(W, j + 1, Len(W))
           n == Len(W)
<1>1. n \in Nat /\ i \in Nat /\ j \in Nat /\ 1 <= i /\ i <= j /\ j <= n /\ DOMAIN W = 1..n
  OBVIOUS
<1>2. r \in Word /\ r.kind = c /\ r.of = U
  <2>1. \A k \in i..j : W[k] \in Word
    <3> HIDE DEF r, U, A, B
    <3> QED BY <1>1, ElementIn
  <2>2. U \in SUBSET Places
    BY <2>1 DEF Word
  <2> HIDE DEF U
  <2> QED BY <2>2 DEF Word
<1> HIDE DEF r
<1>3. Masking(W, i, j, c) = A \o <<r>> \o B
  BY DEF Masking, r
<1> HIDE DEF n
<1>4. /\ A \in Seq(Word) /\ Len(A) = i - 1 /\ \A x \in 1..(i - 1) : A[x] = W[x]
      /\ B \in Seq(Word) /\ Len(B) = n - j /\ \A x \in 1..(n - j) : B[x] = W[x + j]
  <2>1. i - 1 \in Nat /\ j + 1 \in Nat /\ n = Len(W)
    BY <1>1 DEF n
  <2>2. /\ SubSeq(W, 1, i - 1) \in Seq(Word) /\ Len(SubSeq(W, 1, i - 1)) = ((i - 1) + 1) - 1
        /\ \A x \in 1..(((i - 1) + 1) - 1) : SubSeq(W, 1, i - 1)[x] = W[x + (1 - 1)]
    BY <1>1, <2>1, Slice
  <2>3. /\ SubSeq(W, j + 1, n) \in Seq(Word) /\ Len(SubSeq(W, j + 1, n)) = (n + 1) - (j + 1)
        /\ \A x \in 1..((n + 1) - (j + 1)) : SubSeq(W, j + 1, n)[x] = W[x + ((j + 1) - 1)]
    BY <1>1, <2>1, Slice
  <2>4. B = SubSeq(W, j + 1, n) /\ A = SubSeq(W, 1, i - 1)
    BY DEF n
  <2> HIDE DEF A, B
  <2>5. Len(A) = i - 1 /\ \A x \in 1..(i - 1) : A[x] = W[x]
    <3>1. Len(A) = i - 1
      BY <1>1, <2>2, <2>4
    <3>2. \A x \in 1..(i - 1) : x \in 1..(((i - 1) + 1) - 1) /\ x + (1 - 1) = x
      BY <1>1
    <3>3. \A x \in 1..(i - 1) : A[x] = W[x + (1 - 1)]
      BY <2>2, <2>4, <3>2
    <3> QED BY <3>1, <3>2, <3>3
  <2>6. Len(B) = n - j /\ \A x \in 1..(n - j) : B[x] = W[x + j]
    <3>1. Len(B) = n - j
      BY <1>1, <2>3, <2>4
    <3>2. \A x \in 1..(n - j) : x \in 1..((n + 1) - (j + 1)) /\ x + ((j + 1) - 1) = x + j
      BY <1>1
    <3>3. \A x \in 1..(n - j) : B[x] = W[x + ((j + 1) - 1)]
      BY <2>3, <2>4, <3>2
    <3> QED BY <3>1, <3>2, <3>3
  <2> QED BY <2>2, <2>3, <2>4, <2>5, <2>6
<1> HIDE DEF A, B
<1>5. <<r>> \in Seq(Word) /\ Len(<<r>>) = 1 /\ <<r>>[1] = r
  BY <1>2
<1> DEFINE C == A \o <<r>>
<1>6. /\ C \in Seq(Word) /\ Len(C) = i /\ C[i] = r
      /\ \A x \in 1..(i - 1) : C[x] = W[x]
  <2> DEFINE R == <<r>>
  <2>1. R \in Seq(Word) /\ Len(R) = 1 /\ R[1] = r /\ C = A \o R
    BY <1>5
  <2> HIDE DEF R, C
  <2>2. /\ C \in Seq(Word) /\ Len(C) = Len(A) + Len(R)
        /\ \A x \in 1..(Len(A) + Len(R)) : C[x] = IF x <= Len(A) THEN A[x] ELSE R[x - Len(A)]
    BY <1>4, <2>1, ConcatProperties
  <2> QED BY <1>1, <1>4, <2>1, <2>2
<1> HIDE DEF C
<1> DEFINE M == C \o B
<1>7. /\ M \in Seq(Word) /\ Len(M) = i + (n - j)
      /\ \A x \in 1..(i + (n - j)) : M[x] = IF x <= i THEN C[x] ELSE B[x - i]
  <2>1. /\ C \o B \in Seq(Word) /\ Len(C \o B) = Len(C) + Len(B)
        /\ \A x \in 1..(Len(C) + Len(B)) :
              (C \o B)[x] = IF x <= Len(C) THEN C[x] ELSE B[x - Len(C)]
    BY <1>4, <1>6, ConcatProperties
  <2> QED BY <1>4, <1>6, <2>1
<1> HIDE DEF M
<1>8. Masking(W, i, j, c) = M
  BY <1>3 DEF C, M
<1>9. \A x \in 1..(i - 1) : M[x] = W[x]
  BY <1>1, <1>6, <1>7
<1>10. M[i] = r
  BY <1>1, <1>6, <1>7
<1>11. ASSUME NEW x \in (i + 1)..(n - (j - i)) PROVE M[x] = W[x + (j - i)]
  <2>1. x \in 1..(i + (n - j)) /\ ~(x <= i) /\ x - i \in 1..(n - j) /\ (x - i) + j = x + (j - i)
    BY <1>1
  <2>2. M[x] = B[x - i] /\ B[x - i] = W[(x - i) + j]
    BY <1>4, <1>7, <2>1
  <2> QED BY <2>1, <2>2
<1>12. Len(M) = n - (j - i)
  BY <1>1, <1>7
<1> QED BY <1>2, <1>7, <1>8, <1>9, <1>10, <1>11, <1>12 DEF n, MovedUp

\* Which words of the line a word of the masked line stands for, and the other way.
Source(x, k, i, j) ==
    \/ x < i /\ k = x
    \/ x = i /\ k \in i..j
    \/ x > i /\ k = x + (j - i)

LEMMA MaskingSources ==
    ASSUME NEW W \in Seq(Word), NEW i \in 1..Len(W), NEW j \in i..Len(W),
           NEW c \in WordKinds \cup Hides
    PROVE  /\ \A x \in DOMAIN Masking(W, i, j, c) : \A p \in Masking(W, i, j, c)[x].of :
                 \E k \in DOMAIN W : Source(x, k, i, j) /\ p \in W[k].of
           /\ \A x \in DOMAIN Masking(W, i, j, c) : \E k \in DOMAIN W : Source(x, k, i, j)
           /\ \A k \in DOMAIN W : \E x \in DOMAIN Masking(W, i, j, c) :
                 /\ Source(x, k, i, j) /\ W[k].of \subseteq Masking(W, i, j, c)[x].of
                 /\ x = i \/ Masking(W, i, j, c)[x].kind = W[k].kind
<1> DEFINE M == Masking(W, i, j, c)
           n == Len(W)
<1>1. n \in Nat /\ i \in Nat /\ j \in Nat /\ 1 <= i /\ i <= j /\ j <= n /\ DOMAIN W = 1..n
  OBVIOUS
<1>2. /\ M \in Seq(Word) /\ Len(M) = n - (j - i)
      /\ \A x \in 1..(i - 1) : M[x] = W[x]
      /\ M[i].of = UNION {W[k].of : k \in i..j}
      /\ \A x \in (i + 1)..(n - (j - i)) : M[x] = W[x + (j - i)]
  <2>1. MovedUp(Masking(W, i, j, c), W, i, j, c)
    BY MaskingMoves
  <2> QED BY <2>1 DEF MovedUp
<1> HIDE DEF M, n
<1>3. DOMAIN M = 1..(n - (j - i))
  BY <1>1, <1>2
<1>4. ASSUME NEW x \in DOMAIN M
      PROVE  /\ \A p \in M[x].of : \E k \in DOMAIN W : Source(x, k, i, j) /\ p \in W[k].of
             /\ \E k \in DOMAIN W : Source(x, k, i, j)
  <2>1. CASE x < i
    <3>1. x \in 1..(i - 1) /\ x \in DOMAIN W /\ Source(x, x, i, j)
      BY <1>1, <1>3, <2>1 DEF Source
    <3> QED BY <1>2, <3>1
  <2>2. CASE x = i
    <3>1. \A k \in i..j : k \in DOMAIN W /\ Source(x, k, i, j)
      BY <1>1, <2>2 DEF Source
    <3>2. M[x].of = UNION {W[k].of : k \in i..j} /\ i \in i..j
      BY <1>1, <1>2, <2>2
    <3> QED BY <3>1, <3>2
  <2>3. CASE x > i
    <3>1. x \in (i + 1)..(n - (j - i)) /\ x + (j - i) \in DOMAIN W /\ Source(x, x + (j - i), i, j)
      BY <1>1, <1>3, <2>3 DEF Source
    <3> QED BY <1>2, <3>1
  <2> QED BY <1>1, <1>3, <2>1, <2>2, <2>3
<1>5. ASSUME NEW k \in DOMAIN W
      PROVE  \E x \in DOMAIN M :
                 /\ Source(x, k, i, j) /\ W[k].of \subseteq M[x].of
                 /\ x = i \/ M[x].kind = W[k].kind
  <2>1. CASE k < i
    <3>1. k \in 1..(i - 1) /\ k \in DOMAIN M /\ Source(k, k, i, j)
      BY <1>1, <1>3, <2>1 DEF Source
    <3> QED BY <1>2, <3>1
  <2>2. CASE k \in i..j
    <3>1. i \in DOMAIN M /\ Source(i, k, i, j)
      BY <1>1, <1>3, <2>2 DEF Source
    <3>2. W[k].of \subseteq M[i].of
      BY <1>2, <2>2
    <3> QED BY <3>1, <3>2
  <2>3. CASE k > j
    <3> DEFINE x == k - (j - i)
    <3>1. x \in (i + 1)..(n - (j - i)) /\ x \in DOMAIN M /\ x + (j - i) = k /\ Source(x, k, i, j)
      BY <1>1, <1>3, <2>3 DEF Source
    <3> HIDE DEF x
    <3>2. M[x] = W[k]
      BY <1>2, <3>1
    <3> QED BY <3>1, <3>2
  <2> QED BY <1>1, <2>1, <2>2, <2>3
<1> QED BY <1>4, <1>5 DEF M

\* A masked line stands for what the line stood for, and hides what it hid and more.
LEMMA MaskingKeeps ==
    ASSUME NEW W, Whole(W), NEW i \in 1..Len(W), NEW j \in i..Len(W), NEW c \in Hides
    PROVE  /\ Whole(Masking(W, i, j, c))
           /\ HiddenIn(W) \subseteq HiddenIn(Masking(W, i, j, c))
           /\ \A k \in i..j : W[k].of \subseteq HiddenIn(Masking(W, i, j, c))
<1> DEFINE M == Masking(W, i, j, c)
           n == Len(W)
<1>0. W \in Seq(Word) /\ c \in WordKinds \cup Hides
  BY DEF Whole
<1>1. n \in Nat /\ i \in Nat /\ j \in Nat /\ 1 <= i /\ i <= j /\ j <= n /\ DOMAIN W = 1..n
  BY <1>0
<1>2. /\ M \in Seq(Word) /\ Len(M) = n - (j - i) /\ M[i].kind = c
      /\ M[i].of = UNION {W[k].of : k \in i..j}
  BY <1>0, MaskingMoves DEF MovedUp
<1>3. /\ \A x \in DOMAIN M : \A p \in M[x].of :
            \E k \in DOMAIN W : Source(x, k, i, j) /\ p \in W[k].of
      /\ \A x \in DOMAIN M : \E k \in DOMAIN W : Source(x, k, i, j)
      /\ \A k \in DOMAIN W : \E x \in DOMAIN M :
            /\ Source(x, k, i, j) /\ W[k].of \subseteq M[x].of
            /\ x = i \/ M[x].kind = W[k].kind
  BY <1>0, MaskingSources
<1>4. /\ n <= LineLength /\ \A k \in DOMAIN W : W[k].of # {}
      /\ \A p \in Places : \E k \in DOMAIN W : p \in W[k].of
      /\ \A k, l \in DOMAIN W : k < l => \A p \in W[k].of, q \in W[l].of : p < q
  BY DEF Whole
<1> HIDE DEF M, n
<1>5. i \in DOMAIN M /\ DOMAIN M = 1..(n - (j - i))
  BY <1>1, <1>2
<1>6. Len(M) <= LineLength
  BY <1>1, <1>2, <1>4, RedactionBounds
<1>7. \A x \in DOMAIN M : M[x].of # {}
  <2> TAKE x \in DOMAIN M
  <2>1. CASE x = i
    <3>1. i \in i..j /\ i \in DOMAIN W
      BY <1>1
    <3>2. W[i].of \subseteq M[x].of /\ W[i].of # {}
      BY <1>2, <1>4, <2>1, <3>1
    <3> QED BY <3>2
  <2>2. CASE x # i
    <3>1. PICK k \in DOMAIN W : Source(x, k, i, j)
      BY <1>3
    <3>2. PICK y \in DOMAIN M : Source(y, k, i, j) /\ W[k].of \subseteq M[y].of
      BY <1>3
    <3>3. y = x
      BY <1>1, <1>5, <2>2, <3>1, <3>2 DEF Source
    <3> QED BY <1>4, <3>2, <3>3
  <2> QED BY <2>1, <2>2
<1>8. \A p \in Places : \E x \in DOMAIN M : p \in M[x].of
  BY <1>3, <1>4
<1>9. ASSUME NEW x \in DOMAIN M, NEW y \in DOMAIN M, x < y,
             NEW p \in M[x].of, NEW q \in M[y].of
      PROVE  p < q
  <2>1. PICK k \in DOMAIN W : Source(x, k, i, j) /\ p \in W[k].of
    BY <1>3
  <2>2. PICK l \in DOMAIN W : Source(y, l, i, j) /\ q \in W[l].of
    BY <1>3
  <2>3. k < l
    BY <1>1, <1>5, <1>9, <2>1, <2>2 DEF Source
  <2> QED BY <1>4, <2>1, <2>2, <2>3
<1>10. Whole(M)
  BY <1>2, <1>6, <1>7, <1>8, <1>9 DEF Whole
<1>11. ASSUME NEW p \in HiddenIn(W) PROVE p \in HiddenIn(M)
  <2>1. PICK k \in DOMAIN W : W[k].kind \in Hides /\ p \in W[k].of
    BY HiddenPlaces
  <2>2. PICK x \in DOMAIN M : W[k].of \subseteq M[x].of /\ (x = i \/ M[x].kind = W[k].kind)
    BY <1>3
  <2>3. M[x].kind \in Hides /\ p \in M[x].of
    BY <1>2, <2>1, <2>2
  <2> QED BY <2>3, HiddenPlaces
<1>12. ASSUME NEW k \in i..j, NEW p \in W[k].of PROVE p \in HiddenIn(M)
  BY <1>2, <1>5, HiddenPlaces
<1> QED BY <1>10, <1>11, <1>12 DEF M

\* A span is merged with the last one or put behind it: the spans stay apart, and what
\* they held, and the span, is held.
LEMMA MergingHolds ==
    ASSUME NEW m \in Seq(Spans), NEW s \in Spans,
           \A i, j \in DOMAIN m : i < j => m[i][2] < m[j][1],
           \A i \in DOMAIN m : m[i][1] <= s[1]
    PROVE  /\ Further(m, s) \in Seq(Spans)
           /\ \A i, j \in DOMAIN Further(m, s) : i < j => Further(m, s)[i][2] < Further(m, s)[j][1]
           /\ \A i \in DOMAIN Further(m, s) : Further(m, s)[i][1] <= s[1]
           /\ \A i \in DOMAIN m : \E k \in DOMAIN Further(m, s) :
                 Further(m, s)[k][1] <= m[i][1] /\ m[i][2] <= Further(m, s)[k][2]
           /\ \E k \in DOMAIN Further(m, s) :
                 Further(m, s)[k][1] <= s[1] /\ s[2] <= Further(m, s)[k][2]
<1> DEFINE F == Further(m, s)
           n == Len(m)
<1>0. \A t \in Spans : t = <<t[1], t[2]>> /\ t[1] \in Places /\ t[2] \in Places /\ t[1] <= t[2]
  BY DEF Spans
<1>1. Places \subseteq Nat /\ Places \subseteq Int
  BY DEF Places
<1>2. n \in Nat /\ DOMAIN m = 1..n /\ \A i \in 1..n : m[i] \in Spans
  BY ElementIn
<1>3. CASE m # <<>> /\ s[1] <= Last(m)[2]
  <2> DEFINE l == Last(m)
             y == Max({s[2], l[2]})
             f == Front(m)
             e == <<l[1], y>>
  <2>1. /\ n \in Nat \ {0} /\ l = m[n] /\ l \in Spans
        /\ f \in Seq(Spans) /\ Len(f) = n - 1 /\ \A x \in 1..(n - 1) : f[x] = m[x]
    BY <1>3, FrontSlice
  <2>2. F = Append(f, e)
    BY <1>3 DEF Further
  <2> HIDE DEF f, l, F
  <2>3. y \in {s[2], l[2]} /\ y >= s[2] /\ y >= l[2]
    <3>1. l \in Spans /\ s \in Spans
      BY <2>1
    <3>2. s[2] \in Places /\ l[2] \in Places
      BY <1>0, <3>1, Zenon
    <3>3. s[2] \in Nat /\ l[2] \in Nat
      BY <1>1, <3>2
    <3> QED BY <3>3, MaxOfTwo
  <2>4. /\ y \in Places /\ l[1] \in Places /\ l[2] \in Places /\ s[1] \in Places /\ s[2] \in Places
        /\ l[1] <= s[1] /\ l[1] <= l[2]
    <3>1. n \in DOMAIN m
      BY <1>2, <2>1
    <3> QED BY <1>0, <1>1, <2>1, <2>3, <3>1
  <2> HIDE DEF y
  <2>5. e \in Spans /\ e[1] = l[1] /\ e[2] = y
    <3> DEFINE a == l[1]
               b == l[2]
    <3>0. a \in Int /\ b \in Int /\ y \in Int /\ a <= b /\ y >= b
      BY <1>1, <2>3, <2>4
    <3> HIDE DEF a, b
    <3>9. a <= y
      BY <3>0
    <3>1. l[1] <= y
      BY <3>9 DEF a
    <3> QED BY <2>4, <3>1 DEF Spans
  <2> HIDE DEF e
  <2>6. /\ F \in Seq(Spans) /\ Len(F) = n /\ F[n] = e
        /\ \A x \in 1..(n - 1) : F[x] = m[x]
    <3>1. /\ Append(f, e) \in Seq(Spans) /\ Len(Append(f, e)) = Len(f) + 1
          /\ \A x \in 1..Len(f) : Append(f, e)[x] = f[x]
          /\ Append(f, e)[Len(f) + 1] = e
      BY <2>1, <2>5, AppendProperties
    <3> QED BY <2>1, <2>2, <3>1
  <2>7. DOMAIN F = 1..n /\ \A i \in 1..n : i = n \/ i \in 1..(n - 1)
    BY <2>1, <2>6
  <2>8. \A i \in 1..n : /\ F[i][1] = m[i][1] /\ m[i][2] <= F[i][2] /\ F[i] \in Spans
                        /\ i < n => F[i][2] = m[i][2]
    <3> TAKE i \in 1..n
    <3>1. CASE i = n
      BY <2>1, <2>3, <2>5, <2>6, <3>1
    <3>2. CASE i \in 1..(n - 1)
      <4>1. F[i] = m[i] /\ m[i][2] \in Int
        BY <1>0, <1>1, <1>2, <2>6, <3>2
      <4> QED BY <1>2, <4>1
    <3> QED BY <2>7, <3>1, <3>2
  <2>9. ASSUME NEW i \in DOMAIN F, NEW j \in DOMAIN F, i < j PROVE F[i][2] < F[j][1]
    <3>1. i < n /\ i \in 1..n /\ j \in 1..n
      BY <2>1, <2>7, <2>9
    <3> QED BY <1>2, <2>8, <2>9, <3>1
  <2>10. \A i \in DOMAIN F : F[i][1] <= s[1]
    BY <1>2, <2>7, <2>8
  <2>11. \A i \in DOMAIN m : \E k \in DOMAIN F : F[k][1] <= m[i][1] /\ m[i][2] <= F[k][2]
    <3> TAKE i \in DOMAIN m
    <3>1. F[i][1] = m[i][1] /\ m[i][2] <= F[i][2] /\ i \in DOMAIN F /\ m[i][1] \in Int
      BY <1>0, <1>1, <1>2, <2>7, <2>8
    <3>2. F[i][1] <= m[i][1]
      BY <3>1
    <3> QED BY <3>1, <3>2
  <2>12. \E k \in DOMAIN F : F[k][1] <= s[1] /\ s[2] <= F[k][2]
    <3>1. n \in DOMAIN F /\ F[n][1] <= s[1] /\ s[2] <= F[n][2]
      BY <1>1, <2>1, <2>3, <2>4, <2>5, <2>6, <2>7
    <3> QED BY <3>1
  <2> QED BY <2>6, <2>9, <2>10, <2>11, <2>12 DEF F
<1>4. CASE ~(m # <<>> /\ s[1] <= Last(m)[2])
  <2>1. F = Append(m, s)
    BY <1>4 DEF Further
  <2> HIDE DEF F
  <2>2. /\ F \in Seq(Spans) /\ Len(F) = n + 1 /\ F[n + 1] = s
        /\ \A x \in 1..n : F[x] = m[x]
    BY <2>1, AppendProperties
  <2>3. DOMAIN F = 1..(n + 1) /\ \A i \in DOMAIN F : i = n + 1 \/ i \in 1..n
    BY <1>2, <2>2
  <2>4. \A i \in 1..n : m[i][2] < s[1]
    <3> TAKE i \in 1..n
    <3>0. m # <<>>
      BY <1>2
    <3>8. n \in Nat \ {0} /\ Last(m) = m[n]
      BY <3>0, FrontSlice
    <3>9. ~(s[1] <= m[n][2])
      BY <1>4, <3>0, <3>8
    <3> HIDE DEF n
    <3>1. ~(s[1] <= m[n][2]) /\ n \in 1..n /\ n \in Nat \ {0}
      BY <3>8, <3>9
    <3>2. /\ m[n][2] \in Int /\ m[n][1] \in Int /\ m[n][1] <= m[n][2] /\ s[1] \in Int
          /\ m[i][2] \in Int
      BY <1>0, <1>1, <1>2, <3>1
    <3>3. CASE i = n
      BY <3>1, <3>2, <3>3
    <3>4. CASE i # n
      <4>1. i < n
        BY <1>2, <3>4
      <4>2. m[i][2] < m[n][1]
        BY <1>2, <3>1, <4>1
      <4> QED BY <3>1, <3>2, <4>2
    <3> QED BY <3>3, <3>4
  <2>5. ASSUME NEW i \in DOMAIN F, NEW j \in DOMAIN F, i < j PROVE F[i][2] < F[j][1]
    <3>1. i \in 1..n
      BY <1>2, <2>3, <2>5
    <3>2. CASE j = n + 1
      BY <2>2, <2>4, <3>1, <3>2
    <3>3. CASE j \in 1..n
      BY <1>2, <2>2, <2>5, <3>1, <3>3
    <3> QED BY <2>3, <3>2, <3>3
  <2>6. ASSUME NEW i \in DOMAIN F PROVE F[i][1] <= s[1]
    <3>1. CASE i = n + 1
      <4>1. F[i][1] = s[1] /\ s[1] \in Int
        BY <1>0, <1>1, <2>2, <3>1
      <4> QED BY <4>1
    <3>2. CASE i \in 1..n
      BY <1>2, <2>2, <3>2
    <3> QED BY <2>3, <3>1, <3>2
  <2>7. \A i \in DOMAIN m : \E k \in DOMAIN F : F[k][1] <= m[i][1] /\ m[i][2] <= F[k][2]
    <3> TAKE i \in DOMAIN m
    <3>1. F[i] = m[i] /\ i \in DOMAIN F /\ m[i][1] \in Int /\ m[i][2] \in Int
      BY <1>0, <1>1, <1>2, <2>2, <2>3
    <3>2. F[i][1] <= m[i][1] /\ m[i][2] <= F[i][2]
      BY <3>1
    <3> QED BY <3>1, <3>2
  <2>8. \E k \in DOMAIN F : F[k][1] <= s[1] /\ s[2] <= F[k][2]
    <3>1. n + 1 \in DOMAIN F /\ F[n + 1] = s /\ s[1] \in Int /\ s[2] \in Int
      BY <1>0, <1>1, <1>2, <2>2, <2>3
    <3>2. F[n + 1][1] <= s[1] /\ s[2] <= F[n + 1][2]
      BY <3>1
    <3> QED BY <3>1, <3>2
  <2> QED BY <2>2, <2>5, <2>6, <2>7, <2>8 DEF F
<1> QED BY <1>3, <1>4

\* At first every word stands for itself, and every claim is still to be merged.
LEMMA RedactStarts == RedactInit => RedactInv
<1> SUFFICES ASSUME RedactInit PROVE RedactInv
  OBVIOUS
<1>0. LineLength \in Nat
  BY RedactionBounds
<1>1. /\ printed \in [Places -> WordKinds] /\ spans = claims /\ merged = <<>> /\ pos = 0
      /\ words = [i \in Places |-> [kind |-> printed[i], of |-> {i}]]
  BY DEF RedactInit
<1>2. claims \subseteq Spans
  BY DEF RedactInit, kSubset
<1>3. /\ words \in Seq(Word) /\ Len(words) = LineLength /\ DOMAIN words = Places
      /\ \A i \in Places : words[i].of = {i} /\ words[i].kind = printed[i]
  <2>1. \A i \in Places : [kind |-> printed[i], of |-> {i}] \in Word
    BY <1>1 DEF Word
  <2>2. words \in [Places -> Word]
    BY <1>1, <2>1
  <2>3. words \in Seq(Word) /\ Len(words) = LineLength
    BY <1>0, <2>2 DEF Places
  <2> QED BY <1>1, <2>2, <2>3
<1>4. Whole(words)
  BY <1>0, <1>3 DEF Whole
<1>5. \A i \in Places : words[i].kind # "suspect" /\ words[i].kind \in WordKinds
  BY <1>1, <1>3 DEF WordKinds
<1>6. LineShape
  <2>1. pos \in 0..(Len(words) + 1)
    BY <1>0, <1>1, <1>3
  <2>2. merged \in Seq(Spans)
    BY <1>1
  <2> QED BY <1>1, <1>2, <1>4, <2>1, <2>2 DEF LineShape
<1>7. MergedRight
  BY <1>1 DEF MergedRight
<1>8. InPlace
  BY <1>1, <1>3 DEF InPlace, Intact
<1>9. Served
  <2>1. \A k \in DOMAIN words : ~(k < pos)
    BY <1>0, <1>1, <1>3 DEF Places
  <2> QED BY <1>3, <1>5, <2>1 DEF Served
<1> QED BY <1>6, <1>7, <1>8, <1>9 DEF RedactInv

\* A span is merged: it is held from now on.
LEMMA MergeKeeps == ASSUME RedactInv, MergeSpan PROVE RedactInv'
<1>1. PICK s \in spans :
         /\ \A t \in spans \ {s} : BySpan(s, t)
         /\ merged' = Further(merged, s) /\ spans' = spans \ {s}
         /\ UNCHANGED <<printed, claims, words, pos>>
  BY DEF MergeSpan
<1>2. /\ claims \subseteq Spans /\ spans \subseteq claims /\ merged \in Seq(Spans)
      /\ s \in Spans /\ pos = 0 /\ pos \in 0..(Len(words) + 1)
  <2>1. pos > 0 => spans = {}
    BY DEF RedactInv, MergedRight
  <2>2. pos \in 0..(Len(words) + 1) /\ Len(words) \in Nat
    BY DEF RedactInv, LineShape, Whole
  <2>3. pos = 0
    BY <2>1, <2>2
  <2> QED BY <2>2, <2>3 DEF RedactInv, LineShape
<1>3. /\ merged' \in Seq(Spans)
      /\ \A i, j \in DOMAIN merged' : i < j => merged'[i][2] < merged'[j][1]
      /\ \A i \in DOMAIN merged' : merged'[i][1] <= s[1]
      /\ \A i \in DOMAIN merged : \E k \in DOMAIN merged' :
            merged'[k][1] <= merged[i][1] /\ merged[i][2] <= merged'[k][2]
      /\ \E k \in DOMAIN merged' : merged'[k][1] <= s[1] /\ s[2] <= merged'[k][2]
  <2>1. /\ \A i, j \in DOMAIN merged : i < j => merged[i][2] < merged[j][1]
        /\ \A i \in DOMAIN merged : merged[i][1] <= s[1]
    BY DEF RedactInv, MergedRight
  <2> DEFINE F == Further(merged, s)
  <2>2. /\ F \in Seq(Spans)
        /\ \A i, j \in DOMAIN F : i < j => F[i][2] < F[j][1]
        /\ \A i \in DOMAIN F : F[i][1] <= s[1]
        /\ \A i \in DOMAIN merged : \E k \in DOMAIN F :
              F[k][1] <= merged[i][1] /\ merged[i][2] <= F[k][2]
        /\ \E k \in DOMAIN F : F[k][1] <= s[1] /\ s[2] <= F[k][2]
    BY <1>2, <2>1, MergingHolds
  <2>3. merged' = F
    BY <1>1
  <2> HIDE DEF F
  <2> QED BY <2>2, <2>3
<1>4. \A t \in Spans : t[1] \in Int /\ t[2] \in Int /\ t[2] \in Places
  BY DEF Spans, Places
<1>5. /\ \A i \in DOMAIN merged : merged[i][1] \in Int /\ merged[i][2] \in Int
      /\ \A i \in DOMAIN merged' : merged'[i][1] \in Int /\ merged'[i][2] \in Int
      /\ \A i \in DOMAIN merged' : merged'[i][2] \in Places
  <2>1. \A i \in DOMAIN merged : merged[i] \in Spans
    BY <1>2, ElementIn
  <2>2. \A i \in DOMAIN merged' : merged'[i] \in Spans
    BY <1>3, ElementIn
  <2> QED BY <1>4, <2>1, <2>2
<1>6. LineShape'
  BY <1>1, <1>2, <1>3 DEF RedactInv, LineShape
<1>7. MergedRight'
  <2>1. ASSUME NEW t \in spans', NEW i \in DOMAIN merged' PROVE merged'[i][1] <= t[1]
    <3>1. BySpan(s, t) /\ t \in Spans
      BY <1>1, <1>2
    <3>2. s[1] <= t[1]
      BY <1>2, <1>4, <3>1 DEF BySpan
    <3>3. merged'[i][1] <= s[1] /\ merged'[i][1] \in Int /\ s[1] \in Int /\ t[1] \in Int
      BY <1>2, <1>3, <1>4, <1>5, <3>1
    <3> QED BY <3>2, <3>3
  <2>2. ASSUME NEW t \in claims' \ spans' PROVE Claimed(t)'
    <3>1. CASE t = s
      BY <1>3, <3>1 DEF Claimed
    <3>2. CASE t # s
      <4>1. t \in claims \ spans /\ t \in Spans
        BY <1>1, <1>2, <3>2
      <4>2. Claimed(t)
        BY <4>1 DEF RedactInv, MergedRight
      <4>3. CASE t[1]..t[2] \subseteq HiddenIn(words)
        BY <1>1, <4>3 DEF Claimed
      <4>4. CASE \E i \in DOMAIN merged : merged[i][1] <= t[1] /\ t[2] <= merged[i][2]
        <5>1. PICK i \in DOMAIN merged : merged[i][1] <= t[1] /\ t[2] <= merged[i][2]
          BY <4>4
        <5>2. PICK k \in DOMAIN merged' : merged'[k][1] <= merged[i][1] /\ merged[i][2] <= merged'[k][2]
          BY <1>3
        <5>3. merged'[k][1] <= t[1] /\ t[2] <= merged'[k][2]
          BY <1>4, <1>5, <4>1, <5>1, <5>2
        <5> QED BY <5>3 DEF Claimed
      <4> QED BY <4>2, <4>3, <4>4 DEF Claimed
    <3> QED BY <3>1, <3>2
  <2>3. ~(pos' > 0)
    BY <1>1, <1>2
  <2> QED BY <1>3, <2>1, <2>2, <2>3 DEF MergedRight
<1>8. InPlace'
  <2>1. \A p \in Places : Intact(p) /\ Intact(p)'
    BY <1>1 DEF RedactInv, InPlace, Intact
  <2>2. \A i \in DOMAIN merged' : \A p \in 1..merged'[i][2] : p \in Places
    BY <1>5, RedactionBounds DEF Places
  <2> QED BY <2>1, <2>2 DEF InPlace
<1>9. Served'
  BY <1>1 DEF RedactInv, Served, Tails, Shaped, SteppedOver
<1> QED BY <1>6, <1>7, <1>8, <1>9 DEF RedactInv

\* The last merged span becomes a token: the spans before it are where they were.
LEMMA MaskKeeps == ASSUME RedactInv, MaskSpan PROVE RedactInv'
<1> DEFINE n == Len(merged)
           a == Last(merged)[1]
           b == Last(merged)[2]
           M == Masking(words, a, b, "token")
<1>1. /\ pos = 0 /\ spans = {} /\ merged # <<>> /\ words' = M /\ merged' = Front(merged)
      /\ UNCHANGED <<printed, claims, spans, pos>>
  BY DEF MaskSpan, Masked, Masking
<1>2. /\ merged \in Seq(Spans) /\ Whole(words) /\ words \in Seq(Word)
      /\ claims \subseteq Spans
  BY DEF RedactInv, LineShape, Whole
<1>3. /\ n \in Nat \ {0} /\ Last(merged) = merged[n] /\ Last(merged) \in Spans
      /\ merged' \in Seq(Spans) /\ Len(merged') = n - 1
      /\ \A x \in 1..(n - 1) : merged'[x] = merged[x]
  BY <1>1, <1>2, FrontSlice
<1>4. DOMAIN merged = 1..n /\ DOMAIN merged' = 1..(n - 1) /\ n \in DOMAIN merged
  BY <1>2, <1>3
<1>5. /\ a \in Places /\ b \in Places /\ a <= b /\ a \in Nat /\ b \in Nat /\ 1 <= a
      /\ a = merged[n][1] /\ b = merged[n][2]
  BY <1>3 DEF Spans, Places
<1> HIDE DEF n, a, b, M
<1>6. \A p \in 1..b : Intact(p)
  BY <1>4, <1>5 DEF RedactInv, InPlace
<1>7. a \in 1..Len(words) /\ b \in a..Len(words)
  <2>1. b \in 1..b
    BY <1>5
  <2>2. b \in DOMAIN words
    BY <1>6, <2>1 DEF Intact
  <2> QED BY <1>2, <1>5, <2>2
<1>8. /\ Whole(M) /\ HiddenIn(words) \subseteq HiddenIn(M)
      /\ \A k \in a..b : words[k].of \subseteq HiddenIn(M)
  BY <1>2, <1>7, MaskingKeeps DEF Hides, M
<1>9. /\ M \in Seq(Word) /\ Len(M) = Len(words) - (b - a)
      /\ \A x \in 1..(a - 1) : M[x] = words[x]
      /\ M[a].kind = "token"
      /\ \A x \in (a + 1)..(Len(words) - (b - a)) : M[x] = words[x + (b - a)]
  BY <1>2, <1>7, MaskingMoves DEF Hides, M, MovedUp
<1>10. \A k \in a..b : k \in HiddenIn(M)
  <2> TAKE k \in a..b
  <2>1. k \in 1..b
    BY <1>5
  <2> QED BY <1>6, <1>8, <2>1 DEF Intact
<1>11. LineShape'
  <2>1. pos' \in 0..(Len(words') + 1)
    BY <1>1, <1>9
  <2> QED BY <1>1, <1>3, <1>8, <2>1 DEF RedactInv, LineShape
<1>12. MergedRight'
  <2>1. \A i, j \in DOMAIN merged' : i < j => merged'[i][2] < merged'[j][1]
    BY <1>3, <1>4 DEF RedactInv, MergedRight
  <2>2. ASSUME NEW t \in claims' \ spans' PROVE Claimed(t)'
    <3>1. t \in claims \ spans /\ t \in Spans
      BY <1>1, <1>2
    <3>2. Claimed(t)
      BY <3>1 DEF RedactInv, MergedRight
    <3>3. t[1] \in Int /\ t[2] \in Int
      BY <3>1 DEF Spans, Places
    <3>4. CASE t[1]..t[2] \subseteq HiddenIn(words)
      BY <1>1, <1>8, <3>4 DEF Claimed
    <3>5. CASE \E i \in DOMAIN merged : merged[i][1] <= t[1] /\ t[2] <= merged[i][2]
      <4>1. PICK i \in DOMAIN merged : merged[i][1] <= t[1] /\ t[2] <= merged[i][2]
        BY <3>5
      <4>2. CASE i = n
        <5>1. a <= t[1] /\ t[2] <= b
          BY <1>5, <4>1, <4>2
        <5>2. \A p \in t[1]..t[2] : p \in a..b
          BY <1>5, <3>3, <5>1
        <5>3. t[1]..t[2] \subseteq HiddenIn(words')
          BY <1>1, <1>10, <5>2
        <5> QED BY <5>3 DEF Claimed
      <4>3. CASE i # n
        <5>1. i \in 1..(n - 1)
          BY <1>3, <1>4, <4>3
        <5>2. i \in DOMAIN merged' /\ merged'[i] = merged[i]
          BY <1>3, <1>4, <5>1
        <5> QED BY <4>1, <5>2 DEF Claimed
      <4> QED BY <4>2, <4>3
    <3> QED BY <3>2, <3>4, <3>5 DEF Claimed
  <2> QED BY <1>1, <2>1, <2>2 DEF MergedRight
<1>13. InPlace'
  <2>1. ASSUME NEW i \in DOMAIN merged', NEW p \in 1..merged'[i][2] PROVE Intact(p)'
    <3>1. /\ i \in DOMAIN merged /\ merged'[i] = merged[i] /\ i < n
      BY <1>3, <1>4
    <3>2. merged[i][2] < a
      BY <1>4, <1>5, <3>1 DEF RedactInv, MergedRight
    <3>3. merged[i][2] \in Int
      BY <1>2, <3>1, ElementIn DEF Spans, Places
    <3>4. p \in 1..(a - 1) /\ p \in 1..b
      BY <1>5, <3>1, <3>2, <3>3
    <3>5. p \in DOMAIN words /\ words[p].of = {p}
      BY <1>6, <3>4 DEF Intact
    <3>6. p \in DOMAIN M /\ M[p] = words[p]
      <4>1. DOMAIN M = 1..(Len(words) - (b - a)) /\ Len(words) \in Nat
        BY <1>2, <1>9
      <4>2. b <= Len(words)
        BY <1>7
      <4>3. p \in 1..(Len(words) - (b - a))
        BY <1>5, <3>4, <4>1, <4>2
      <4> QED BY <1>9, <3>4, <4>1, <4>3
    <3> QED BY <1>1, <3>5, <3>6 DEF Intact
  <2> QED BY <1>1, <2>1 DEF InPlace
<1>14. Served'
  <2>1. \A x \in DOMAIN M : M[x].kind # "suspect"
    <3> TAKE x \in DOMAIN M
    <3>1. x \in 1..(Len(words) - (b - a)) /\ x \in Nat
      BY <1>9
    <3>2. \A i \in DOMAIN words : words[i].kind # "suspect"
      BY <1>1 DEF RedactInv, Served
    <3>3. CASE x < a
      <4>1. x \in 1..(a - 1) /\ x \in DOMAIN words
        BY <1>2, <1>5, <1>7, <3>1, <3>3
      <4> QED BY <1>9, <3>2, <4>1
    <3>4. CASE x = a
      BY <1>9, <3>4
    <3>5. CASE x > a
      <4>1. Len(words) \in Nat /\ DOMAIN words = 1..Len(words)
        BY <1>2
      <4>2. a \in Nat /\ b \in Nat /\ a <= b
        BY <1>5
      <4>3. x \in (a + 1)..(Len(words) - (b - a)) /\ x + (b - a) \in 1..Len(words)
        BY <3>1, <3>5, <4>1, <4>2
      <4>4. M[x] = words[x + (b - a)]
        BY <1>9, <4>3
      <4> QED BY <3>2, <4>1, <4>3, <4>4
    <3> QED BY <1>5, <3>1, <3>3, <3>4, <3>5
  <2>2. \A k \in DOMAIN M : ~(k < 0)
    BY <1>9
  <2> QED BY <1>1, <2>1, <2>2 DEF Served
<1> QED BY <1>11, <1>12, <1>13, <1>14 DEF RedactInv

\* The sweep begins when every claim is a token.
LEMMA StartKeeps == ASSUME RedactInv, StartSweep PROVE RedactInv'
<1>1. /\ pos = 0 /\ spans = {} /\ merged = <<>> /\ pos' = 1
      /\ UNCHANGED <<printed, claims, words, spans, merged>>
  BY DEF StartSweep
<1>2. Len(words) \in Nat /\ DOMAIN words = 1..Len(words)
  BY DEF RedactInv, LineShape, Whole
<1>3. LineShape'
  <2>1. pos' \in 0..(Len(words') + 1)
    BY <1>1, <1>2
  <2> QED BY <1>1, <2>1 DEF RedactInv, LineShape
<1>4. MergedRight'
  BY <1>1 DEF RedactInv, MergedRight, Claimed
<1>5. InPlace'
  BY <1>1 DEF RedactInv, InPlace, Intact
<1>6. Served'
  <2>1. \A k \in DOMAIN words : ~(k < 1)
    BY <1>2
  <2> QED BY <1>1, <2>1 DEF RedactInv, Served
<1> QED BY <1>3, <1>4, <1>5, <1>6 DEF RedactInv

\* The sweep masks the first tail after the first keyword: it is a tail of every keyword
\* in between as well, and none of theirs is before it.
LEMMA SweepKeeps == ASSUME RedactInv, Sweep PROVE RedactInv'
<1> DEFINE k0 == Min(Keywords)
           i0 == Min(Tails(k0))
           M == Masking(words, i0, i0, "suspect")
           n == Len(words)
<1>1. /\ pos > 0 /\ Keywords # {} /\ Tails(k0) # {} /\ words' = M /\ pos' = i0 + 1
      /\ UNCHANGED <<printed, claims, spans, merged>>
  BY DEF Sweep, Masked, Masking
<1>2. /\ Whole(words) /\ words \in Seq(Word) /\ n \in Nat /\ DOMAIN words = 1..n
      /\ pos \in 0..(n + 1) /\ pos \in Nat
  BY DEF RedactInv, LineShape, Whole
<1>3. spans = {} /\ merged = <<>>
  BY <1>1 DEF RedactInv, MergedRight
<1>4. k0 \in Keywords /\ \A k \in Keywords : k0 <= k
  <2>1. Keywords \in SUBSET Nat
    BY <1>2 DEF Keywords
  <2> QED BY <1>1, <2>1, MinOfNumbers
<1>5. k0 \in pos..n /\ k0 \in 1..n /\ words[k0].kind = "keyword"
  BY <1>1, <1>2, <1>4 DEF Keywords
<1> HIDE DEF k0
<1>6. i0 \in Tails(k0) /\ \A i \in Tails(k0) : i0 <= i
  <2>1. Tails(k0) \in SUBSET Nat
    BY <1>2, <1>5 DEF Tails
  <2> QED BY <1>1, <2>1, MinOfNumbers
<1>7. i0 \in (k0 + 1)..n /\ i0 \in 1..n /\ words[i0].kind # "keyword" /\ Shaped(i0)
  <2> HIDE DEF i0
  <2>1. i0 \in (k0 + 1)..n /\ Shaped(i0)
    BY <1>6 DEF Tails
  <2>2. i0 \in 1..n
    BY <1>2, <1>5, <2>1
  <2>3. words[i0].kind # "keyword"
    BY <2>1 DEF Shaped
  <2> QED BY <2>1, <2>2, <2>3
<1> HIDE DEF i0, M
<1>8. /\ Whole(M) /\ HiddenIn(words) \subseteq HiddenIn(M)
      /\ M \in Seq(Word) /\ Len(M) = n
      /\ \A x \in 1..n : x # i0 => M[x] = words[x]
      /\ M[i0].kind = "suspect"
  <2>0. i0 \in i0..n
    BY <1>2, <1>7
  <2>1. Whole(M) /\ HiddenIn(words) \subseteq HiddenIn(M)
    BY <1>2, <1>7, <2>0, MaskingKeeps DEF Hides, M
  <2>2. /\ M \in Seq(Word) /\ Len(M) = n - (i0 - i0)
        /\ \A x \in 1..(i0 - 1) : M[x] = words[x]
        /\ M[i0].kind = "suspect"
        /\ \A x \in (i0 + 1)..(n - (i0 - i0)) : M[x] = words[x + (i0 - i0)]
    BY <1>2, <1>7, <2>0, MaskingMoves DEF Hides, M, MovedUp
  <2>3. \A x \in 1..n : x # i0 => M[x] = words[x]
    <3> HIDE DEF n
    <3> TAKE x \in 1..n
    <3>1. CASE x \in 1..(i0 - 1)
      BY <2>2, <3>1
    <3>2. CASE x \in (i0 + 1)..(n - (i0 - i0))
      <4>1. x + (i0 - i0) = x
        BY <1>2, <1>7
      <4> QED BY <2>2, <3>2, <4>1
    <3> QED BY <1>2, <1>7, <3>1, <3>2
  <2>4. Len(M) = n
    BY <1>2, <1>7, <2>2
  <2> QED BY <2>1, <2>2, <2>3, <2>4
<1>9. DOMAIN M = 1..n
  BY <1>8
<1>10. LineShape'
  <2>1. pos' \in 0..(Len(words') + 1)
    BY <1>1, <1>2, <1>7, <1>8
  <2> QED BY <1>1, <1>8, <2>1 DEF RedactInv, LineShape
<1>11. MergedRight'
  <2>1. ASSUME NEW t \in claims' \ spans' PROVE Claimed(t)'
    <3>1. Claimed(t)
      BY <1>1, <2>1 DEF RedactInv, MergedRight
    <3>2. t[1]..t[2] \subseteq HiddenIn(words)
      BY <1>3, <3>1 DEF Claimed
    <3> QED BY <1>1, <1>8, <3>2 DEF Claimed
  <2> QED BY <1>1, <1>3, <2>1 DEF MergedRight
<1>12. InPlace'
  BY <1>1, <1>3 DEF InPlace
<1>13. Served'
  <2>0. \A k \in 1..n : words[k].kind = "keyword" => k # i0 /\ M[k] = words[k]
    BY <1>7, <1>8
  <2>1. ASSUME NEW k \in 1..n, NEW i \in Tails(k)' PROVE i \in Tails(k)
    <3>1. i \in (k + 1)..n /\ i \in 1..n /\ Shaped(i)' /\ ~SteppedOver(i)'
      BY <1>1, <1>2, <1>8 DEF Tails
    <3>2. i # i0
      BY <1>1, <1>8, <3>1 DEF Shaped
    <3>3. words'[i] = words[i]
      BY <1>1, <1>8, <3>1, <3>2
    <3>4. Shaped(i)
      BY <3>1, <3>3 DEF Shaped
    <3>5. ASSUME SteppedOver(i) PROVE FALSE
      <4>1. CASE words[i].kind = "grammar"
        BY <3>1, <3>3, <4>1 DEF SteppedOver
      <4>2. CASE /\ words[i].kind \in {"quad", "longword"}
                 /\ \E m \in 1..(i - 1) : words[m].kind = "token"
        <5>1. PICK m \in 1..(i - 1) : words[m].kind = "token"
          BY <4>2
        <5>2. m \in 1..n /\ m # i0
          BY <1>2, <1>7, <3>1, <5>1 DEF Shaped
        <5>3. words'[m].kind = "token"
          BY <1>1, <1>8, <5>1, <5>2
        <5> QED BY <3>1, <3>3, <4>2, <5>3 DEF SteppedOver
      <4> QED BY <3>5, <4>1, <4>2 DEF SteppedOver
    <3> QED BY <3>1, <3>4, <3>5 DEF Tails
  <2>2. ASSUME NEW k \in 1..n, k < pos', M[k].kind = "keyword", NEW i \in Tails(k)'
        PROVE  \E h \in (k + 1)..i : M[h].kind = "suspect"
    <3>1. k # i0 /\ words[k].kind = "keyword" /\ k < i0 /\ i \in Tails(k)
      <4>1. k # i0 /\ words[k].kind = "keyword"
        BY <1>8, <2>2
      <4>2. k < i0
        BY <1>1, <1>2, <1>7, <2>2, <4>1
      <4> QED BY <2>1, <2>2, <4>1, <4>2
    <3>2. i \in (k + 1)..n
      BY <3>1 DEF Tails
    <3>3. CASE k < pos
      <4>1. PICK h \in (k + 1)..i : words[h].kind = "suspect"
        BY <1>2, <2>2, <3>1, <3>3 DEF RedactInv, Served
      <4>2. h \in 1..n
        BY <1>2, <3>2
      <4> QED BY <1>8, <4>1, <4>2
    <3>4. CASE ~(k < pos)
      <4>1. k \in Keywords
        BY <1>2, <2>2, <3>1, <3>4 DEF Keywords
      <4>2. k0 <= k
        BY <1>4, <4>1
      <4>3. i \in Tails(k0)
        BY <1>2, <1>5, <2>2, <3>1, <3>2, <4>2 DEF Tails
      <4>4. i0 <= i
        BY <1>6, <4>3
      <4>5. i0 \in (k + 1)..i
        BY <1>2, <1>7, <3>1, <3>2, <4>4
      <4> QED BY <1>8, <4>5
    <3> QED BY <3>3, <3>4
  <2>3. ASSUME NEW x \in 1..n, M[x].kind = "suspect"
        PROVE  \E k \in 1..(x - 1) : M[k].kind = "keyword"
    <3>1. CASE x = i0
      <4>1. k0 \in 1..(x - 1) /\ M[k0] = words[k0]
        BY <1>2, <1>5, <1>7, <2>0, <3>1
      <4> QED BY <1>5, <4>1
    <3>2. CASE x # i0
      <4>1. words[x].kind = "suspect"
        BY <1>8, <2>3, <3>2
      <4>2. PICK k \in 1..(x - 1) : words[k].kind = "keyword"
        BY <1>2, <4>1 DEF RedactInv, Served
      <4>3. k \in 1..n
        BY <1>2, <2>3
      <4> QED BY <2>0, <4>2, <4>3
    <3> QED BY <3>1, <3>2
  <2>4. ~(pos' = 0)
    BY <1>1, <1>2, <1>7
  <2> QED BY <1>1, <1>9, <2>2, <2>3, <2>4 DEF Served
<1> QED BY <1>10, <1>11, <1>12, <1>13 DEF RedactInv

\* Every step keeps the strengthening.
LEMMA RedactKeeps == RedactInv /\ [RedactNext]_redactVars => RedactInv'
<1> SUFFICES ASSUME RedactInv, [RedactNext]_redactVars PROVE RedactInv'
  OBVIOUS
<1>1. CASE UNCHANGED redactVars
  <2>1. LineShape'
    BY <1>1 DEF redactVars, RedactInv, LineShape
  <2>2. MergedRight'
    BY <1>1 DEF redactVars, RedactInv, MergedRight, Claimed
  <2>3. InPlace'
    BY <1>1 DEF redactVars, RedactInv, InPlace, Intact
  <2>4. Served'
    BY <1>1 DEF redactVars, RedactInv, Served, Tails, Shaped, SteppedOver
  <2> QED BY <2>1, <2>2, <2>3, <2>4 DEF RedactInv
<1> QED BY <1>1, MergeKeeps, MaskKeeps, StartKeeps, SweepKeeps DEF RedactNext

\* Nothing claimed leaves, no keyword keeps its credential, nothing else is lost.
THEOREM RedactsExactly == RedactSpec => []RedactionExact
<1>1. RedactInv => RedactionExact
  <2> SUFFICES ASSUME RedactInv PROVE RedactionExact
    OBVIOUS
  <2> DEFINE n == Len(words)
  <2>1. /\ Whole(words) /\ words \in Seq(Word) /\ n \in Nat /\ DOMAIN words = 1..n
        /\ n <= LineLength /\ pos \in 0..(n + 1) /\ pos \in Nat /\ LineLength \in Nat
    BY RedactionBounds DEF RedactInv, LineShape, Whole
  <2>2. \A i \in DOMAIN words : words[i] \in Word
    BY <2>1, ElementIn
  <2>3. RedactTypeOK
    <3>1. pos \in 0..(LineLength + 1)
      BY <2>1
    <3>2. \A i \in DOMAIN merged : merged[i] \in Spans
      BY ElementIn DEF RedactInv, LineShape
    <3>3. \A i \in DOMAIN words : /\ words[i].kind \in WordKinds \cup {"token", "suspect"}
                                   /\ words[i].of # {} /\ words[i].of \subseteq Places
      BY <2>1, <2>2 DEF Whole, Word, Hides
    <3> QED BY <3>1, <3>2, <3>3 DEF RedactInv, LineShape, RedactTypeOK
  <2>4. Hidden = HiddenIn(words)
    BY DEF Hidden, HiddenIn, Hides
  <2>5. UNION {words[i].of : i \in DOMAIN words} = Places
    BY <2>1, <2>2 DEF Whole, Word
  <2>6. ASSUME Swept PROVE \A s \in claims : s[1]..s[2] \subseteq Hidden
    <3>1. spans = {} /\ merged = <<>>
      BY <2>6 DEF Swept, RedactInv, MergedRight
    <3>2. \A s \in claims : Claimed(s)
      BY <3>1 DEF RedactInv, MergedRight
    <3> QED BY <2>4, <3>1, <3>2 DEF Claimed
  <2>7. ASSUME Swept, NEW k \in DOMAIN words, words[k].kind = "keyword", NEW i \in Tails(k)
        PROVE  \E h \in (k + 1)..i : words[h].kind = "suspect"
    <3>1. CASE k < pos
      BY <2>7, <3>1 DEF RedactInv, Served
    <3>2. CASE ~(k < pos)
      <4>1. k \in Keywords /\ Keywords \in SUBSET Nat /\ Keywords # {}
        BY <2>1, <2>7, <3>2 DEF Keywords
      <4>2. Min(Keywords) \in Keywords /\ Min(Keywords) <= k
        BY <4>1, MinOfNumbers
      <4>3. i \in Tails(Min(Keywords))
        <5> DEFINE m == Min(Keywords)
        <5>1. m \in Nat /\ m <= k /\ k \in Nat
          BY <2>1, <4>1, <4>2
        <5> HIDE DEF m
        <5>2. i \in Tails(m)
          BY <2>1, <2>7, <5>1 DEF Tails
        <5> QED BY <5>2 DEF m
      <4> QED BY <2>7, <4>1, <4>3 DEF Swept
    <3> QED BY <3>1, <3>2
  <2> QED BY <2>1, <2>3, <2>5, <2>6, <2>7 DEF RedactInv, Served, Whole, RedactionExact
<1> QED BY <1>1, RedactStarts, RedactKeeps, PTL DEF RedactSpec

================================================================================
