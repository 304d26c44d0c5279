------------------------------- MODULE Console -------------------------------
(***************************************************************************)
(* Remote console sessions (remote_console.py, _spawn_console_session of   *)
(* checkin.py, the host's console poll and its PTY server                  *)
(* netmon-host-console.py).                                                *)
(*                                                                         *)
(* A command of the dashboard starts a detached session process, which     *)
(* dials the broker.  In restricted mode it runs listed commands, the slow *)
(* ones in worker threads.  In full mode it bridges to a shell on the      *)
(* host: the check-in leaves a request with a fresh nonce, the host's poll *)
(* starts a server per request, and the server hands out its shell to the  *)
(* first client, if that client knows the nonce.                           *)
(*                                                                         *)
(* Deadlines (the bridge's wait, accept, handshake, the session's ceiling) *)
(* are steps that may come at any time.                                    *)
(***************************************************************************)
EXTENDS Integers, FiniteSets, SequencesExt

CONSTANTS
    Sids,           \* session ids of the dashboard
    MaxSessions,    \* bound: session processes; a process is known by its nonce
    LiveOps,        \* _LIVE_OPS
    MaxOps,         \* MAX_CONCURRENT_OPS
    MaxDrainKills   \* bound: host polls killed while they drain the requests

ASSUME ConsoleBounds ==
    MaxSessions \in Nat /\ MaxOps \in Nat \ {0} /\ MaxDrainKills \in Nat

Sessions == 1..MaxSessions
Nobody == 0

VARIABLES
    session,    \* the session processes: id, mode, where each is
    opsRunning, \* _ops_inflight of each
    workers,    \* worker threads of each, by operation
    request,    \* host-console-request: <<sid, nonce>> lines
    draining,   \* the snapshot the host poll works through
    server,     \* the PTY server of each sid: its phase, nonce, client and backlog
    drainKills

consoleVars == <<session, opsRunning, workers, request, draining, server, drainKills>>
hostVars == <<request, draining, server, drainKills>>
opVars == <<opsRunning, workers>>

NoSession == [sid |-> "none", mode |-> "restricted", phase |-> "none"]
NoServer  == [phase |-> "none", nonce |-> Nobody, client |-> Nobody, backlog |-> <<>>]

ConsoleInit ==
    /\ session = [i \in Sessions |-> NoSession]
    /\ opsRunning = [i \in Sessions |-> {}]
    /\ workers = [i \in Sessions |-> [o \in LiveOps |-> 0]]
    /\ request = <<>> /\ draining = <<>> /\ server = [s \in Sids |-> NoServer]
    /\ drainKills = 0

Goes(i, phase) == session' = [session EXCEPT ![i].phase = phase]

----------------------------------------------------------------------------
(* The session process. *)

\* _spawn_console_session: the request precedes the process, which may not start.
\* Nothing keeps the dashboard from repeating a command.
SpawnSession(i, sid, mode) ==
    /\ session[i].phase = "none" /\ \A j \in 1..(i - 1) : session[j].phase # "none"
    /\ request' = IF mode = "full" THEN Append(request, <<sid, i>>) ELSE request
    /\ \E phase \in {"dial", "ended"} :
          session' = [session EXCEPT ![i] = [sid |-> sid, mode |-> mode, phase |-> phase]]
    /\ UNCHANGED <<opVars, draining, server, drainKills>>

\* create_connection, and the refusal of anything but an upgrade.
Dial(i) ==
    /\ session[i].phase = "dial"
    /\ \/ Goes(i, IF session[i].mode = "full" THEN "attach" ELSE "serve")
       \/ Goes(i, "ended")
    /\ UNCHANGED <<opVars, hostVars>>

\* _HostShellBridge: connects as soon as the socket is there, and says hello.
BridgeConnects(i) ==
    LET s == session[i].sid
    IN  /\ session[i].phase = "attach" /\ server[s].phase # "none"
        /\ server' = [server EXCEPT ![s].backlog = Append(@, i)]
        /\ Goes(i, "bridge")
        /\ UNCHANGED <<opVars, request, draining, drainKills>>
BridgeGivesUp(i) ==
    /\ session[i].phase = "attach" /\ Goes(i, "ended")
    /\ UNCHANGED <<opVars, hostVars>>

\* The server closed the socket: _pump_from_host ends, and with it the session loop.
BridgeEnds(i) ==
    LET v == server[session[i].sid]
    IN  /\ session[i].phase = "bridge" /\ v.client # i /\ i \notin ToSet(v.backlog)
        /\ Goes(i, "ended")
        /\ UNCHANGED <<opVars, hostVars>>

\* _run_op_async: both checks under one lock; the thread may not start, and then the
\* slot is given back.
RunOp(i, o) ==
    /\ session[i].phase = "serve" /\ o \notin opsRunning[i] /\ Cardinality(opsRunning[i]) < MaxOps
    /\ \/ /\ opsRunning' = [opsRunning EXCEPT ![i] = @ \cup {o}]
          /\ workers' = [workers EXCEPT ![i][o] = @ + 1]
       \/ UNCHANGED opVars
    /\ UNCHANGED <<session, hostVars>>
\* The worker ends, whether the operation did or raised.
OpEnds(i, o) ==
    /\ session[i].phase = "serve" /\ workers[i][o] > 0
    /\ workers' = [workers EXCEPT ![i][o] = @ - 1]
    /\ opsRunning' = [opsRunning EXCEPT ![i] = @ \ {o}]
    /\ UNCHANGED <<session, hostVars>>

\* The broker closes, the ceiling is reached, or the container is restarted: the
\* bridge's socket and the daemon threads go with the process.
SessionEnds(i) ==
    /\ session[i].phase \in {"serve", "bridge"}
    /\ Goes(i, "ended")
    /\ opsRunning' = [opsRunning EXCEPT ![i] = {}]
    /\ workers' = [workers EXCEPT ![i] = [o \in LiveOps |-> 0]]
    /\ UNCHANGED hostVars

----------------------------------------------------------------------------
(* The host: the poll and its servers. *)

\* The requests are renamed away; what an earlier poll left there is overwritten.
DrainRequests ==
    /\ request # <<>> /\ draining = <<>>
    /\ draining' = request /\ request' = <<>>
    /\ UNCHANGED <<session, opVars, server, drainKills>>
\* systemd-run fails where the unit of that sid still runs.
Arm ==
    /\ draining # <<>>
    /\ LET sid == draining[1][1]
       IN  server' = IF server[sid].phase # "none" THEN server
                     ELSE [server EXCEPT ![sid] =
                              [NoServer EXCEPT !.phase = "listen", !.nonce = draining[1][2]]]
    /\ draining' = Tail(draining)
    /\ UNCHANGED <<session, opVars, request, drainKills>>
DrainKilled ==
    /\ draining # <<>> /\ drainKills < MaxDrainKills
    /\ draining' = <<>> /\ drainKills' = drainKills + 1
    /\ UNCHANGED <<session, opVars, request, server>>

Serving(s, phase) == server' = [server EXCEPT ![s].phase = phase]
Server(s, P) == server[s].phase = P /\ UNCHANGED <<session, opVars, request, draining, drainKills>>
\* main: one client is accepted; nobody within the time ends it.
Accept(s) ==
    /\ Server(s, "listen") /\ server[s].backlog # <<>>
    /\ server' = [server EXCEPT ![s].phase = "hello", ![s].client = Head(server[s].backlog),
                                ![s].backlog = Tail(@)]
NobodyCame(s) ==
    /\ Server(s, "listen") /\ server[s].backlog = <<>>
    /\ server' = [server EXCEPT ![s] = NoServer]

\* _serve: the first frame must carry the nonce.  A refused client ends the server.
NonceUnchecked(s) ==     \* mutant: any hello gets the shell
    Server(s, "hello") /\ Serving(s, "shell")
Hello(s) ==
    /\ Server(s, "hello")
    /\ IF server[s].client = server[s].nonce THEN Serving(s, "shell")
       ELSE server' = [server EXCEPT ![s] = NoServer]
\* bash exits: the bridge is told and leaves; the server waits for its next frame.
ShellExits(s) == Server(s, "shell") /\ Serving(s, "exited")
\* End of file from the client, or its "closed": bash and its session are killed.
TeardownLost(s) ==       \* mutant: the end of the client goes unnoticed
    /\ Server(s, "exited")
    /\ server' = [server EXCEPT ![s] = NoServer]
Teardown(s) ==
    /\ server[s].phase \in {"shell", "exited"} /\ session[server[s].client].phase = "ended"
    /\ server' = [server EXCEPT ![s] = NoServer]
    /\ UNCHANGED <<session, opVars, request, draining, drainKills>>

HostStep == \/ DrainRequests \/ Arm \/ DrainKilled
            \/ \E s \in Sids : Accept(s) \/ NobodyCame(s) \/ Hello(s) \/ ShellExits(s) \/ Teardown(s)
SessionStep(i) == Dial(i) \/ BridgeConnects(i) \/ BridgeGivesUp(i) \/ BridgeEnds(i) \/ SessionEnds(i)
ConsoleNext ==
    \/ \E i \in Sessions :
          \/ \E sid \in Sids, mode \in {"restricted", "full"} : SpawnSession(i, sid, mode)
          \/ SessionStep(i)
          \/ \E o \in LiveOps : RunOp(i, o) \/ OpEnds(i, o)
    \/ HostStep

ConsoleSpec == ConsoleInit /\ [][ConsoleNext]_consoleVars

----------------------------------------------------------------------------
ConsoleTypeOK ==
    /\ session \in [Sessions -> [sid : Sids \cup {"none"}, mode : {"restricted", "full"},
                                 phase : {"none", "dial", "attach", "bridge", "serve", "ended"}]]
    /\ opsRunning \in [Sessions -> SUBSET LiveOps]
    /\ workers \in [Sessions -> [LiveOps -> Nat]]
    /\ request \in Seq(Sids \X Sessions) /\ draining \in Seq(Sids \X Sessions)
    /\ server \in [Sids -> [phase : {"none", "listen", "hello", "shell", "exited"},
                            nonce : 0..MaxSessions, client : 0..MaxSessions,
                            backlog : Seq(Sessions)]]
    /\ drainKills \in 0..MaxDrainKills

\* A shell of the host is in the hands of the very process it was armed for: one
\* spawned in full mode for that session.
ShellAuthorised ==
    \A s \in Sids : server[s].phase = "shell" =>
        LET i == server[s].client
        IN  i = server[s].nonce /\ session[i].mode = "full" /\ session[i].sid = s

\* An operation never runs twice at once in a session, no more than MaxOps run
\* together, and a slot is taken just as long as its worker runs.
OpsBounded ==
    \A i \in Sessions :
        /\ \A o \in LiveOps : workers[i][o] = IF o \in opsRunning[i] THEN 1 ELSE 0
        /\ Cardinality({o \in LiveOps : workers[i][o] > 0}) <= MaxOps

\* No shell outlives its session: every server is gone again.
ShellReaped == \A s \in Sids : server[s].phase # "none" ~> server[s].phase = "none"

\* What holds of the console at every instant: shells are authorised, and operations
\* and their slots go together.
ConsoleSound == ConsoleTypeOK /\ ShellAuthorised /\ OpsBounded
=============================================================================
