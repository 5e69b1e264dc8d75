--------------------------- MODULE RealtimeClient ---------------------------
(***************************************************************************)
(* How a browser tab stays current: the SignalR hub of the server, the     *)
(* connection of the page, the state the page keeps about it, and one      *)
(* query of the page's query cache.                                        *)
(*                                                                         *)
(* Data never goes stale by itself (staleTime is Infinity): a query is     *)
(* loaded again only because GitFetched arrived or because the connection  *)
(* came back.  So each announcement must reach a page that is connected,   *)
(* and each page that was not connected must load again when it is.        *)
(*                                                                         *)
(* The server answers a request with some version between the newest that  *)
(* was announced when the request was sent and the present one; that is    *)
(* what the command cache promises (FreshResponse in CommandCache).        *)
(***************************************************************************)
EXTENDS Naturals, Sequences

CONSTANTS
    None,       \* no data
    MaxVersion, \* bound: versions of the repository
    MaxBuild,   \* bound: restarts of the server, each with another build
    MaxWire,    \* bound: messages on their way to the page
    MaxPolls    \* bound: timers of the page, counted up to this

ASSUME BoundsAssumption ==
    /\ MaxVersion \in Nat /\ MaxBuild \in Nat /\ MaxWire \in Nat
    /\ MaxPolls \in Nat \ {0}

VARIABLES
    repo,        \* the version of the refs of the clone
    announced,   \* the newest version a GitFetched message has announced
    build,       \* BuildOptions.GitHash of the running server
    session,     \* how far the server is with the connection of this page
    wire,        \* messages sent on that connection and not yet received
    pageBuild,   \* gitHash, compiled into the page
    hub,         \* connection.state
    restart,     \* forceReconnect waits for connection.stop()
    app,         \* connectionState$
    polls,       \* pending setTimeout(requestHubState, 500)
    mounted,     \* a mounted component observes the query
    data,        \* the version the query holds
    invalidated, \* its isInvalidated flag
    failed,      \* its status is "error"
    request,     \* its fetch in flight
    missed,      \* history: announced to a connected page that is in no group
    overtaken    \* history: invalidated while a load was in flight, and left to run

serverVars  == <<repo, announced, build>>
hubVars     == <<hub, restart>>
queryVars   == <<data, invalidated, failed, request, overtaken>>
vars == <<serverVars, session, wire, pageBuild, hubVars, app, polls, mounted,
          queryVars, missed>>

HubState == {"Disconnected", "Connecting", "Connected", "Reconnecting", "Disconnecting"}
Session  == {"none", "accepted", "greeted", "member"}
Message  == [type : {"GitHash"}, hash : 0 .. MaxBuild] \cup [type : {"GitFetched"}]
Request  == [state : {"idle", "sent", "answered"}, version : Nat]

reconnectStates == {"Connecting", "Reconnecting"}
GitFetched == [type |-> "GitFetched"]
NoRequest  == [state |-> "idle", version |-> 0]

TypeOK ==
    /\ repo \in 0 .. MaxVersion /\ announced \in 0 .. repo
    /\ build \in 0 .. MaxBuild /\ pageBuild \in 0 .. MaxBuild
    /\ session \in Session
    /\ wire \in Seq(Message)
    /\ hub \in HubState /\ app \in HubState
    /\ polls \in 0 .. MaxPolls
    /\ data \in 0 .. repo \cup {None}
    /\ request \in Request /\ request.version \in 0 .. repo
    /\ restart \in BOOLEAN /\ mounted \in BOOLEAN
    /\ invalidated \in BOOLEAN /\ failed \in BOOLEAN
    /\ missed \in BOOLEAN /\ overtaken \in BOOLEAN

\* The page as it is once main.tsx has run: the connection has been started,
\* and createRealtimeApi has asked for its state.
Init ==
    /\ repo = 0 /\ announced = 0
    /\ build = 0 /\ pageBuild = 0
    /\ session = "none" /\ wire = <<>>
    /\ hub = "Connecting" /\ restart = FALSE
    /\ app = "Connecting" /\ polls = 1
    /\ mounted = FALSE
    /\ data = None /\ invalidated = FALSE /\ failed = FALSE
    /\ request = NoRequest
    /\ missed = FALSE /\ overtaken = FALSE

-----------------------------------------------------------------------------
(* The query of the page (@tanstack/react-query).                          *)

NewRequest == [state |-> "sent", version |-> announced]

\* invalidateQueries marks the query, and loads it again if it is observed.  A
\* load in flight is cancelled for the new one only if there is data already.
Restarted == mounted /\ (data # None \/ request.state = "idle")

InvalidateWithoutRefetch ==
    /\ invalidated' = TRUE
    /\ UNCHANGED <<data, failed, request, overtaken>>

Invalidate ==
    /\ invalidated' = TRUE
    /\ request' = IF Restarted THEN NewRequest ELSE request
    /\ overtaken' = (request.state # "idle" /\ ~Restarted)
    /\ UNCHANGED <<data, failed>>

Mount ==
    /\ ~mounted
    /\ mounted' = TRUE
    /\ request' = IF (data = None \/ invalidated) /\ request.state = "idle"
                  THEN NewRequest ELSE request
    /\ UNCHANGED <<serverVars, session, wire, pageBuild, hubVars, app, polls,
                   data, invalidated, failed, overtaken, missed>>

Unmount ==
    /\ mounted
    /\ mounted' = FALSE
    /\ UNCHANGED <<serverVars, session, wire, pageBuild, hubVars, app, polls,
                   queryVars, missed>>

\* refetchOnWindowFocus, which concerns stale data only.
Focus ==
    /\ mounted
    /\ data = None \/ invalidated
    /\ request.state = "idle"
    /\ request' = NewRequest
    /\ UNCHANGED <<serverVars, session, wire, pageBuild, hubVars, app, polls,
                   mounted, data, invalidated, failed, overtaken, missed>>

\* The server computes the answer.
Answer ==
    /\ request.state = "sent"
    /\ \E v \in request.version .. repo :
          request' = [state |-> "answered", version |-> v]
    /\ UNCHANGED <<serverVars, session, wire, pageBuild, hubVars, app, polls,
                   mounted, data, invalidated, failed, overtaken, missed>>

LoadSucceeds ==
    /\ request.state = "answered"
    /\ data' = request.version
    /\ invalidated' = FALSE
    /\ failed' = FALSE
    /\ request' = NoRequest
    /\ UNCHANGED <<serverVars, session, wire, pageBuild, hubVars, app, polls,
                   mounted, overtaken, missed>>

\* The load fails, after the retries of the query client.
LoadFails ==
    /\ request.state # "idle"
    /\ failed' = TRUE
    /\ request' = NoRequest
    /\ UNCHANGED <<serverVars, session, wire, pageBuild, hubVars, app, polls,
                   mounted, data, invalidated, overtaken, missed>>

-----------------------------------------------------------------------------
(* handleServiceMessage({ type: 'hubState', state }) of realtime-api.ts.   *)

TellWithoutInvalidate(state) ==
    /\ app' = state
    /\ polls' = IF state \in reconnectStates /\ polls < MaxPolls THEN polls + 1 ELSE polls
    /\ UNCHANGED queryVars

Tell(state) ==
    /\ app' = state
    /\ polls' = IF state \in reconnectStates /\ polls < MaxPolls THEN polls + 1 ELSE polls
    /\ IF state = "Connected" /\ app # "Connected" THEN Invalidate ELSE UNCHANGED queryVars

\* The timer of 500 ms: requestHubState, which answers at once.  The timer that
\* fires is replaced while the hub is still connecting.
PollHubState ==
    /\ polls > 0
    /\ app' = hub
    /\ polls' = IF hub \in reconnectStates THEN polls ELSE polls - 1
    /\ IF hub = "Connected" /\ app # "Connected" THEN Invalidate ELSE UNCHANGED queryVars
    /\ UNCHANGED <<serverVars, session, wire, pageBuild, hubVars, mounted, missed>>

-----------------------------------------------------------------------------
(* The connection (@microsoft/signalr), with the callbacks of              *)
(* implementation.ts: each change of state is told to the page at once,    *)
(* except the one to Disconnecting.                                        *)

HubBecomes(state) ==
    /\ hub' = state
    /\ Tell(state)

\* connection.start() settles, or an automatic reconnection succeeds: the
\* handshake of a session the server has accepted arrives.
ConnectionOpens ==
    /\ hub \in reconnectStates
    /\ session # "none"
    /\ HubBecomes("Connected")
    /\ missed' = FALSE
    /\ UNCHANGED <<serverVars, session, wire, pageBuild, restart, mounted>>

\* connection.start() fails, or automatic reconnection gives up (onclose).
ConnectionFails ==
    /\ hub \in reconnectStates
    /\ HubBecomes("Disconnected")
    /\ session' = "none" /\ wire' = <<>>
    /\ UNCHANGED <<serverVars, pageBuild, restart, mounted, missed>>

\* The page notices that the connection is lost (onreconnecting).
ConnectionLost ==
    /\ hub = "Connected"
    /\ HubBecomes("Reconnecting")
    /\ session' = "none" /\ wire' = <<>>
    /\ UNCHANGED <<serverVars, pageBuild, restart, mounted, missed>>

\* requestReconnect: only from Disconnected.
RequestReconnect ==
    /\ hub = "Disconnected"
    /\ HubBecomes("Connecting")
    /\ UNCHANGED <<serverVars, session, wire, pageBuild, restart, mounted, missed>>

Stop(reconnect) ==
    /\ hub # "Disconnected"
    /\ hub' = "Disconnecting"
    /\ restart' = (restart \/ reconnect)
    /\ session' = "none" /\ wire' = <<>>
    /\ UNCHANGED <<serverVars, pageBuild, app, polls, mounted, queryVars, missed>>

ForceDisconnect == Stop(FALSE)

\* forceReconnect: from Disconnected it starts the connection at once, as
\* requestReconnect does; else it waits for connection.stop() first.
ForceReconnect == Stop(TRUE)

\* connection.stop() is through: onclose, then what forceReconnect has left to
\* do, with nothing of the page in between.
StopCompletesUntold ==
    /\ hub = "Disconnecting"
    /\ hub' = IF restart THEN "Connecting" ELSE "Disconnected"
    /\ restart' = FALSE
    /\ UNCHANGED <<serverVars, session, wire, pageBuild, app, polls, mounted, queryVars, missed>>

StopCompletes ==
    /\ hub = "Disconnecting"
    /\ HubBecomes(IF restart THEN "Connecting" ELSE "Disconnected")
    /\ restart' = FALSE
    /\ UNCHANGED <<serverVars, session, wire, pageBuild, mounted, missed>>

-----------------------------------------------------------------------------
(* Messages of the server, as implementation.ts receives them.             *)

ReceiveGitFetched ==
    /\ hub = "Connected"
    /\ wire # <<>> /\ Head(wire) = GitFetched
    /\ wire' = Tail(wire)
    /\ Invalidate
    /\ missed' = FALSE
    /\ UNCHANGED <<serverVars, session, pageBuild, hubVars, app, polls, mounted>>

ReceiveGitHashWithoutReload ==
    /\ hub = "Connected"
    /\ wire # <<>> /\ Head(wire).type = "GitHash"
    /\ wire' = Tail(wire)
    /\ UNCHANGED <<serverVars, session, pageBuild, hubVars, app, polls, mounted,
                   queryVars, missed>>

\* A page of another build is reloaded, and gets the build the server is at.
ReceiveGitHash ==
    /\ hub = "Connected"
    /\ wire # <<>> /\ Head(wire).type = "GitHash"
    /\ \/ /\ Head(wire).hash = pageBuild
          /\ wire' = Tail(wire)
          /\ UNCHANGED <<session, pageBuild, hubVars, app, polls, mounted, queryVars, missed>>
       \/ /\ Head(wire).hash # pageBuild
          /\ pageBuild' = build
          /\ session' = "none" /\ wire' = <<>>
          /\ hub' = "Connecting" /\ restart' = FALSE
          /\ app' = "Connecting" /\ polls' = 1
          /\ mounted' = FALSE
          /\ data' = None /\ invalidated' = FALSE /\ failed' = FALSE
          /\ request' = NoRequest
          /\ missed' = FALSE /\ overtaken' = FALSE
    /\ UNCHANGED serverVars

-----------------------------------------------------------------------------
(* The server.                                                             *)

\* The handshake; then FullHub.OnConnectedAsync runs, step by step.
AcceptConnection ==
    /\ hub \in reconnectStates
    /\ session = "none"
    /\ session' = "accepted"
    /\ UNCHANGED <<serverVars, wire, pageBuild, hubVars, app, polls, mounted, queryVars, missed>>

SendGitHash ==
    /\ session = "accepted"
    /\ session' = "greeted"
    /\ wire' = Append(wire, [type |-> "GitHash", hash |-> build])
    /\ UNCHANGED <<serverVars, pageBuild, hubVars, app, polls, mounted, queryVars, missed>>

AddToGroup ==
    /\ session = "greeted"
    /\ session' = "member"
    /\ UNCHANGED <<serverVars, wire, pageBuild, hubVars, app, polls, mounted, queryVars, missed>>

UpdateRepository ==
    /\ repo < MaxVersion
    /\ repo' = repo + 1
    /\ UNCHANGED <<announced, build, session, wire, pageBuild, hubVars, app, polls,
                   mounted, queryVars, missed>>

\* GitFetchedMessage goes to the members of the group AuthenticatedUser.
AnnounceBeforeFetch ==
    /\ Len(wire) < MaxWire
    /\ announced' = repo + 1
    /\ wire' = IF session = "member" THEN Append(wire, GitFetched) ELSE wire
    /\ UNCHANGED <<repo, build, session, pageBuild, hubVars, app, polls, mounted, queryVars, missed>>

AnnounceFetch ==
    /\ Len(wire) < MaxWire
    /\ announced' = repo
    /\ wire' = IF session = "member" THEN Append(wire, GitFetched) ELSE wire
    /\ missed' = (missed \/ (hub = "Connected" /\ session \in {"accepted", "greeted"}))
    /\ UNCHANGED <<repo, build, session, pageBuild, hubVars, app, polls, mounted, queryVars>>

\* The server goes down and comes up with another build; the page does not
\* know yet that its connection is gone.
ServerRestarts ==
    /\ build < MaxBuild
    /\ build' = build + 1
    /\ session' = "none" /\ wire' = <<>>
    /\ UNCHANGED <<repo, announced, pageBuild, hubVars, app, polls, mounted, queryVars, missed>>

-----------------------------------------------------------------------------
Query == Mount \/ Unmount \/ Focus \/ Answer \/ LoadSucceeds \/ LoadFails

Connection ==
    \/ PollHubState
    \/ ConnectionOpens
    \/ ConnectionFails
    \/ ConnectionLost
    \/ RequestReconnect
    \/ ForceDisconnect
    \/ ForceReconnect
    \/ StopCompletes
    \/ ReceiveGitFetched
    \/ ReceiveGitHash

Server ==
    \/ AcceptConnection
    \/ SendGitHash
    \/ AddToGroup
    \/ UpdateRepository
    \/ AnnounceFetch
    \/ ServerRestarts

Next == Query \/ Connection \/ Server

\* Requests are answered or fail, OnConnectedAsync runs to its end, messages of
\* a connection that stays up arrive, and a dead connection is noticed.
Fairness ==
    /\ WF_vars(Answer)
    /\ WF_vars(LoadSucceeds)
    /\ WF_vars(SendGitHash)
    /\ WF_vars(AddToGroup)
    /\ WF_vars(ReceiveGitFetched)
    /\ WF_vars(ReceiveGitHash)
    /\ WF_vars(session = "none" /\ ConnectionLost)

Spec == Init /\ [][Next]_vars /\ Fairness

-----------------------------------------------------------------------------
\* The page knows the state of its connection, unless it is being stopped: no
\* order of starts, stops, losses and timers leaves connectionState$ behind.
AppMirrorsHub == app = hub \/ hub = "Disconnecting"

\* The page that takes part is of the build that serves it, once the greeting
\* of its session has arrived.
OutdatedPageReloads ==
    hub = "Connected" /\ session = "member" /\ (\A i \in DOMAIN wire : wire[i] = GitFetched)
        => pageBuild = build

Outdated == data # None /\ data < announced

\* A GitFetched message is on its way to the page.
Told == \E i \in DOMAIN wire : wire[i] = GitFetched

\* A page that shows an older version than was announced will hear of it: the
\* query is marked, or the message is on its way, or a connection is due.
OutdatedPageWillKnow ==
    Outdated /\ ~missed /\ ~overtaken =>
        \/ invalidated
        \/ Told
        \/ session = "none"
        \/ app # "Connected"

\* A page that stays connected and keeps the query mounted ends up with the
\* newest version announced, or with an error to show, once fetches cease: each
\* one makes the page drop the load that is under way.
CatchesUp ==
    <>[](mounted /\ hub = "Connected" /\ ~Told) =>
        <>[](~Outdated \/ missed \/ overtaken \/ failed)

\* A connected page is told of each fetch: refuted between the handshake and
\* AddToGroupAsync.
ConnectedPageIsTold == ~missed

\* The same without the exception for a load in flight: refuted by a first load
\* that is answered before, and received after, the invalidation.
LoadedPageWillKnow ==
    Outdated /\ ~missed =>
        \/ invalidated
        \/ Told
        \/ session = "none"
        \/ app # "Connected"

=============================================================================
