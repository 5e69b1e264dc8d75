------------------------ MODULE RealtimeClientProofs ------------------------
(***************************************************************************)
(* RealtimeClient for every number of versions, restarts, messages and     *)
(* timers: the page mirrors its connection, and a page that shows outdated *)
(* data will hear of it.                                                   *)
(***************************************************************************)
EXTENDS RealtimeClient, TLAPS

-----------------------------------------------------------------------------
\* A session exists only while the page is connecting or connected.
SessionInv == session # "none" => hub \in {"Connecting", "Reconnecting", "Connected"}

\* What is on its way was sent in this session; its greeting names the build
\* of the server, and until it arrives the page may be of another one.
WireInv ==
    /\ session \in {"none", "accepted"} => wire = <<>>
    /\ \A i \in 1 .. Len(wire) : wire[i] # GitFetched => wire[i].hash = build
    /\ session \in {"greeted", "member"} =>
          pageBuild = build \/ \E i \in 1 .. Len(wire) : wire[i] # GitFetched

\* The page is going to invalidate its query.
Due == Told \/ session = "none" \/ app # "Connected"

\* A load in flight that may bring outdated data is followed by another one.
RequestInv ==
    request.state # "idle" /\ request.version < announced /\ ~missed /\ ~overtaken => Due

IInv ==
    /\ TypeOK
    /\ AppMirrorsHub
    /\ SessionInv
    /\ WireInv
    /\ RequestInv
    /\ OutdatedPageWillKnow

LEMMA InitInv == Init => IInv
<1> SUFFICES ASSUME Init PROVE IInv
  OBVIOUS
<1>1. TypeOK
  <2>1. wire \in Seq(Message)
    BY DEF Init
  <2>2. request \in Request /\ request.version \in 0 .. repo
    BY DEF Init, NoRequest, Request
  <2>3. hub \in HubState /\ app \in HubState /\ session \in Session
    BY DEF Init, HubState, Session
  <2>4. build \in 0 .. MaxBuild /\ pageBuild \in 0 .. MaxBuild /\ polls \in 0 .. MaxPolls
    BY BoundsAssumption DEF Init
  <2>5. repo \in 0 .. MaxVersion /\ announced \in 0 .. repo /\ data \in 0 .. repo \cup {None}
    BY BoundsAssumption DEF Init
  <2> QED
    BY <2>1, <2>2, <2>3, <2>4, <2>5 DEF Init, TypeOK
<1>2. AppMirrorsHub /\ SessionInv /\ RequestInv /\ OutdatedPageWillKnow
  BY DEF Init, AppMirrorsHub, SessionInv, RequestInv, OutdatedPageWillKnow, Outdated, NoRequest
<1>3. WireInv
  BY DEF Init, WireInv
<1> QED
  BY <1>1, <1>2, <1>3 DEF IInv

-----------------------------------------------------------------------------
\* What is left when the first message has been received.
LEMMA TailType ==
    ASSUME wire \in Seq(Message), wire # <<>>
    PROVE  Tail(wire) \in Seq(Message)
  OBVIOUS

LEMMA TailMessages ==
    ASSUME wire \in Seq(Message), wire # <<>>
    PROVE  /\ Head(wire) = wire[1] /\ Len(wire) \in Nat \ {0}
           /\ Len(Tail(wire)) = Len(wire) - 1
           /\ \A i \in 1 .. Len(wire) - 1 : Tail(wire)[i] = wire[i + 1]
  OBVIOUS

\* What invalidating does to the types of the query.

LEMMA InvalidateType ==
    ASSUME TypeOK, Invalidate, repo' = repo
    PROVE  /\ data' \in 0 .. repo' \cup {None}
           /\ invalidated' \in BOOLEAN /\ failed' \in BOOLEAN /\ overtaken' \in BOOLEAN
           /\ request' \in Request /\ request'.version \in 0 .. repo'
<1>1. data' \in 0 .. repo' \cup {None} /\ failed' \in BOOLEAN /\ invalidated' \in BOOLEAN
  BY DEF TypeOK, Invalidate
<1>2. overtaken' \in BOOLEAN
  BY Zenon DEF Invalidate
<1>3. NewRequest \in Request /\ NewRequest.version \in 0 .. repo
  BY DEF TypeOK, NewRequest, Request
<1>4. request' \in Request /\ request'.version \in 0 .. repo'
  <2>1. request' = NewRequest \/ request' = request
    BY Zenon DEF Invalidate
  <2> QED
    BY <2>1, <1>3 DEF TypeOK
<1> QED
  BY <1>1, <1>2, <1>4

LEMMA TellType ==
    ASSUME TypeOK, NEW state \in HubState, Tell(state), repo' = repo
    PROVE  /\ app' \in HubState /\ polls' \in 0 .. MaxPolls
           /\ data' \in 0 .. repo' \cup {None}
           /\ invalidated' \in BOOLEAN /\ failed' \in BOOLEAN /\ overtaken' \in BOOLEAN
           /\ request' \in Request /\ request'.version \in 0 .. repo'
<1>1. app' \in HubState /\ polls' \in 0 .. MaxPolls
  BY BoundsAssumption DEF Tell, TypeOK
<1>2. Invalidate \/ UNCHANGED queryVars
  BY Zenon DEF Tell
<1>3. CASE UNCHANGED queryVars
  BY <1>1, <1>3 DEF queryVars, TypeOK
<1> QED
  BY <1>1, <1>2, <1>3, InvalidateType

LEMMA TypeStep == TypeOK /\ [Next]_vars => TypeOK'
<1> SUFFICES ASSUME TypeOK, [Next]_vars PROVE TypeOK'
  OBVIOUS
<1> USE BoundsAssumption DEF TypeOK, serverVars, hubVars, queryVars, HubState, Session, Request, Message
<1>1. CASE Mount
  BY <1>1 DEF Mount, NewRequest
<1>2. CASE Unmount
  <2>1. UNCHANGED <<serverVars, session, wire, pageBuild, hubVars, app, polls, queryVars, missed>>
    BY <1>2, Zenon DEF Unmount
  <2>2. mounted' \in BOOLEAN
    BY <1>2, Zenon DEF Unmount
  <2> QED
    BY <2>1, <2>2
<1>3. CASE Focus
  BY <1>3 DEF Focus, NewRequest
<1>4. CASE Answer
  BY <1>4 DEF Answer
<1>5. CASE LoadSucceeds
  <2>1. NoRequest \in Request /\ NoRequest.version \in 0 .. repo
    BY DEF NoRequest
  <2>2. data' \in 0 .. repo \cup {None} /\ request' = NoRequest
    BY <1>5 DEF LoadSucceeds
  <2>3. invalidated' \in BOOLEAN /\ failed' \in BOOLEAN
    BY <1>5, Zenon DEF LoadSucceeds
  <2>4. UNCHANGED <<serverVars, session, wire, pageBuild, hubVars, app, polls,
                    mounted, overtaken, missed>>
    BY <1>5, Zenon DEF LoadSucceeds
  <2> QED
    BY <2>1, <2>2, <2>3, <2>4
<1>6. CASE LoadFails
  BY <1>6 DEF LoadFails, NoRequest
<1>7. CASE PollHubState
  <2>1. Invalidate \/ UNCHANGED queryVars
    BY <1>7, Zenon DEF PollHubState
  <2>2. /\ app' \in HubState /\ polls' \in 0 .. MaxPolls
        /\ UNCHANGED <<serverVars, session, wire, pageBuild, hubVars, mounted, missed>>
    BY <1>7 DEF PollHubState
  <2> QED
    BY <2>1, <2>2, InvalidateType
<1>8. CASE ConnectionOpens
  <2>1. /\ hub' \in HubState /\ Tell("Connected") /\ missed' \in BOOLEAN
        /\ UNCHANGED <<serverVars, session, wire, pageBuild, restart, mounted>>
    BY <1>8 DEF ConnectionOpens, HubBecomes
  <2> QED
    BY <2>1, TellType
<1>9. CASE ConnectionFails
  BY <1>9 DEF ConnectionFails, HubBecomes, Tell
<1>10. CASE ConnectionLost
  BY <1>10 DEF ConnectionLost, HubBecomes, Tell
<1>11. CASE RequestReconnect
  BY <1>11 DEF RequestReconnect, HubBecomes, Tell, reconnectStates
<1>12. CASE ForceDisconnect
  BY <1>12 DEF ForceDisconnect, Stop
<1>13. CASE ForceReconnect
  BY <1>13 DEF ForceReconnect, Stop
<1>14. CASE StopCompletes
  <2>1. PICK state \in {"Connecting", "Disconnected"} : HubBecomes(state)
    BY <1>14, Zenon DEF StopCompletes
  <2>2. /\ hub' \in HubState /\ Tell(state) /\ restart' \in BOOLEAN
        /\ UNCHANGED <<serverVars, session, wire, pageBuild, mounted, missed>>
    BY <1>14, <2>1 DEF StopCompletes, HubBecomes
  <2> QED
    BY <2>2, TellType
<1>15. CASE ReceiveGitFetched
  <2>0. wire' \in Seq(Message)
    BY <1>15, TailType, Zenon DEF ReceiveGitFetched
  <2>1. /\ Invalidate /\ missed' \in BOOLEAN
        /\ UNCHANGED <<serverVars, session, pageBuild, hubVars, app, polls, mounted>>
    BY <1>15 DEF ReceiveGitFetched
  <2> QED
    BY <2>0, <2>1, InvalidateType
<1>16. CASE ReceiveGitHash
  <2>1. NoRequest \in Request /\ NoRequest.version \in 0 .. repo
    BY DEF NoRequest
  <2>2. CASE Head(wire).hash = pageBuild
    <3>1. wire' \in Seq(Message)
      BY <1>16, <2>2, TailType, Zenon DEF ReceiveGitHash
    <3>2. UNCHANGED <<serverVars, session, pageBuild, hubVars, app, polls, mounted,
                      queryVars, missed>>
      BY <1>16, <2>2, Zenon DEF ReceiveGitHash
    <3> QED
      BY <3>1, <3>2
  <2>3. CASE Head(wire).hash # pageBuild
    <3>1. /\ wire' = <<>> /\ pageBuild' = build /\ session' = "none" /\ hub' = "Connecting"
          /\ app' = "Connecting" /\ polls' = 1 /\ data' = None /\ request' = NoRequest
      BY <1>16, <2>3, Zenon DEF ReceiveGitHash
    <3>2. /\ restart' \in BOOLEAN /\ mounted' \in BOOLEAN
          /\ invalidated' \in BOOLEAN /\ failed' \in BOOLEAN
          /\ missed' \in BOOLEAN /\ overtaken' \in BOOLEAN
      BY <1>16, <2>3, Zenon DEF ReceiveGitHash
    <3>3. UNCHANGED serverVars
      BY <1>16, Zenon DEF ReceiveGitHash
    <3>4. wire' \in Seq(Message)
      BY <3>1
    <3> QED
      BY <2>1, <3>1, <3>2, <3>3, <3>4
  <2> QED
    BY <2>2, <2>3
<1>17. CASE AcceptConnection
  BY <1>17 DEF AcceptConnection
<1>18. CASE SendGitHash
  BY <1>18 DEF SendGitHash
<1>19. CASE AddToGroup
  BY <1>19 DEF AddToGroup
<1>20. CASE UpdateRepository
  BY <1>20 DEF UpdateRepository
<1>21. CASE AnnounceFetch
  BY <1>21 DEF AnnounceFetch, GitFetched
<1>22. CASE ServerRestarts
  BY <1>22 DEF ServerRestarts
<1>23. CASE UNCHANGED vars
  BY <1>23 DEF vars
<1> QED
  BY <1>1, <1>2, <1>3, <1>4, <1>5, <1>6, <1>7, <1>8, <1>9, <1>10, <1>11, <1>12, <1>13, <1>14, <1>15, <1>16, <1>17, <1>18, <1>19, <1>20, <1>21, <1>22, <1>23 DEF Next, Query, Connection, Server

-----------------------------------------------------------------------------
LEMMA MirrorStep == AppMirrorsHub /\ [Next]_vars => AppMirrorsHub'
<1> SUFFICES ASSUME AppMirrorsHub, [Next]_vars PROVE AppMirrorsHub'
  OBVIOUS
<1> USE DEF AppMirrorsHub
<1>1. CASE PollHubState
  BY <1>1 DEF PollHubState, hubVars
<1>2. CASE ConnectionOpens
  BY <1>2 DEF ConnectionOpens, HubBecomes, Tell
<1>3. CASE ConnectionFails
  BY <1>3 DEF ConnectionFails, HubBecomes, Tell
<1>4. CASE ConnectionLost
  BY <1>4 DEF ConnectionLost, HubBecomes, Tell
<1>5. CASE RequestReconnect
  BY <1>5 DEF RequestReconnect, HubBecomes, Tell
<1>6. CASE ForceDisconnect
  BY <1>6 DEF ForceDisconnect, Stop
<1>7. CASE ForceReconnect
  BY <1>7 DEF ForceReconnect, Stop
<1>8. CASE StopCompletes
  BY <1>8 DEF StopCompletes, HubBecomes, Tell
<1>9. CASE ReceiveGitHash
  BY <1>9 DEF ReceiveGitHash, hubVars
<1>10. CASE UNCHANGED <<hub, app>>
  BY <1>10
<1>11. CASE Mount \/ Unmount \/ Focus \/ Answer \/ LoadSucceeds \/ LoadFails \/ ReceiveGitFetched \/ AcceptConnection \/ SendGitHash \/ AddToGroup \/ UpdateRepository \/ AnnounceFetch \/ ServerRestarts \/ UNCHANGED vars
  BY <1>11, <1>10 DEF Mount, Unmount, Focus, Answer, LoadSucceeds, LoadFails, ReceiveGitFetched, AcceptConnection, SendGitHash, AddToGroup, UpdateRepository, AnnounceFetch, ServerRestarts, vars, serverVars, hubVars, queryVars
<1> QED
  BY <1>1, <1>2, <1>3, <1>4, <1>5, <1>6, <1>7, <1>8, <1>9, <1>10, <1>11 DEF Next, Query, Connection, Server

LEMMA SessionStep == SessionInv /\ [Next]_vars => SessionInv'
<1> SUFFICES ASSUME SessionInv, [Next]_vars PROVE SessionInv'
  OBVIOUS
<1> USE DEF SessionInv, reconnectStates
<1>1. CASE ConnectionOpens
  BY <1>1 DEF ConnectionOpens, HubBecomes, Tell
<1>2. CASE ConnectionFails
  BY <1>2 DEF ConnectionFails, HubBecomes, Tell
<1>3. CASE ConnectionLost
  BY <1>3 DEF ConnectionLost, HubBecomes, Tell
<1>4. CASE RequestReconnect
  BY <1>4 DEF RequestReconnect, HubBecomes, Tell
<1>5. CASE ForceDisconnect
  BY <1>5 DEF ForceDisconnect, Stop
<1>6. CASE ForceReconnect
  BY <1>6 DEF ForceReconnect, Stop
<1>7. CASE StopCompletes
  BY <1>7 DEF StopCompletes, HubBecomes, Tell
<1>8. CASE ReceiveGitHash
  BY <1>8 DEF ReceiveGitHash, hubVars
<1>9. CASE AcceptConnection
  BY <1>9 DEF AcceptConnection, hubVars
<1>10. CASE SendGitHash
  BY <1>10 DEF SendGitHash, hubVars
<1>11. CASE AddToGroup
  BY <1>11 DEF AddToGroup, hubVars
<1>12. CASE ServerRestarts
  BY <1>12 DEF ServerRestarts, hubVars
<1>13. CASE UNCHANGED <<hub, session>>
  BY <1>13
<1>14. CASE Mount \/ Unmount \/ Focus \/ Answer \/ LoadSucceeds \/ LoadFails \/ PollHubState \/ ReceiveGitFetched \/ UpdateRepository \/ AnnounceFetch \/ UNCHANGED vars
  BY <1>14, <1>13 DEF Mount, Unmount, Focus, Answer, LoadSucceeds, LoadFails, PollHubState, ReceiveGitFetched, UpdateRepository, AnnounceFetch, vars, serverVars, hubVars, queryVars
<1> QED
  BY <1>1, <1>2, <1>3, <1>4, <1>5, <1>6, <1>7, <1>8, <1>9, <1>10, <1>11, <1>12, <1>13, <1>14 DEF Next, Query, Connection, Server

LEMMA WireStep == TypeOK /\ SessionInv /\ WireInv /\ [Next]_vars => WireInv'
<1> SUFFICES ASSUME TypeOK, SessionInv, WireInv, [Next]_vars PROVE WireInv'
  OBVIOUS
<1> USE DEF TypeOK, SessionInv, WireInv, GitFetched, Message, serverVars
<1>1. CASE ConnectionFails
  BY <1>1 DEF ConnectionFails
<1>2. CASE ConnectionLost
  BY <1>2 DEF ConnectionLost
<1>3. CASE ForceDisconnect
  BY <1>3 DEF ForceDisconnect, Stop
<1>4. CASE ForceReconnect
  BY <1>4 DEF ForceReconnect, Stop
<1>5. CASE ReceiveGitFetched
  <2>1. /\ wire # <<>> /\ wire[1] = GitFetched
        /\ wire' = Tail(wire) /\ UNCHANGED <<session, build, pageBuild>>
    BY <1>5, TailMessages DEF ReceiveGitFetched
  <2>2. /\ Len(wire') = Len(wire) - 1
        /\ \A i \in 1 .. Len(wire) - 1 : wire'[i] = wire[i + 1]
    BY <2>1, TailMessages
  <2>3. \A i \in 1 .. Len(wire') : wire'[i] # GitFetched => wire'[i].hash = build
    BY <2>1, <2>2
  <2>4. ASSUME NEW i \in 1 .. Len(wire), wire[i] # GitFetched
        PROVE  \E j \in 1 .. Len(wire') : wire'[j] # GitFetched
    <3>1. i - 1 \in 1 .. Len(wire') /\ wire'[i - 1] = wire[i]
      BY <2>1, <2>2, <2>4
    <3> QED
      BY <2>4, <3>1
  <2> QED
    BY <2>1, <2>3, <2>4
<1>6. CASE ReceiveGitHash
  <2>1. CASE Head(wire).hash = pageBuild
    <3>1. /\ wire # <<>> /\ wire[1].hash = pageBuild /\ wire[1].type = "GitHash"
          /\ wire' = Tail(wire) /\ UNCHANGED <<session, build, pageBuild>>
      BY <1>6, <2>1, TailMessages DEF ReceiveGitHash
    <3>2. /\ Len(wire') = Len(wire) - 1
          /\ \A i \in 1 .. Len(wire) - 1 : wire'[i] = wire[i + 1]
      BY <3>1, TailMessages
    <3>3. pageBuild = build
      BY <3>1, TailMessages
    <3> QED
      BY <3>1, <3>2, <3>3
  <2>2. CASE Head(wire).hash # pageBuild
    BY <1>6, <2>2 DEF ReceiveGitHash
  <2> QED
    BY <2>1, <2>2
<1>7. CASE AcceptConnection
  BY <1>7 DEF AcceptConnection
<1>8. CASE SendGitHash
  BY <1>8 DEF SendGitHash
<1>9. CASE AddToGroup
  BY <1>9 DEF AddToGroup
<1>10. CASE AnnounceFetch
  BY <1>10 DEF AnnounceFetch
<1>11. CASE ServerRestarts
  BY <1>11 DEF ServerRestarts
<1>12. CASE UNCHANGED <<session, wire, build, pageBuild>>
  BY <1>12
<1>13. CASE Mount \/ Unmount \/ Focus \/ Answer \/ LoadSucceeds \/ LoadFails \/ PollHubState \/ ConnectionOpens \/ RequestReconnect \/ StopCompletes \/ UpdateRepository \/ UNCHANGED vars
  BY <1>13, <1>12 DEF Mount, Unmount, Focus, Answer, LoadSucceeds, LoadFails, PollHubState, ConnectionOpens, RequestReconnect, StopCompletes, UpdateRepository, vars, serverVars, hubVars, queryVars
<1> QED
  BY <1>1, <1>2, <1>3, <1>4, <1>5, <1>6, <1>7, <1>8, <1>9, <1>10, <1>11, <1>12, <1>13 DEF Next, Query, Connection, Server

-----------------------------------------------------------------------------
\* Nothing is missing while the page is going to invalidate, or has just done.
Known == RequestInv /\ OutdatedPageWillKnow

LEMMA DueKnown == Due' => Known'
  BY DEF Known, Due, RequestInv, OutdatedPageWillKnow

LEMMA InvalidateKnown ==
    ASSUME TypeOK, Invalidate, UNCHANGED announced
    PROVE  Known'
<1>1. invalidated'
  BY Zenon DEF Invalidate
<1>2. request'.state # "idle" => overtaken' \/ request'.version = announced'
  <2>1. CASE Restarted
    BY <2>1 DEF Invalidate, NewRequest
  <2>2. CASE ~Restarted
    BY <2>2, Zenon DEF Invalidate
  <2> QED
    BY <2>1, <2>2
<1>3. OutdatedPageWillKnow'
  BY <1>1, Zenon DEF OutdatedPageWillKnow
<1>4. ~(request'.version = announced' /\ request'.version < announced')
  BY DEF TypeOK
<1>5. RequestInv'
  BY <1>2, <1>4, Zenon DEF RequestInv
<1> QED
  BY <1>3, <1>5 DEF Known

LEMMA StillKnown ==
    ASSUME Known, Due => Due', UNCHANGED <<data, announced, invalidated, request, missed, overtaken>>
    PROVE  Known'
  BY Zenon DEF Known, RequestInv, OutdatedPageWillKnow, Outdated, Due

LEMMA KnownStep == IInv /\ [Next]_vars => Known'
<1> SUFFICES ASSUME IInv, [Next]_vars PROVE Known'
  OBVIOUS
<1> Known /\ TypeOK
  BY DEF IInv, Known
<1>1. CASE Mount \/ Focus
  <2>1. /\ UNCHANGED <<serverVars, session, wire, app, missed, data, invalidated, overtaken>>
        /\ request' = NewRequest \/ request' = request
    BY <1>1, Zenon DEF Mount, Focus
  <2>2. CASE request' = request
    BY <2>1, <2>2, StillKnown DEF serverVars, Due, Told
  <2>3. CASE request' = NewRequest
    <3>1. OutdatedPageWillKnow'
      BY <2>1, Zenon DEF Known, OutdatedPageWillKnow, Outdated, Told, serverVars
    <3>2. ~(request'.version < announced')
      BY <2>1, <2>3 DEF NewRequest, serverVars, TypeOK
    <3> QED
      BY <3>1, <3>2, Zenon DEF Known, RequestInv
  <2> QED
    BY <2>1, <2>2, <2>3
<1>2. CASE Answer
  <2>1. /\ UNCHANGED <<announced, session, wire, app, missed, data, invalidated, overtaken>>
        /\ request.state = "sent" /\ request'.version \in request.version .. repo
    BY <1>2 DEF Answer, serverVars
  <2>2. OutdatedPageWillKnow'
    BY <2>1, Zenon DEF Known, OutdatedPageWillKnow, Outdated, Told
  <2>3. request'.version < announced' => request.version < announced
    BY <2>1 DEF TypeOK
  <2>4. RequestInv'
    <3>1. request.state # "idle"
      BY <2>1
    <3> QED
      BY <2>1, <2>3, <3>1, Zenon DEF Known, RequestInv, Due, Told
  <2> QED
    BY <2>2, <2>4 DEF Known
<1>3. CASE LoadSucceeds
  <2>1. /\ UNCHANGED <<announced, session, wire, app, missed, overtaken>>
        /\ request.state = "answered" /\ data' = request.version /\ request' = NoRequest
    BY <1>3, Zenon DEF LoadSucceeds, serverVars
  <2>2. request.state # "idle" /\ request'.state = "idle"
    BY <2>1 DEF NoRequest
  <2>3. RequestInv'
    BY <2>2, Zenon DEF RequestInv
  <2>4. Outdated' => request.version < announced
    BY <2>1, Zenon DEF Outdated
  <2>5. OutdatedPageWillKnow'
    BY <2>1, <2>2, <2>4, Zenon DEF Known, RequestInv, OutdatedPageWillKnow, Due, Told
  <2> QED
    BY <2>3, <2>5 DEF Known
<1>4. CASE LoadFails
  <2>1. UNCHANGED <<announced, session, wire, app, missed, data, invalidated, overtaken>>
    BY <1>4, Zenon DEF LoadFails, serverVars
  <2>2. request'.state = "idle"
    BY <1>4 DEF LoadFails, NoRequest
  <2>3. OutdatedPageWillKnow'
    BY <2>1, Zenon DEF Known, OutdatedPageWillKnow, Outdated, Told
  <2> QED
    BY <2>2, <2>3, Zenon DEF Known, RequestInv
<1>5. CASE PollHubState
  <2>1. UNCHANGED <<announced, session, wire, missed>> /\ app' = hub
    BY <1>5, Zenon DEF PollHubState, serverVars
  <2>2. CASE hub # "Connected"
    BY <2>1, <2>2, DueKnown DEF Due
  <2>3. CASE hub = "Connected" /\ app # "Connected"
    BY <1>5, <2>1, <2>3, InvalidateKnown, Zenon DEF PollHubState
  <2>4. CASE hub = "Connected" /\ app = "Connected"
    <3>1. UNCHANGED queryVars
      BY <1>5, <2>4, Zenon DEF PollHubState
    <3> QED
      BY <2>1, <2>4, <3>1, StillKnown, Zenon DEF Due, Told, queryVars
  <2> QED
    BY <2>2, <2>3, <2>4
<1>6. CASE ConnectionOpens
  <2>1. app # "Connected"
    BY <1>6 DEF ConnectionOpens, reconnectStates, IInv, AppMirrorsHub
  <2>2. Invalidate /\ UNCHANGED announced
    BY <1>6, <2>1 DEF ConnectionOpens, HubBecomes, Tell, serverVars
  <2> QED
    BY <2>2, InvalidateKnown
<1>7. CASE ConnectionFails \/ ConnectionLost \/ ForceDisconnect \/ ForceReconnect \/ ServerRestarts
  <2>1. session' = "none"
    BY <1>7 DEF ConnectionFails, ConnectionLost, ForceDisconnect, ForceReconnect, ServerRestarts, Stop
  <2> QED
    BY <2>1, DueKnown DEF Due
<1>8. CASE RequestReconnect \/ StopCompletes
  <2>1. app' # "Connected"
    BY <1>8 DEF RequestReconnect, StopCompletes, HubBecomes, Tell
  <2> QED
    BY <2>1, DueKnown DEF Due
<1>9. CASE ReceiveGitFetched
  BY <1>9, InvalidateKnown, Zenon DEF ReceiveGitFetched, serverVars
<1>10. CASE ReceiveGitHash
  <2>1. CASE Head(wire).hash = pageBuild
    <3>1. /\ wire # <<>> /\ wire[1].type = "GitHash" /\ wire' = Tail(wire)
          /\ UNCHANGED <<session, app, missed, announced, queryVars>>
      BY <1>10, <2>1, TailMessages DEF ReceiveGitHash, serverVars, TypeOK
    <3>2. Told => Told'
      <4>0. DOMAIN wire = 1 .. Len(wire) /\ DOMAIN wire' = 1 .. Len(wire')
        BY <3>1, TailType DEF TypeOK
      <4> SUFFICES ASSUME NEW i \in 1 .. Len(wire), wire[i] = GitFetched
                   PROVE  \E j \in 1 .. Len(wire') : wire'[j] = GitFetched
        BY <4>0, Zenon DEF Told
      <4>1. i # 1
        BY <3>1 DEF GitFetched
      <4>2. i - 1 \in 1 .. Len(wire') /\ wire'[i - 1] = wire[i]
        BY <3>1, <4>1, TailMessages DEF TypeOK
      <4> QED
        BY <4>2
    <3> QED
      BY <3>1, <3>2, StillKnown, Zenon DEF Due, queryVars
  <2>2. CASE Head(wire).hash # pageBuild
    BY <1>10, <2>2, DueKnown, Zenon DEF ReceiveGitHash, Due
  <2> QED
    BY <2>1, <2>2
<1>11. CASE AcceptConnection
  <2>1. app' # "Connected"
    BY <1>11 DEF AcceptConnection, reconnectStates, IInv, AppMirrorsHub
  <2> QED
    BY <2>1, DueKnown DEF Due
<1>12. CASE SendGitHash
  <2>1. session = "accepted" /\ wire = <<>>
    BY <1>12 DEF SendGitHash, IInv, WireInv
  <2>2. ~Told /\ session # "none"
    BY <2>1 DEF Told
  <2>3. UNCHANGED <<app, missed, announced, queryVars>>
    BY <1>12, Zenon DEF SendGitHash, serverVars
  <2> QED
    BY <2>2, <2>3, StillKnown, Zenon DEF Due, queryVars
<1>13. CASE AddToGroup
  <2>1. session # "none" /\ UNCHANGED <<app, missed, announced, queryVars, wire>>
    BY <1>13 DEF AddToGroup, serverVars
  <2> QED
    BY <2>1, StillKnown, Zenon DEF Due, Told, queryVars
<1>14. CASE UpdateRepository \/ Unmount \/ UNCHANGED vars
  <2>1. UNCHANGED <<announced, session, wire, app, missed, queryVars>>
    BY <1>14, Zenon DEF UpdateRepository, Unmount, vars, serverVars
  <2> QED
    BY <2>1, StillKnown, Zenon DEF Due, Told, queryVars
<1>15. CASE AnnounceFetch
  <2>1. UNCHANGED <<session, hub, app>>
    BY <1>15, Zenon DEF AnnounceFetch, hubVars
  <2>2. CASE session = "none"
    BY <2>1, <2>2, DueKnown DEF Due
  <2>3. CASE session = "member"
    <3>1. wire' = Append(wire, GitFetched)
      BY <1>15, <2>3 DEF AnnounceFetch
    <3>2. Told'
      BY <3>1 DEF Told, TypeOK
    <3> QED
      BY <3>2, DueKnown DEF Due
  <2>4. CASE session \in {"accepted", "greeted"} /\ hub = "Connected"
    <3>1. missed'
      BY <1>15, <2>4, Zenon DEF AnnounceFetch
    <3> QED
      BY <3>1, Zenon DEF Known, RequestInv, OutdatedPageWillKnow
  <2>5. CASE session \in {"accepted", "greeted"} /\ hub # "Connected"
    <3>1. app' # "Connected"
      BY <2>1, <2>5 DEF IInv, SessionInv, AppMirrorsHub
    <3> QED
      BY <3>1, DueKnown DEF Due
  <2> QED
    BY <2>2, <2>3, <2>4, <2>5 DEF TypeOK, Session
<1> QED
  BY <1>1, <1>2, <1>3, <1>4, <1>5, <1>6, <1>7, <1>8, <1>9, <1>10, <1>11, <1>12, <1>13,
     <1>14, <1>15 DEF Next, Query, Connection, Server

-----------------------------------------------------------------------------
\* The inductive invariant: which sessions exist, what is on the wire of each,
\* and that outdated data, held or on its way, will be replaced.
THEOREM Invariance == Spec => []IInv
<1>1. IInv /\ [Next]_vars => IInv'
  BY TypeStep, MirrorStep, SessionStep, WireStep, KnownStep DEF IInv, Known
<1> QED
  BY <1>1, InitInv, PTL DEF Spec

\* Every variable keeps its type.
THEOREM TypeCorrect == Spec => []TypeOK
<1>1. IInv => TypeOK
  BY DEF IInv
<1> QED
  BY <1>1, Invariance, PTL

\* connectionState$ is the state of the hub, unless the hub is being stopped.
THEOREM PageMirrorsHub == Spec => []AppMirrorsHub
<1>1. IInv => AppMirrorsHub
  BY DEF IInv
<1> QED
  BY <1>1, Invariance, PTL

\* A page that takes part and has been greeted is of the build of the server.
THEOREM PageOfAnotherBuildReloads == Spec => []OutdatedPageReloads
<1>1. IInv => OutdatedPageReloads
  BY DEF IInv, TypeOK, WireInv, OutdatedPageReloads
<1> QED
  BY <1>1, Invariance, PTL

\* Outdated data is marked, or a message or a new connection will mark it.
THEOREM OutdatedDataIsReplaced == Spec => []OutdatedPageWillKnow
<1>1. IInv => OutdatedPageWillKnow
  BY DEF IInv
<1> QED
  BY <1>1, Invariance, PTL

=============================================================================
