# Scaled Git App: a TLA+ verification project

The Scaled Git App shows the state of a git repository whose branches have a
configured upstream structure. An ASP.NET server keeps one clone of the
repository, answers questions about it by running git commands, caches the
answers, and tells the browsers over SignalR when the clone was refreshed. A
React client keeps its own query cache and shows branches, conflicts and
recommendations. Paths below are relative to the repository.

The product's promise is freshness: nobody polls, data in a page never goes
stale by itself (`staleTime: Infinity`), so what a page shows is right only if
every cache on the way is cleared, in the right order, when the clone moves.
The project therefore starts with that chain, goes on with the algorithms that
give the answers, and then follows them into the page: the query cache, what is
rendered of it, and the state that dialogs, forms, panels and the moving graph
keep while the data under them is replaced.

    git fetch -> CommandCache.ClearAll -> GitFetched (hub, group) -> invalidateQueries -> request -> CommandCache -> git
       \_____________ CommandCache ______________/ \________________ RealtimeClient ______________/
    request detect-conflicts -> GitUpstreamData -> GetAllUpstream/GetCommonUpstream -> ConflictLocator
                                   Upstreams          UpstreamClosure                  DetectConflicts
    start of the server -> clone -> configuration -> requests that wait       invalidateQueries -> queries -> page -> panels
           \__ CloneService __/    \_ Server (UpstreamClosure, DetectConflicts) _/            QueryCache    BranchPage (BranchRules)
    conflicts page -> graph of the branches                                   header -> dialog -> promise -> navigation
    ConflictPage   Site   GraphAnimation (BranchGraph)                        SearchDialog (ModalService) => AwaitedDialogs

## Inventory

| Component | State it keeps | Operations | What is hard | What makes it correct |
|---|---|---|---|---|
| Command cache and fetch (`Server/Commands`, `GitFetchController`) | memory cache, cancellation source, change token | look up, create entry, commit, nested commands, `ClearAll` | everything interleaves at awaits and field accesses; no lock | no result from before an announced fetch is served; every entry can be cleared; the cache works between clears |
| Realtime hub and client (`FullHub`, `GitFetchedMessage`, `ui/src/utils/realtime`) | sessions and a group; connection, `connectionState$`, timers, the query cache | handshake, greeting, group, announce, lose, stop, restart, invalidate, reload | lost messages, restarts with another build, callbacks in any order, loads in flight | a page knows its connection; outdated data is replaced; an outdated build reloads |
| Upstream structure (`UpstreamUtilities`, `GitUpstreamData`) | none between requests | all upstream branches, common upstream branches | data may be cyclic | exactly what lies above, and the search ends |
| Conflict detection (`ConflictLocator`, `GitDetectConflictsController`) | dictionary of results, filled during recursion | validate, check up to date, locate | shared subproblems, entries under way, empty and degenerate lists | no conflict is lost; conflicts are reported where they come from |
| Clone service (`GitCloneService`, `GitClone`, `GitToolsCommandInvoker`) | task of the configuration; the directory on disk | detect, clone, list remotes, settle the task, answer those who wait | a process that stops between the steps of a clone, failure kept for good | waiting requests are settled; a clone the server made is whole before it is served |
| Branch details (`GitBranchUpstreamDetails`, `GetCommitCount`) | per-request memo of names and existence | expand up and down, limit, count, compare | a branch deleted between commands | the branches returned are those within reach, each once |
| Merge tree analysis (`GetConflictingFiles`) | none | merge with integration branches, parse | partial merges; short names of branches | its outcome is data of the conflict search |
| Clone configuration and fetch mapping, branch types | loaded once, or none | names to tracking branches, to types and colours | patterns, exclusions | a name maps to at most one |
| Other git requests, PowerShell utilities, authentication, localisation, hosting | none of their own | | | |
| Modal service (`modal-service.tsx`, `modal.tsx`) | stack of modals, a promise for each, what is on screen | launch, settle, abort, Escape, animate, remove | settled before it is shown, clicked while it animates away, removed from the middle | each promise is settled once, each entry leaves, Escape goes to the one below |
| Search of the header (`SearchDialog.tsx`, `header.container.tsx`) | the location the dialog was opened with | open, answer, navigate | an await during which the page moves on | an answer is followed once |
| Branch graph simulation (`components/branch-graph`, `utils/dragging`) | nodes, links, memo of the hierarchy, drag handlers, animation frame | update, tick, frame, press, move, release | data replaced while animating and dragging | links join the objects on display; one chain of frames |
| Conflicts page (`pages/branch-conflicts`) | URL, two forms | select, link, redirect, wait | late data, a conflict that goes | URL, forms and display agree when quiet |
| Router (`components/router`, `app.tsx`) | the location | bind parameters, error boundary | names that are new arrays | |
| Branch page (`pages/branch-details`) | URL, tab, form of a panel | select, click, render, suspend, throw | queries discovered from others, panels with state of an older selection | the page renders what is selected and completes |
| Recommendations, branch actions | what was worked out | analyse from the cache, await, offer | a cache in the middle of loads | they are those of the current data |
| Query cache of the page (`utils/api/queries`, `main.tsx`) | data, loads, invalidations, failures | fetch, invalidate, observe | loads overtaken by fetches | |
| Overview, login, about, forms, templating, build | | | | |

`PROJECT.json` lists each of them with its sources and its status, and under
`hazards` what is hard to test in this code, each at its line.

## What is modelled

### CommandCache, MCCommandCache

One action per step of `CommandCache.cs` between two awaits or shared field
accesses. `Lookup` is `GetCommandResultOrInvoke` up to the hit or miss (types
without value equality, or disabled in the options, are not `Cacheable`);
`CreateEntry` is the factory, which takes the token of the moment; `Return`
commits and hands the result to the caller; `Throw` leaves no entry. Commands
run others (`Uses`), and a nested command is looked up like any other.
`ClearAll` is five actions, from `ReadSource` to `DisposeOld`: the tuple assignment of
line 31 is two writes. `git fetch` moves the refs one version at a time and may
fail after some. The value of a result is the set of repository versions it was
computed from, which is what freshness needs to tell apart. `MemoryCache` and
its entries are external: an entry with a fired token is missing, and one that
is committed with a fired token is dropped. `overlapped` is a history variable:
two calls of `ClearAll` have overlapped.

The instance has three commands: `GitUpstreamData` (asks git), `GitBranchUpstreamDetails`
(runs it), `GitGetObject` (not cached); two invocations, two fetch requests and
two clears: enough for a command that runs another while two clears overlap (the
run of two fetches has one invocation and three clears: two that overlap, and one
that should sweep up after them). One
repository version after the first is enough to be outdated; with MaxVersion = 1
a result can also mix old and new.

| Run | Shows |
|---|---|
| `command_cache` | type; a leaf result is never older than its token; after a `GitFetched` no older leaf result is served, no request that starts later is answered with one, every entry hangs on a source that will be cancelled, and the current token is a live one |
| `command_cache_two_fetches` (violation) | two overlapping fetches leave a token whose source no field holds: an entry that took it outlives a third fetch, which overlaps nothing, and its announcement |
| `command_cache_nested` (violation) | one fetch is enough for a command that runs another: it takes the new token, and the old result of the command it runs |

A fetch that fails, or a `ClearAll` that throws on a disposed source, is a step
of the model. The properties with `~overlapped` are the promise under serial
fetches; the two refuted runs show that each of the two limits is needed.

### RealtimeClient, MCRealtimeClient

One page, its SignalR connection, the hub, and one query of the page. The
connection follows `implementation.ts` callback by callback (`ConnectionOpens`,
`ConnectionFails`, `ConnectionLost`, `StopCompletes`, the two messages, the
three requests of the page's window); `Tell` and `PollHubState` are
`handleServiceMessage` with its 500 ms timer; `Invalidate`, `Mount`, `Focus` and
`LoadSucceeds` are what `@tanstack/react-query` does with the options of
`main.tsx`. The server greets with its build and only then adds the connection
to the group (`SendGitHash`, `AddToGroup`); messages on the wire are lost with the
connection; the server may restart with another build. The server's answers
obey what `CommandCache` establishes: no older than what was announced when the
request was sent. A page of another build is reloaded, which resets the page.

Bounds: two new versions (a load of the first while the second is announced),
one restart, two messages on the wire (greeting and announcement), timers
counted to two (one fires while another is pending). `missed` and `overtaken` are
history variables that mark the two windows of the findings.

| Run | Shows |
|---|---|
| `realtime_client` | type; `connectionState$` equals the connection's state except while it is being stopped; a greeted member of the group runs the server's build; outdated data is marked, or a message or a reconnection is due that will mark it; and it is in fact replaced |
| `realtime_group` (violation) | a fetch announced between the handshake and `AddToGroupAsync` is not sent to a page that is connected |
| `realtime_first_load` (violation) | a first load, answered before a fetch and received after it, is marked fresh |

`CatchesUp` is the liveness property. Fairness: the server answers requests and
runs `OnConnectedAsync` to its end, messages on a live connection arrive, an
answer arrives, and a connection whose session is gone is noticed (SignalR's
keep-alive). None is assumed of fetches, of the user, of reconnections or of
restarts. The property is conditional: the page stays connected, with the query
mounted, and fetches cease, since each one cancels the load in flight.

### Upstreams, UpstreamClosure, CloneService, Server, MCServer

`Upstreams` has the configuration and, as definitions, what lies above one branch
(the least closed set) and above several. `UpstreamClosure` is the loop of
`GetAllUpstream`, statement by statement, with the stack and the enumerated
upstream branches as sets: the order plays no part.

`CloneService` is `GitCloneService` and `GitClone`, a step per git command that
changes the directory; commands that only read are part of `Configure`. Each
command may fail, `git remote` too when there is a repository (its error is taken
for the lack of one, and the clone that follows fails). The process may stop at
any point, in the middle of `git clone` with a part of it on the disk, and the next one
finds what is there. `found` is a history variable, the directory at the start
of the process. A directory is one of a few kinds; which remote or branch the
settings name is left out, except whether they name a remote.

`Server` composes the server's side: a request for what is upstream, which waits in
`RunGenericCommand` for the task of the configuration, gets its exception, or goes on
to the search of `UpstreamClosure`; and the requests for conflicts of `DetectConflicts`
(`GetConflictDetails`). They share nothing but the clone, so that a server of the model
has those of one kind (`query`). What a stopped process knew is gone (`StopServer`).

| Run | Shows |
|---|---|
| `server` | type; the search returns what lies above the branch; a configuration is of a whole clone when this process made it, and else of the directory as it was found; a waiting request is answered, with the failure if there is one. Of the requests for conflicts: no answer comes before the end; a 200 answer loses no conflict between two of the branches that nobody has taken care of (it reports one between what lies above them), and, without cycles, reports no pair whose upstream branches are in such a conflict |

The property of the clone accepts a directory as it was found: that an earlier
process left a clone unfinished, the code cannot tell, and it serves it.

The instance: a server that has been up for long searches every configuration of
three branches, all 512 with their cycles, from every branch; a server that
starts does so on each kind of directory, with and without a repository and a named
remote, up to three times (a clone cut short, its remains served, and once more), with one
cyclic structure. Fairness: git's commands end, with success or failure, and the
server's threads run; none of requests, starts or stops.

### DetectConflicts, MCDetectConflicts

`POST /api/git/detect-conflicts`, from `Ask` through `Validate` and
`CheckUpToDate` to the search of `ConflictLocator`, which is a step machine: the
calls of `FindConflictsBetween` under way are a stack (`calls`), each with the pairs
it has still to look at and what it has found, over the dictionary `results`.
`FindConflictsBetween` takes one pair of the call on top: it reads the dictionary,
or enters an empty result and either is done (no conflict) or calls itself for the
pairs above; `EndPair` is the return from that call, `EndSearch` the answer. Pairs
are taken in any order, where the code follows its lists: what holds here holds
for every order git may list upstream branches in. An exception stops the search and
answers 500. Which branches conflict and which are behind is data.

A branch asked about that is made from just two others is taken as the resolution
of their conflict (`Resolution`). A pair in conflict below such a resolution is
tried again (`RetryWithIntegrations`): `GetConflictingFiles` merges the integration
branches found above into its left branch, those of them that git can, and the
result, with the branches `used`, becomes that of the pair. Which pairs merge
then is data (`merging`). The retry names integration branches by their short
names: git knows none of them in a clone the server has made, where the retry ends
in an exception, and knows those checked out in a developer's clone that the server
is pointed at (docs/env.md, "Working locally"): `local`. So a conflict may be absent
from the answer because somebody has taken care of it, by a resolution or by
integration branches with which it merges. That is `Integrated`, and both
properties are about the conflicts that are not.

The instance (in the run `server`): five branches, 336 acyclic configurations with a
chain of up to four branches and a cyclic one, up to two conflicting pairs among branches not above
one another and a third where a branch is made from just the two of it, five requests
(one branch, a repeated one, two, three). Where there is a resolution the clone is either
the server's or a developer's, and any of the other conflicts may merge with the
integration branches. Three conflicts are what a chain of two steps up needs beside
an unrelated one. With a cycle a pair
can be its own ancestor, so its search meets its own empty entry; then a reported
conflict may have conflicts above it, and `ConflictsAreMinimal` says nothing
(`Acyclic`), while `ConflictsAreExplained` still holds. The refuted run is on `Trees`,
where no branch is made from two others and the empty aggregate is the only exception.

| Run | Shows |
|---|---|
| `server` | above |
| `detect_conflicts_status` (violation) | a request for distinct branches is answered with 500, which the API does not list: two branches that conflict have no upstream branches, and the common upstream of none is asked for |

### ModalService, SearchDialog, AwaitedDialogs

`ModalService` is `useLaunchModal` and the components that show the stack.
`Launch` is the call with its promise, its abort signal and its entry; `Settle` the
one place where a promise is settled, whoever calls it (`Answer` for the contents,
`ClickBackdrop`, `PressEscape`, `Abort`); `Finally` sets `shouldShow` to false after
it. `RenderModals`, `RenderModal` and `FireTimer` follow
`FullPageModalContainer` with its `setTimeout(..., 0)`, whose queue is
`timers`; `ReadyToUnmount` is the end of the animation. Contents can be clicked
until they are gone, as in the code. `BindEscape` is an effect, which runs some
time after its render. The overrides `onBackdropCancel` and `onEscapePressed`
have no callers and are left out.

`SearchDialog` adds the header: each dialog keeps the location of the moment it
was opened (`opened`), a link in it resolves with a destination (`Choose`), and
`Navigate` is what follows the await. `AwaitedDialogs` is what the header
relies on, a dialog that is answered or refused once and an answer followed once;
`AnswersAreFollowedOnce` says that `SearchDialog` implements it, under the
refinement mapping of `Await`, with the fairness of the abstract specification.

| Run | Shows |
|---|---|
| `search_dialog` | type; whoever awaits has one entry on the stack; settled modals leave, save one aborted before its first render; Escape comes down to the modal below; the refinement; a branch added to a selection keeps the others, unless the page moved while the dialog was open |
| `search_dialog_abort` (violation) | the one that is aborted before its first render is never removed |

`SelectionIsKept` does not hold of a page that moved on while its dialog was open (the
dialog keeps the location it was opened with), and leaves it out (`moved`).

The instance: one search dialog and one modal with a signal, two branches. Two
modals are the least that can be removed out of order and pass Escape on; one is
enough to be aborted.
Fairness: React renders and runs effects, timers fire, animations end, promises
go on; none of the user.

### QueryCache, BranchRules, BranchPage, MCBranchPage

`QueryCache` is react-query as this page uses it: data, loads in flight,
invalidation, failure after the retries, and for each query what the server would answer
in the current world. A load in flight may have been answered before a fetch and
arrive after it, and counts as fresh (finding 4). `BranchRules` has the three
rules of the recommendations and the expansion of the branches on display as
operators of the cached data; where the code stops at a limit, at a branch that the
order of lists decides, the operator gives the set of results.

`BranchPage` renders: `Suspended` and `Outdated` say when, `RenderPage` and
`RenderThrows` what comes of it, with the error boundary, the key that remounts the
panels, the form of the details panel, the analyses that go on after awaits
(`Analyze`, `FinishReintegration`, `Rejected`), and the offered action. The user
clicks nodes, takes names off the URL, changes tabs and chooses in forms.

| Run | Shows |
|---|---|
| `branch_page` | type; rendering fails only without names or with a branch that cannot be loaded; a refresh keeps what the user chose; the graph completes, up to the limit; recommendations catch up with the server, but for the cases below, and so do offered conflicts |

The instance: three branches and a limit of one, which leaves a branch out of the
page of a branch with two below or above it (`ExpandBranches` ends when it has more than the limit; the code has
50 for both); three worlds (an integration branch of one and then of
two branches, with a conflict that the page may offer, then the same without it), two
entries, any three of fetches, failures and acts of the user. Three are what it
takes to select, fetch and
select again, or to open a tab and fetch twice. The one fairness condition is on all steps that
are not events together (`Settle`): each event is followed by finitely many of
them, so it assumes no order. The liveness properties leave out a query that
failed or was overtaken (`Lost`), which nothing loads again. `RecommendationsCatchUp`
leaves out three cases more, for which it does not hold, and which the instance reaches:

- a rule that awaits a load which fails, or which a fetch cancels and begins again, is
  rejected (`Rejected`; `pull-upstream.ts:104` awaits details that the page observes). If
  the data that comes then is what was there, nothing is rendered, and the
  recommendation is missing for good (`CutOff`);
- upstream data in the cache that is out of date: no page observes it, so it is loaded
  again only when another render asks for it (`UpstreamDataLost`);
- branches further up than the page shows: the rule counts those that are cached.

It takes either answer where an integration branch may have resolved the conflict, since
the details of the integration branch's other upstream branches need not be observed.
`PageSurvives` allows a page without names to fail, which it does.

### BranchGraph, GraphAnimation, ConflictPage, Site, MCSite

`BranchGraph` is `updateNodes` with its lookups and limits, and the pass of
`forceHierarchy` with its memo. Nodes are objects, with the update that created
them; a link keeps the objects of its creation. `GraphAnimation` adds what moves
them: the animation frame of `useAnimationFrame` with its cancel token, the timer of
the simulation itself, the restart of both at a render and a drag, and drags whose
listeners are on the document and outlive the render and the page. Heat is the
number of ticks left. Strengths of forces, boundaries and coordinates
are floating point and left out.

`ConflictPage` is `pages/branch-conflicts`. The location (`location`), the last
render (`page`) and the forms of the two selectors (`form`) are separate:
navigation is a transition, so the page before stays, and can be used, until the
data of the new one is there (`LoadAnalysis`, `LoadObject`, `RenderConflicts`). When its
own analysis is loaded again it is rendered anew all the same (`RerenderConflicts`), and
a redirect that it then mounts overrules what is pending. The root compares only how
many branches there are (`StandsForMore`), and its redirect, which is memoised, does
nothing when it is rendered again and leads to the same place (`Remounts`). The
names are a new array at each navigation, so the routes and their components
are new, and the selectors are mounted anew with the values of the URL
(`MountedForm`); the timeout that would set an atom back (`ConflictSelector.tsx:86`)
never starts. `Redirect` is the effect of a `Navigate` element, `Sync` that of
`useLocationAtom`. Links from elsewhere and the history are `GoTo`. The summary, which
no page leads to, is left out; a load that fails, and other data in the cache
after a load, likewise.

`Site` is the way from one to the other: the link of the conflicts page mounts the
graph, which is the last page of the journey, or the first.

| Run | Shows |
|---|---|
| `site` | graph: type, links join the displayed objects of the branches that the data links, the limits on unknown branches, a hierarchy of current data, one frame at a time, which draws what moves, dropped nodes are free, the animation ends. Conflicts: at rest, forms and URL and display agree and are the choice made last; redirects end |

The instance: six values of the data, with branches that go and come back, one
that the page passes twice, more unknown branches than either limit allows and two
links with one id; three updates, five acts, two ticks of heat. An integration
branch that stands for two others, up to two conflicts with a file in common, three
choices, one reload. Three choices are what it takes to choose while another
choice is loading and choose back. What does not hold in the code is left out of the
properties, and named there: a choice of the value still on display while another is loading is
not heard, and a choice that is pending when a redirect of the page before it is
mounted is overruled (both `unheard`); the page of a conflict that has gone redirects to
itself without end, whether a reload has taken it away or the user's URL never had one
(`Lost`); data with two links of one id (`clash`). A page that
stays blank, when the history leads back to the root while its redirect is mounted,
is at rest, and shows no conflict. Fairness: the server answers, React renders what is ready and runs its
effects, the browser runs frames and timers; none of the user or of fetches.

## What is proved

For every value of the constants, under the assumptions named in the modules. They say
what the constants are (`CommandsAssumption`, `BranchesAssumption`, `DataAssumption`,
`LinksAssumption`, `WorldsAssumption`, `EntriesAssumption`, `ModalsAssumption`,
`RepositoriesAssumption`, which also makes the set of branches finite) and that bounds are
numbers (`BoundsAssumption`, `StartsAssumption`, `LimitsAssumption`,
`HeatAssumption`, `EventsAssumption`, `UpstreamLimitAssumption`). Every safety invariant and
action property of a passing run is stated by a theorem.

- `CommandCacheProofs`: `TypeCorrect`, `Invariance`, `LeafEntriesFollowTheirToken`,
  `AnnouncedFetchesAreVisible`, `ResponsesAreFresh`, `EveryEntryIsClearable`,
  `CacheStaysUsable`. Freshness is not inductive: it depends on tokens that running
  commands and a clear in progress hold. `IInv` adds: callers of running commands
  (`TaskInv`); every token in use has been created, at a version no newer than the
  repository, and only cancelled sources are disposed of (`TokenInv`); what a leaf
  command has read is no older than its token (`LeafInv`); what the steps of a clear
  have done when only one is under way (`ClearInv`); every token that an entry hangs
  on, or may come to hang on, and that has not fired is the source's or the one about to be
  cancelled (`ReachInv`); such a token is no older than any fetch that is
  announced or about to be (`FloorInv`); and answers under way are new enough
  (`ResponseInv`). Freshness follows from `LeafInv`, `ReachInv` and `FloorInv`.
- `RealtimeClientProofs`: `Invariance`, `TypeCorrect`, `PageMirrorsHub`,
  `PageOfAnotherBuildReloads`, `OutdatedDataIsReplaced`. `IInv` adds that a session
  exists only while the page is connecting or connected (`SessionInv`); that what is
  on the wire was sent in this session, and a greeting names the server's build
  (`WireInv`); and that a load in flight that may bring outdated data is followed by
  another, because a message or a reconnection is due (`RequestInv`).
- `ServerProofs`, first of the search alone (`SearchInvariance`, `SearchTypeCorrect`,
  `ClosureCorrect`, `CommonOfOne`): what was found is above the branch, and what is
  upstream of a branch found is found, unless the branch is on the stack or being
  visited. When the loop ends the set found is closed, and therefore all of
  what lies above. Then of the server: `ServerInvariance`, `ServerTypeCorrect`,
  `CloneCorrect`, `SearchCorrect`, `AnswersAreRight`. That a clone is whole when it
  is served is not inductive: `StageInv` says what the directory is at each step
  of a clone begun in an empty one, `CloneInv` that nobody but this process
  touches it and that the task is settled only at the end, and `RequestInv` that
  a request past the commands is one of a server with a configuration.
  `ServerDetectsConflicts`: the requests for conflicts in the server are behaviours of
  `DetectConflicts`, so the theorems below hold in it.
- `DetectConflictsProofs`: `SearchInvariance`, `SearchTypeCorrect`,
  `ConflictsExplained`, `ConflictsMinimal`. Both properties are about the answer and say
  nothing while the search runs. `SearchInv` does (TLC has checked it on the instance):
  the calls on the stack are for conflicting pairs,
  each above the one below it and each once (`CallsInv`); what a result holds comes
  from its pair or from above it, the integration branches included (`Belongs`), it is
  empty while the pair is searched and has a conflict afterwards if the pair is in one
  that nobody has taken care of (`ResultsInv`); and what a call has
  looked at is in what it has found, but for pairs still being searched
  (`GatheredInv`). A pair that ends with no conflict found above it has, if nothing is
  above itself, none directly above that nobody has taken care of: a pair above that is still being searched would be
  above itself (`NoCircle`, `NothingAbove`). The answer is of the first call, when no other
  is under way, so all it looked at has results.
- `SearchDialogProofs`: `ModalInvariance`, `DialogInvariance`, `PendingStaysOnStack`,
  `SelectionKept`, `HeaderFollowsOnce`. `StackInv`: an entry is on the stack once, and
  whoever waits has one. `LeaveInv`: only a settled modal is told to leave, by a
  timer or an animation, so what is removed is settled. `ChoiceInv`: a dialog is
  resolved with a destination of its own, and until it is followed the page is
  where it was opened, or has moved. `HeaderFollowsOnce` is the refinement: under
  the mapping of `Await`, every step of the modal service, the header and its
  dialog is a step of `AwaitedDialogs` or a stutter; the safety half of
  `AnswersAreFollowedOnce`.
- `SiteProofs`: `SiteInvariance`, `GraphInvariance`, `LinksAreCurrent`, `LimitsHold`,
  `FramesAreRight`, `DropsFree`, `ChoiceIsShown`. For the graph: objects are told apart
  by the names of their branches and links by their ids, as long as no two pairs
  of branches share one (`LinksInv`); the nodes are those of the data of the last
  render (`NodesInv`), to which each pass of the lookup adds no more than the limits
  allow; the token names the one requested frame, and a pinned node is held by
  a handler that moved (`MotionInv`). For the conflicts page (`PageInv`): a
  location that is not pending is on display with its forms; a redirect leaves the page
  it was rendered for; and the URL is where the choice made last leads, at
  once or by redirects (`Leads`), unless it was dropped or overruled.
- `BranchPageProofs`: `PageInvariance`, `PageIsCorrect`, `RefreshKeepsForm`. What the
  cache has or is about to have is an answer the server gave (`CacheInv`); each
  selected branch is shown, and what is shown was in the cache and is
  there still, in some version (`ShownInv`); the form of the details panel has one
  of the selected branches, and a page in error has no panel (`PanelInv`).
- `SubsequenceProofs`: lemmas for the others, above all what `Array.filter`
  (`Subsequences`) returns for a sequence of any length. Induction is done with sets of numbers: one that is not empty
  has a least element, so a set with 0 and the successor of each member is all of them
  (`SetInduction`). The lookup of nodes in `SiteProofs` is treated the same way.

Only model-checked: liveness, which is out of the prover's reach under fairness
(`CatchesUp`, `RequestsAreAnswered`, `SettledModalsLeave`, `EscapeComesDown`,
`GraphCompletes`, `RecommendationsCatchUp`, `OfferedConflictsAreCurrent`,
`AnimationEnds`, `PageComesToRest`, and the fairness of `AwaitedDialogs` in
`AnswersAreFollowedOnce`). That the search for conflicts ends is stated nowhere: each
step takes a pair from a call, and each call enters a pair in the dictionary
that was not there.

## Findings

1. Overlapping fetch requests break `ClearAll` (`Server/Commands/CommandCache.cs:30`):
   both take the same source for the old one, and the source that one of them made is
   lost, so what hangs on its token is never cleared. In TLC's trace the second of them
   also cancels the source that the first has disposed, and ends in an exception.
2. A clear lets new entries be computed from old ones (`CommandCache.cs:31-32`).
3. A connected page can miss a fetch (`Server/Realtime/FullHub.cs:21`).
4. A first load that a fetch overtakes is taken for fresh (`ui/src/utils/realtime/realtime-api.ts:49`).
5. Conflict detection ends in an exception for conflicting branches without upstream
   branches (`Server/BranchingStrategy/UpstreamUtilities.cs:34`).
6. A modal that is aborted before its first render is never removed, where the comment
   says at once (`ui/src/utils/modal/modal-service.tsx:163`). No caller passes a signal yet.

## What is not modelled, and the plan

What comes next, in this order:

1. A fetch in the middle of `DetectConflicts`: the configuration is read at the
   beginning and again by the locator, and the branches are checked one by one in
   between. The proofs rest on `SameRepository`, so each of them shows where it matters.
2. Branch details on the server: the expansion up and down with its limits.
3. A refinement from `CommandCache` to what `RealtimeClient` assumes of the server's
   answers, which is now stated in words (`ResponsesAreFresh` is its main part).
4. Merge tree analysis with integration branches.

Not modelled:

- Branch details on the server: the expansion with its limit, and a branch that
  a fetch deletes between two commands of one request. That such an answer is not kept as
  fresh is in `CommandCache`; what it says to the page is data in `QueryCache`.
- Merge tree analysis: a fold over integration branches and the parsing of git's
  output; `DetectConflicts` has its result as data. A fetch in the
  middle of `DetectConflicts` is left out as well.
- Fetch mapping, branch types: pure functions of names, with unit tests.
- Other git requests: commands run through the cache, and their shaping.
- `new-branch-from-here`, the overview, login, about, tooltips, forms and
  templating: rendering of their properties.

Left out for good: rendering, layout and forces of the graph (floating point),
the frameworks (ASP.NET, SignalR, React, react-query, MemoryCache) beyond what
the code relies on, authentication and localisation (configuration of the
framework), git itself, build and deployment.
