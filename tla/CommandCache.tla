---------------------------- MODULE CommandCache ----------------------------
(***************************************************************************)
(* The server's command cache and the fetch that invalidates it.           *)
(*                                                                         *)
(* Every git question a request asks is a command.  A command whose type   *)
(* has value equality is a key of one process-wide memory cache: an entry  *)
(* holds the result and the expiration token that was current when the     *)
(* computation began.  POST /api/git/fetch runs `git fetch`, replaces the  *)
(* cancellation source and the token with two plain field writes, cancels  *)
(* and disposes the old source, and announces the fetch to the clients.    *)
(* Nothing here is locked: requests, nested commands and fetches           *)
(* interleave at every await and at every field access.                    *)
(*                                                                         *)
(* The repository is a version number that `git fetch` advances, one       *)
(* update of the refs at a time.  A result is the set of versions it was   *)
(* computed from, so a result that is one version old, or mixed, shows.    *)
(***************************************************************************)
EXTENDS Naturals, FiniteSets

CONSTANTS
    Tasks,      \* command invocations that may be in flight at once
    Fetchers,   \* requests to POST /api/git/fetch that may be in flight at once
    Commands,   \* the commands, as cache keys
    Uses,       \* Uses[c]: the commands c runs while it runs
    Cacheable,  \* the commands that are equatable and enabled in the options
    None,       \* no task, no command
    MaxVersion, \* bound: versions of the repository
    MaxFetches  \* bound: fetches that reach the cache, in a whole behaviour

ASSUME CommandsAssumption ==
    /\ Uses \in [Commands -> SUBSET Commands]
    /\ Cacheable \subseteq Commands
    /\ None \notin Tasks
    /\ None \notin Commands

VARIABLES
    repo,        \* the version of the refs of the clone
    source,      \* CommandCache.cancellationSource
    changeToken, \* CommandCache.changeToken
    tokens,      \* how many tokens have been created
    cancelled,   \* the tokens whose source is cancelled
    disposed,    \* the tokens whose source is disposed
    cache,       \* the memory cache: command -> entry
    task,        \* the state of each invocation
    fetch,       \* the state of each fetch request
    announced,   \* the newest version a GitFetched message has announced
    overlapped   \* history: two calls of ClearAll have overlapped

serverVars == <<repo, source, changeToken, tokens, cancelled, disposed>>
vars == <<serverVars, cache, task, fetch, announced, overlapped>>

-----------------------------------------------------------------------------
(* A token remembers the version of the repository it was created at.      *)

Version == Nat
Token   == [id : Nat, born : Version]
NoToken == [id |-> 0, born |-> 0]
Entry   == [inputs : SUBSET Version, token : Token]
NoEntry == [inputs |-> {}, token |-> NoToken]

TaskState  == {"idle", "missed", "running", "done"}
FetchState == {"idle", "fetching", "fetched", "replaceSource", "replaceToken",
               "cancel", "dispose", "announce"}
Task  == [state : TaskState, command : Commands \cup {None}, caller : Tasks \cup {None},
          token : Token, inputs : SUBSET Version, since : Version]
Fetch == [state : FetchState, old : Token, new : Token, target : Version]

Leaf == {c \in Commands : Uses[c] = {}}

\* A fetch is inside CommandCache.ClearAll.
Clearing(f) == fetch[f].state \in {"replaceSource", "replaceToken", "cancel", "dispose"}

LiveIgnoringToken(c) == cache[c].inputs # {}

\* MemoryCache treats an entry whose token has fired as missing.
Live(c) == cache[c].inputs # {} /\ cache[c].token \notin cancelled

TypeOK ==
    /\ repo \in Version /\ announced \in Version /\ tokens \in Nat
    /\ source \in Token /\ changeToken \in Token
    /\ cancelled \subseteq Token /\ disposed \subseteq Token
    /\ cache \in [Commands -> Entry]
    /\ task \in [Tasks -> Task]
    /\ fetch \in [Fetchers -> Fetch]
    /\ overlapped \in BOOLEAN

-----------------------------------------------------------------------------
IdleTask == [state |-> "idle", command |-> None, caller |-> None,
             token |-> NoToken, inputs |-> {}, since |-> 0]
IdleFetch == [state |-> "idle", old |-> NoToken, new |-> NoToken, target |-> 0]
FirstToken == [id |-> 1, born |-> 0]

Init ==
    /\ repo = 0
    /\ source = FirstToken
    /\ changeToken = FirstToken
    /\ tokens = 1
    /\ cancelled = {}
    /\ disposed = {}
    /\ cache = [c \in Commands |-> NoEntry]
    /\ task = [t \in Tasks |-> IdleTask]
    /\ fetch = [f \in Fetchers |-> IdleFetch]
    /\ announced = 0
    /\ overlapped = FALSE

-----------------------------------------------------------------------------
(* Running a command: CachingCommandInvoker.RunCommand.  Its caller is a   *)
(* controller (None) or the command that awaits it.                        *)

Free(t) == task[t].state \in {"idle", "done"}

\* No command that t runs is still under way: nothing runs two at a time.
Awaited(t) == \A u \in Tasks : task[u].caller = t => Free(u)

\* The task of a command that begins now.
Begin(c, caller, state) ==
    [state |-> state, command |-> c, caller |-> caller, token |-> NoToken,
     inputs |-> {}, since |-> IF caller = None THEN announced ELSE 0]

\* The task ends with a result: a controller's stays to be read as the
\* response, a command's goes to the command that awaits it.
Deliver(t, final, inputs) ==
    IF final.caller = None
    THEN [task EXCEPT ![t] = [final EXCEPT !.state = "done", !.inputs = inputs,
                                           !.token = NoToken]]
    ELSE [task EXCEPT ![t] = IdleTask,
                      ![final.caller] = [task[final.caller] EXCEPT !.inputs = @ \cup inputs]]

\* GetCommandResultOrInvoke, up to the lookup: a command that is not cacheable
\* is run, a hit is the result, a miss goes on to create an entry.
Lookup(t, c, caller) ==
    /\ \/ /\ c \notin Cacheable
          /\ task' = [task EXCEPT ![t] = Begin(c, caller, "running")]
       \/ /\ c \in Cacheable
          /\ Live(c)
          /\ task' = Deliver(t, Begin(c, caller, "running"), cache[c].inputs)
       \/ /\ c \in Cacheable
          /\ ~Live(c)
          /\ task' = [task EXCEPT ![t] = Begin(c, caller, "missed")]
    /\ UNCHANGED <<serverVars, cache, fetch, announced, overlapped>>

\* A controller runs a command.
Request(t, c) ==
    /\ Free(t)
    /\ Lookup(t, c, None)

\* A running command runs another one.
NestedCommand(t, p, c) ==
    /\ task[t].state = "idle"
    /\ task[p].state = "running"
    /\ Awaited(p)
    /\ c \in Uses[task[p].command]
    /\ Lookup(t, c, p)

\* The factory of GetOrCreateAsync: the entry takes the token of the moment.
CreateEntry(t) ==
    /\ task[t].state = "missed"
    /\ task' = [task EXCEPT ![t].state = "running", ![t].token = changeToken]
    /\ UNCHANGED <<serverVars, cache, fetch, announced, overlapped>>

\* A command that runs no other command asks git.
ReadRepository(t) ==
    /\ task[t].state = "running"
    /\ task[t].command \in Leaf
    /\ repo \notin task[t].inputs
    /\ task' = [task EXCEPT ![t].inputs = @ \cup {repo}]
    /\ UNCHANGED <<serverVars, cache, fetch, announced, overlapped>>

\* ICacheEntry.Dispose commits the entry: it replaces the one that is there,
\* unless its token has fired in the meantime, when neither stays.
CommittedWithCurrentToken(t) ==
    [inputs |-> task[t].inputs, token |-> changeToken]

Committed(t) ==
    IF task[t].token \in cancelled
    THEN NoEntry
    ELSE [inputs |-> task[t].inputs, token |-> task[t].token]

Return(t) ==
    /\ task[t].state = "running"
    /\ task[t].inputs # {}
    /\ Awaited(t)
    /\ cache' = IF task[t].command \in Cacheable
                THEN [cache EXCEPT ![task[t].command] = Committed(t)]
                ELSE cache
    /\ task' = Deliver(t, task[t], task[t].inputs)
    /\ UNCHANGED <<serverVars, fetch, announced, overlapped>>

ThrowUnhandled(t) ==
    /\ task[t].state = "running"
    /\ task' = [task EXCEPT ![t].state = "faulted"]
    /\ UNCHANGED <<serverVars, cache, fetch, announced, overlapped>>

\* A command that throws leaves no entry; its caller may catch the exception.
Throw(t) ==
    /\ task[t].state = "running"
    /\ Awaited(t)
    /\ task' = [task EXCEPT ![t] = IdleTask]
    /\ UNCHANGED <<serverVars, cache, fetch, announced, overlapped>>

-----------------------------------------------------------------------------
(* Fetching: GitFetchController.RequestGitFetch and CommandCache.ClearAll. *)

FetchGoesTo(f, state) == fetch' = [fetch EXCEPT ![f].state = state]

RequestGitFetch(f) ==
    /\ fetch[f].state = "idle"
    /\ tokens + Cardinality({g \in Fetchers : fetch[g].state # "idle"}) <= MaxFetches
    /\ FetchGoesTo(f, "fetching")
    /\ UNCHANGED <<serverVars, cache, task, announced, overlapped>>

\* `git fetch --prune` updates refs, one after the other.
UpdateRefs(f) ==
    /\ fetch[f].state = "fetching"
    /\ repo < MaxVersion
    /\ repo' = repo + 1
    /\ UNCHANGED <<source, changeToken, tokens, cancelled, disposed,
                   cache, task, fetch, announced, overlapped>>

GitFetchSucceeds(f) ==
    /\ fetch[f].state = "fetching"
    /\ fetch' = [fetch EXCEPT ![f].state = "fetched", ![f].target = repo]
    /\ UNCHANGED <<serverVars, cache, task, announced, overlapped>>

\* `git fetch` fails, perhaps after it has updated some refs: the request ends
\* with an error, the cache keeps what it holds and nobody is told.
GitFetchFails(f) ==
    /\ fetch[f].state = "fetching"
    /\ fetch' = [fetch EXCEPT ![f] = IdleFetch]
    /\ UNCHANGED <<serverVars, cache, task, announced, overlapped>>

\* var oldCancellationSource = cancellationSource;
ReadSource(f) ==
    /\ fetch[f].state = "fetched"
    /\ fetch' = [fetch EXCEPT ![f].state = "replaceSource", ![f].old = source]
    /\ overlapped' = (overlapped \/ \E g \in Fetchers : Clearing(g))
    /\ UNCHANGED <<serverVars, cache, task, announced>>

\* (cancellationSource, changeToken) = CreateChangeToken(); is two writes.
ReplaceSource(f) ==
    LET new == [id |-> tokens + 1, born |-> repo] IN
    /\ fetch[f].state = "replaceSource"
    /\ source' = new
    /\ tokens' = tokens + 1
    /\ fetch' = [fetch EXCEPT ![f].state = "replaceToken", ![f].new = new]
    /\ UNCHANGED <<repo, changeToken, cancelled, disposed, cache, task, announced, overlapped>>

ReplaceTokenForgotten(f) ==
    /\ fetch[f].state = "replaceToken"
    /\ FetchGoesTo(f, "cancel")
    /\ UNCHANGED <<serverVars, cache, task, announced, overlapped>>

ReplaceToken(f) ==
    /\ fetch[f].state = "replaceToken"
    /\ changeToken' = fetch[f].new
    /\ FetchGoesTo(f, "cancel")
    /\ UNCHANGED <<repo, source, tokens, cancelled, disposed, cache, task, announced, overlapped>>

\* oldCancellationSource.Cancel(); throws if another ClearAll has disposed it.
CancelNothing(f) ==
    /\ fetch[f].state = "cancel"
    /\ FetchGoesTo(f, "dispose")
    /\ UNCHANGED <<serverVars, cache, task, announced, overlapped>>

CancelOld(f) ==
    /\ fetch[f].state = "cancel"
    /\ \/ /\ fetch[f].old \notin disposed
          /\ cancelled' = cancelled \cup {fetch[f].old}
          /\ FetchGoesTo(f, "dispose")
       \/ /\ fetch[f].old \in disposed
          /\ fetch' = [fetch EXCEPT ![f] = IdleFetch]
          /\ UNCHANGED cancelled
    /\ UNCHANGED <<repo, source, changeToken, tokens, disposed, cache, task, announced, overlapped>>

\* oldCancellationSource.Dispose();
DisposeOld(f) ==
    /\ fetch[f].state = "dispose"
    /\ disposed' = disposed \cup {fetch[f].old}
    /\ FetchGoesTo(f, "announce")
    /\ UNCHANGED <<repo, source, changeToken, tokens, cancelled, cache, task, announced, overlapped>>

\* realtime.RunCommand(new GitFetchedMessage()), then 200 OK.
AnnounceFetch(f) ==
    /\ fetch[f].state = "announce"
    /\ announced' = IF announced < fetch[f].target THEN fetch[f].target ELSE announced
    /\ fetch' = [fetch EXCEPT ![f] = IdleFetch]
    /\ UNCHANGED <<serverVars, cache, task, overlapped>>

-----------------------------------------------------------------------------
TaskStep ==
    \E t \in Tasks :
        \/ \E c \in Commands : Request(t, c)
        \/ \E p \in Tasks, c \in Commands : NestedCommand(t, p, c)
        \/ CreateEntry(t)
        \/ ReadRepository(t)
        \/ Return(t)
        \/ Throw(t)

FetchStep ==
    \E f \in Fetchers :
        \/ RequestGitFetch(f)
        \/ UpdateRefs(f)
        \/ GitFetchSucceeds(f)
        \/ GitFetchFails(f)
        \/ ReadSource(f)
        \/ ReplaceSource(f)
        \/ ReplaceToken(f)
        \/ CancelOld(f)
        \/ DisposeOld(f)
        \/ AnnounceFetch(f)

Next == TaskStep \/ FetchStep

Spec == Init /\ [][Next]_vars

-----------------------------------------------------------------------------
(* Safety.                                                                 *)

\* A leaf result is never older than the token it hangs on, whatever
\* interleaves: CommandCache reads changeToken before it invokes the command.
LeafNotOlderThanToken ==
    \A c \in Leaf : \A v \in cache[c].inputs : cache[c].token.born <= v

\* Once a fetch is announced no leaf result from before it can be served, as
\* long as no two calls of CommandCache.ClearAll have overlapped.
FreshLeaf ==
    ~overlapped =>
        \A c \in Leaf : Live(c) => \A v \in cache[c].inputs : announced <= v

\* A controller that asks after the announcement is answered from data that is
\* at least as new, even when the lookup, the computation and the commit
\* straddle other fetches.
FreshResponse ==
    ~overlapped =>
        \A t \in Tasks : task[t].state = "done" /\ task[t].command \in Leaf =>
            \A v \in task[t].inputs : task[t].since <= v

\* Every entry that can be served hangs on a source that this or the next call
\* of ClearAll cancels: no entry escapes invalidation.
Clearable ==
    ~overlapped =>
        \A c \in Commands : Live(c) =>
            \/ cache[c].token = source
            \/ \E f \in Fetchers : /\ fetch[f].state \in {"replaceToken", "cancel"}
                                   /\ cache[c].token = fetch[f].old

\* Between clears the cache works: new entries hang on the token of the live
\* source, so they are kept now and dropped by the next ClearAll.
CacheUsable ==
    ~overlapped /\ (\A f \in Fetchers : ~Clearing(f)) =>
        changeToken = source /\ changeToken \notin cancelled

\* ClearAll clears everything, as its name says: when every fetch has ended, no
\* leaf result from before an announced one is left.  Refuted by two fetches
\* whose calls of ClearAll overlap and a third one after them: the token whose
\* source nobody remembers keeps its entries through the third clear.
FreshLeafWhenQuiet ==
    (\A f \in Fetchers : fetch[f].state = "idle") =>
        \A c \in Leaf : Live(c) => \A v \in cache[c].inputs : announced <= v

\* ClearAll clears everything: refuted by one fetch, through a command that
\* runs another one between the replacement of the token and the cancellation.
FreshCommand ==
    ~overlapped =>
        \A c \in Commands : Live(c) => \A v \in cache[c].inputs : announced <= v

=============================================================================
