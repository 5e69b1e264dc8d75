------------------------- MODULE CommandCacheProofs -------------------------
(***************************************************************************)
(* What holds of the command cache for any number of requests, fetches,    *)
(* commands and versions.                                                  *)
(***************************************************************************)
EXTENDS CommandCache, TLAPS

\* A nested command is awaited by a running command that is no leaf.
TaskInv ==
    \A t \in Tasks :
        /\ task[t].state \in {"missed", "running", "done"} => task[t].command \in Commands
        /\ task[t].state = "missed" => task[t].inputs = {}
        /\ task[t].state \in {"missed", "running"} /\ task[t].caller # None =>
              /\ task[t].caller \in Tasks
              /\ task[task[t].caller].state = "running"
              /\ Uses[task[task[t].caller].command] # {}
        /\ Free(t) => task[t].caller = None

\* Every token in use has been created, when the repository was no newer.
Known(token) == token.id <= tokens /\ token.born <= repo

TokenInv ==
    /\ Known(source) /\ Known(changeToken)
    /\ \A tk \in cancelled : Known(tk)
    /\ disposed \subseteq cancelled
    /\ \A f \in Fetchers : fetch[f].state = "dispose" => fetch[f].old \in cancelled
    /\ \A t \in Tasks : Known(task[t].token)
    /\ \A c \in Commands : Known(cache[c].token)
    /\ \A f \in Fetchers : Known(fetch[f].old) /\ Known(fetch[f].new)
    /\ \A f \in Fetchers : fetch[f].target <= repo
    /\ announced <= repo

\* A leaf command reads the repository after its token was created.
LeafInv ==
    /\ \A t \in Tasks : task[t].state = "running" /\ task[t].command \in Leaf =>
          \A v \in task[t].inputs : task[t].token.born <= v
    /\ LeafNotOlderThanToken

\* What the steps of ClearAll have done when only one call is under way.
ClearInv ==
    ~overlapped =>
        /\ \A f, g \in Fetchers : Clearing(f) /\ Clearing(g) => f = g
        /\ source \notin cancelled
        /\ (\A f \in Fetchers : fetch[f].state # "replaceToken") => changeToken = source
        /\ \A f \in Fetchers :
              /\ fetch[f].state = "replaceSource" => fetch[f].old = source
              /\ fetch[f].state = "replaceToken" =>
                    fetch[f].new = source /\ fetch[f].old = changeToken
              /\ fetch[f].state \in {"replaceToken", "cancel"} => fetch[f].old # source

\* A token that some entry may hang on and that has not fired.
Reachable(token) ==
    \/ token = source
    \/ \E f \in Fetchers : /\ fetch[f].state \in {"replaceToken", "cancel"}
                           /\ token = fetch[f].old

ReachInv ==
    ~overlapped =>
        /\ \A c \in Commands : Live(c) => Reachable(cache[c].token)
        /\ \A t \in Tasks : /\ task[t].state = "running"
                            /\ task[t].command \in Cacheable
                            /\ task[t].token \notin cancelled
                            => Reachable(task[t].token)

\* Such a token is no older than any fetch that is announced or about to be.
FloorInv ==
    ~overlapped =>
        /\ announced <= source.born
        /\ \A f \in Fetchers :
              /\ fetch[f].state \in {"replaceToken", "cancel", "dispose", "announce"} =>
                    fetch[f].target <= source.born
              /\ fetch[f].state \in {"replaceToken", "cancel"} =>
                    /\ announced <= fetch[f].old.born
                    /\ \A g \in Fetchers : fetch[g].state = "announce" =>
                          fetch[g].target <= fetch[f].old.born

ResponseInv ==
    /\ \A t \in Tasks : task[t].since <= announced
    /\ ~overlapped =>
        \A t \in Tasks : task[t].state \in {"running", "done"} /\ task[t].command \in Leaf =>
            \A v \in task[t].inputs : task[t].since <= v

IInv ==
    /\ TypeOK
    /\ TaskInv
    /\ TokenInv
    /\ LeafInv
    /\ ClearInv
    /\ ReachInv
    /\ FloorInv
    /\ ResponseInv

-----------------------------------------------------------------------------
(* Type correctness.                                                       *)

\* What the cases of Lookup and Return leave of the tasks.
LEMMA DeliverType ==
    ASSUME TypeOK, NEW t \in Tasks, NEW final \in Task, NEW inputs \in SUBSET Version
    PROVE  Deliver(t, final, inputs) \in [Tasks -> Task]
<1>1. IdleTask \in Task /\ NoToken \in Token
    BY DEF IdleTask, Task, TaskState, NoToken, Token, Version
<1>2. task \in [Tasks -> Task]
    BY DEF TypeOK
<1>3. CASE final.caller = None
    <2>1. [final EXCEPT !.state = "done", !.inputs = inputs, !.token = NoToken] \in Task
        BY <1>1 DEF Task, TaskState
    <2>2. QED
        BY <1>2, <1>3, <2>1 DEF Deliver
<1>4. CASE final.caller # None
    <2>1. final.caller \in Tasks
        BY <1>4 DEF Task
    <2>2. [task[final.caller] EXCEPT !.inputs = @ \cup inputs] \in Task
        BY <1>2, <2>1 DEF Task
    <2>3. QED
        BY <1>1, <1>2, <1>4, <2>1, <2>2 DEF Deliver
<1>5. QED
    BY <1>3, <1>4

LEMMA InitialValues ==
    NoToken \in Token /\ FirstToken \in Token /\ NoEntry \in Entry /\ IdleTask \in Task
    /\ IdleFetch \in Fetch
    BY DEF FirstToken, Token, Version, NoEntry, Entry, IdleTask, Task, TaskState,
           NoToken, IdleFetch, Fetch, FetchState

LEMMA TypeInit == Init => TypeOK
<1> SUFFICES ASSUME Init
             PROVE  TypeOK
    OBVIOUS
<1>1. overlapped \in BOOLEAN
    BY Zenon DEF Init
<1>2. repo \in Version /\ announced \in Version /\ tokens \in Nat
    BY DEF Init, Version
<1>3. /\ source \in Token /\ changeToken \in Token
      /\ cancelled \subseteq Token /\ disposed \subseteq Token
    BY InitialValues DEF Init
<1>4. cache \in [Commands -> Entry] /\ task \in [Tasks -> Task] /\ fetch \in [Fetchers -> Fetch]
    BY InitialValues DEF Init
<1>5. QED
    BY <1>1, <1>2, <1>3, <1>4 DEF TypeOK

LEMMA BeginType ==
    ASSUME TypeOK, NEW c \in Commands, NEW caller \in Tasks \cup {None}, NEW state \in TaskState
    PROVE  Begin(c, caller, state) \in Task
    BY DEF TypeOK, Begin, Task, NoToken, Token, Version

LEMMA LookupType ==
    ASSUME TypeOK, NEW t \in Tasks, NEW c \in Commands, NEW caller \in Tasks \cup {None},
           Lookup(t, c, caller)
    PROVE  TypeOK'
<1>1. Begin(c, caller, "running") \in Task /\ Begin(c, caller, "missed") \in Task
    BY BeginType DEF TaskState
<1>2. cache[c].inputs \in SUBSET Version
    BY DEF TypeOK, Entry
<1>3. task' \in [Tasks -> Task]
    <2>1. CASE task' = Deliver(t, Begin(c, caller, "running"), cache[c].inputs)
        BY <1>1, <1>2, <2>1, DeliverType
    <2>2. CASE task' # Deliver(t, Begin(c, caller, "running"), cache[c].inputs)
        BY <1>1, <2>2 DEF Lookup, TypeOK
    <2>3. QED
        BY <2>1, <2>2
<1>4. QED
    BY <1>3 DEF Lookup, TypeOK, serverVars

LEMMA TypeNext == TypeOK /\ [Next]_vars => TypeOK'
<1> SUFFICES ASSUME TypeOK, [Next]_vars
             PROVE  TypeOK'
    OBVIOUS
<1>1. ASSUME NEW t \in Tasks, NEW c \in Commands, Request(t, c)
      PROVE  TypeOK'
    BY <1>1, LookupType DEF Request
<1>2. ASSUME NEW t \in Tasks, NEW p \in Tasks, NEW c \in Commands, NestedCommand(t, p, c)
      PROVE  TypeOK'
    BY <1>2, LookupType DEF NestedCommand
<1>3. ASSUME NEW t \in Tasks, CreateEntry(t)
      PROVE  TypeOK'
    <2>1. task[t] \in Task /\ changeToken \in Token
        BY DEF TypeOK
    <2>2. task' = [task EXCEPT ![t] = [task[t] EXCEPT !.state = "running", !.token = changeToken]]
        BY <1>3 DEF CreateEntry
    <2>3. [task[t] EXCEPT !.state = "running", !.token = changeToken] \in Task
        BY <2>1 DEF Task, TaskState
    <2>4. task' \in [Tasks -> Task]
        BY <2>2, <2>3 DEF TypeOK
    <2>5. QED
        BY <1>3, <2>4 DEF CreateEntry, TypeOK, serverVars
<1>4. ASSUME NEW t \in Tasks, ReadRepository(t)
      PROVE  TypeOK'
    <2>1. task[t] \in Task
        BY DEF TypeOK
    <2>2. task' \in [Tasks -> Task]
        BY <1>4, <2>1 DEF ReadRepository, TypeOK, Task, Version
    <2>3. QED
        BY <1>4, <2>2 DEF ReadRepository, TypeOK, serverVars
<1>5. ASSUME NEW t \in Tasks, Return(t)
      PROVE  TypeOK'
    <2>1. task[t] \in Task
        BY DEF TypeOK
    <2>2. task' \in [Tasks -> Task]
        BY <1>5, <2>1, DeliverType DEF Return, Task
    <2>3. Committed(t) \in Entry
        BY <2>1 DEF Committed, Entry, Task, NoEntry, NoToken, Token, Version
    <2>4. cache' \in [Commands -> Entry]
        BY <1>5, <2>3 DEF Return, TypeOK
    <2>5. QED
        BY <1>5, <2>2, <2>4 DEF Return, TypeOK, serverVars
<1>6. ASSUME NEW t \in Tasks, Throw(t)
      PROVE  TypeOK'
    BY <1>6, InitialValues DEF Throw, TypeOK, serverVars
<1>7. ASSUME NEW f \in Fetchers, RequestGitFetch(f)
      PROVE  TypeOK'
    BY <1>7 DEF RequestGitFetch, FetchGoesTo, TypeOK, serverVars, Fetch, FetchState
<1>8. ASSUME NEW f \in Fetchers, UpdateRefs(f)
      PROVE  TypeOK'
    BY <1>8 DEF UpdateRefs, TypeOK, Version
<1>9. ASSUME NEW f \in Fetchers, GitFetchSucceeds(f) \/ GitFetchFails(f)
      PROVE  TypeOK'
    <2>1. CASE GitFetchSucceeds(f)
        BY <2>1 DEF GitFetchSucceeds, TypeOK, serverVars, Fetch, FetchState
    <2>2. CASE GitFetchFails(f)
        BY <2>2, InitialValues DEF GitFetchFails, TypeOK, serverVars
    <2>3. QED
        BY <1>9, <2>1, <2>2
<1>10. ASSUME NEW f \in Fetchers, ReadSource(f)
       PROVE  TypeOK'
    <2>1. (\E g \in Fetchers : Clearing(g)) \in BOOLEAN
        OBVIOUS
    <2>2. overlapped' \in BOOLEAN
        BY <1>10, <2>1, Zenon DEF ReadSource, TypeOK
    <2>3. fetch' \in [Fetchers -> Fetch]
        BY <1>10 DEF ReadSource, TypeOK, Fetch, FetchState
    <2>4. QED
        BY <1>10, <2>2, <2>3 DEF ReadSource, TypeOK, serverVars
<1>11. ASSUME NEW f \in Fetchers, ReplaceSource(f)
       PROVE  TypeOK'
    <2> DEFINE new == [id |-> tokens + 1, born |-> repo]
    <2>1. new \in Token /\ tokens + 1 \in Nat
        BY DEF TypeOK, Token, Version
    <2>2. fetch' = [fetch EXCEPT ![f].state = "replaceToken", ![f].new = new]
        BY <1>11 DEF ReplaceSource
    <2>3. fetch' \in [Fetchers -> Fetch]
        BY <2>1, <2>2 DEF TypeOK, Fetch, FetchState
    <2>4. QED
        BY <1>11, <2>1, <2>3 DEF ReplaceSource, TypeOK
<1>12. ASSUME NEW f \in Fetchers, ReplaceToken(f)
       PROVE  TypeOK'
    BY <1>12 DEF ReplaceToken, FetchGoesTo, TypeOK, Fetch, FetchState
<1>13. ASSUME NEW f \in Fetchers, CancelOld(f)
       PROVE  TypeOK'
    BY <1>13 DEF CancelOld, FetchGoesTo, TypeOK, Fetch, FetchState, IdleFetch, NoToken, Token,
                 Version
<1>14. ASSUME NEW f \in Fetchers, DisposeOld(f) \/ AnnounceFetch(f)
       PROVE  TypeOK'
    BY <1>14 DEF DisposeOld, AnnounceFetch, FetchGoesTo, TypeOK, serverVars, Fetch, FetchState,
                 IdleFetch, NoToken, Token, Version
<1>15. CASE UNCHANGED vars
    BY <1>15 DEF vars, serverVars, TypeOK
<1>16. QED
    BY <1>1, <1>2, <1>3, <1>4, <1>5, <1>6, <1>7, <1>8, <1>9, <1>10, <1>11, <1>12, <1>13, <1>14,
       <1>15
    DEF Next, TaskStep, FetchStep

\* The state has its shape in every reachable state, for any constants.
THEOREM TypeCorrect == Spec => []TypeOK
    BY TypeInit, TypeNext, PTL DEF Spec

-----------------------------------------------------------------------------
(* What a step does to the tasks.                                          *)

\* The fields of a task that another task's step leaves alone.
Kept(u) ==
    /\ task'[u].state = task[u].state
    /\ task'[u].command = task[u].command
    /\ task'[u].caller = task[u].caller
    /\ task'[u].token = task[u].token
    /\ task'[u].since = task[u].since

\* The others keep their state; the one that awaits t may receive inputs.
OthersKept(t) ==
    \A u \in Tasks \ {t} :
        /\ Kept(u)
        /\ \/ task'[u].inputs = task[u].inputs
           \/ task[u].state = "running" /\ Uses[task[u].command] # {}

\* How the task that takes the step ends up.
Starts(t, c, caller) ==
    /\ Free(t)
    /\ task'[t].command = c
    /\ task'[t].caller = caller
    /\ task'[t].inputs = {}
    /\ task'[t].token = NoToken
    /\ task'[t].since <= announced
    /\ \/ task'[t].state = "missed"
       \/ task'[t].state = "running" /\ c \notin Cacheable

Hits(t, c) ==
    /\ Free(t)
    /\ Live(c)
    /\ task'[t].state = "done"
    /\ task'[t].command = c
    /\ task'[t].caller = None
    /\ task'[t].token = NoToken
    /\ task'[t].inputs = cache[c].inputs
    /\ task'[t].since = announced

Ends(t) ==
    /\ task[t].state = "running"
    /\ Awaited(t)
    /\ task'[t].state = "done"
    /\ task'[t].command = task[t].command
    /\ task'[t].caller = None
    /\ task'[t].token = NoToken
    /\ task'[t].inputs = task[t].inputs
    /\ task'[t].since = task[t].since

Idles(t) ==
    /\ Free(t) \/ (task[t].state = "running" /\ Awaited(t))
    /\ task'[t] = IdleTask

Proceeds(t) ==
    /\ task'[t].command = task[t].command
    /\ task'[t].caller = task[t].caller
    /\ task'[t].since = task[t].since
    /\ task'[t].state = "running"
    /\ \/ /\ task[t].state = "missed"
          /\ task'[t].token = changeToken
          /\ task'[t].inputs = task[t].inputs
       \/ /\ task[t].state = "running"
          /\ task'[t].token = task[t].token
          /\ task[t].command \in Leaf
          /\ task'[t].inputs = task[t].inputs \cup {repo}

LEMMA DeliverEffect ==
    ASSUME TypeOK, NEW t \in Tasks, NEW final \in Task, NEW inputs \in SUBSET Version,
           final.caller # t, task' = Deliver(t, final, inputs),
           final.caller # None =>
              task[final.caller].state = "running" /\ Uses[task[final.caller].command] # {}
    PROVE  /\ OthersKept(t)
           /\ final.caller # None => task'[t] = IdleTask
           /\ final.caller = None =>
                task'[t] = [final EXCEPT !.state = "done", !.inputs = inputs, !.token = NoToken]
<1>1. task \in [Tasks -> Task]
    BY DEF TypeOK
<1>2. CASE final.caller = None
    <2>1. task' = [task EXCEPT ![t] = [final EXCEPT !.state = "done", !.inputs = inputs,
                                                    !.token = NoToken]]
        BY <1>2 DEF Deliver
    <2>2. QED
        BY <1>1, <1>2, <2>1 DEF OthersKept, Kept
<1>3. CASE final.caller # None
    <2>1. final.caller \in Tasks
        BY <1>3 DEF Task
    <2>2. task' = [task EXCEPT ![t] = IdleTask,
                     ![final.caller] = [task[final.caller] EXCEPT !.inputs = @ \cup inputs]]
        BY <1>3 DEF Deliver
    <2>3. task'[t] = IdleTask
        BY <1>1, <2>1, <2>2
    <2>4. ASSUME NEW u \in Tasks \ {t}
          PROVE  /\ Kept(u)
                 /\ \/ task'[u].inputs = task[u].inputs
                    \/ task[u].state = "running" /\ Uses[task[u].command] # {}
        <3>1. CASE u = final.caller
            <4>1. task'[u] = [task[u] EXCEPT !.inputs = @ \cup inputs]
                BY <1>1, <2>1, <2>2, <3>1
            <4>2. QED
                BY <1>1, <1>3, <3>1, <4>1 DEF Kept, Task
        <3>2. CASE u # final.caller
            BY <1>1, <2>1, <2>2, <3>2 DEF Kept
        <3>3. QED
            BY <3>1, <3>2
    <2>5. QED
        BY <1>3, <2>3, <2>4 DEF OthersKept
<1>4. QED
    BY <1>2, <1>3

LEMMA LookupEffect ==
    ASSUME TypeOK, NEW t \in Tasks, NEW c \in Commands, NEW caller \in Tasks \cup {None},
           Lookup(t, c, caller), Free(t), caller # t,
           caller # None => task[caller].state = "running" /\ Uses[task[caller].command] # {}
    PROVE  OthersKept(t) /\ (Starts(t, c, caller) \/ (Hits(t, c) /\ caller = None) \/ Idles(t))
<1>1. task \in [Tasks -> Task] /\ cache[c].inputs \in SUBSET Version /\ announced \in Nat
    BY DEF TypeOK, Entry, Version
<1>2. CASE task' = [task EXCEPT ![t] = Begin(c, caller, "running")] /\ c \notin Cacheable
    BY <1>1, <1>2 DEF OthersKept, Kept, Starts, Begin
<1>3. CASE task' = [task EXCEPT ![t] = Begin(c, caller, "missed")]
    BY <1>1, <1>3 DEF OthersKept, Kept, Starts, Begin
<1>4. CASE Live(c) /\ task' = Deliver(t, Begin(c, caller, "running"), cache[c].inputs)
    <2> DEFINE final == Begin(c, caller, "running")
    <2>1. final \in Task /\ final.caller = caller
        BY BeginType DEF TaskState, Begin
    <2>4. task' = Deliver(t, final, cache[c].inputs)
        BY <1>4
    <2> HIDE DEF final
    <2>2. /\ OthersKept(t)
          /\ caller # None => task'[t] = IdleTask
          /\ caller = None => task'[t] = [final EXCEPT !.state = "done",
                                             !.inputs = cache[c].inputs, !.token = NoToken]
        BY <1>1, <2>1, <2>4, DeliverEffect
    <2>3. QED
        BY <1>4, <2>2 DEF final, Begin, Hits, Idles
<1>5. QED
    BY <1>2, <1>3, <1>4 DEF Lookup

Moves(t) ==
    \/ \E c \in Commands : Starts(t, c, None) \/ Hits(t, c)
    \/ \E c \in Commands, p \in Tasks :
          /\ Starts(t, c, p)
          /\ p # t
          /\ task[p].state = "running"
          /\ Uses[task[p].command] # {}
    \/ Ends(t)
    \/ Idles(t)
    \/ Proceeds(t)

LEMMA RequestEffect ==
    ASSUME TypeOK, NEW t \in Tasks, NEW c \in Commands, Request(t, c)
    PROVE  OthersKept(t) /\ Moves(t)
<1>1. None # t
    BY CommandsAssumption
<1>2. OthersKept(t) /\ (Starts(t, c, None) \/ (Hits(t, c) /\ None = None) \/ Idles(t))
    BY <1>1, LookupEffect DEF Request
<1>3. QED
    BY <1>2 DEF Moves

LEMMA NestedCommandEffect ==
    ASSUME TypeOK, NEW t \in Tasks, NEW p \in Tasks, NEW c \in Commands, NestedCommand(t, p, c)
    PROVE  OthersKept(t) /\ Moves(t)
<1>1. /\ p # t /\ p # None /\ Free(t) /\ Lookup(t, c, p)
      /\ task[p].state = "running" /\ Uses[task[p].command] # {}
    BY CommandsAssumption DEF NestedCommand, Free
<1>2. OthersKept(t) /\ (Starts(t, c, p) \/ (Hits(t, c) /\ p = None) \/ Idles(t))
    BY <1>1, LookupEffect
<1>3. QED
    BY <1>1, <1>2 DEF Moves

LEMMA ReturnEffect ==
    ASSUME TypeOK, TaskInv, NEW t \in Tasks, Return(t)
    PROVE  OthersKept(t) /\ Moves(t)
<1>1. task[t] \in Task /\ task[t].inputs \in SUBSET Version
    BY DEF TypeOK, Task
<1>2. task' = Deliver(t, task[t], task[t].inputs) /\ task[t].state = "running" /\ Awaited(t)
    BY DEF Return
<1>3. task[t].caller # t
    BY <1>2 DEF Awaited, Free
<1>4. task[t].caller # None =>
        task[task[t].caller].state = "running" /\ Uses[task[task[t].caller].command] # {}
    BY <1>2 DEF TaskInv
<1>5. /\ OthersKept(t)
      /\ task[t].caller # None => task'[t] = IdleTask
      /\ task[t].caller = None =>
            task'[t] = [task[t] EXCEPT !.state = "done", !.inputs = task[t].inputs,
                                       !.token = NoToken]
    BY <1>1, <1>2, <1>3, <1>4, DeliverEffect
<1>6. CASE task[t].caller # None
    BY <1>2, <1>5, <1>6 DEF Moves, Idles
<1>7. CASE task[t].caller = None
    BY <1>1, <1>2, <1>5, <1>7 DEF Moves, Ends, Task
<1>8. QED
    BY <1>5, <1>6, <1>7

LEMMA OtherTaskEffect ==
    ASSUME TypeOK, NEW t \in Tasks, CreateEntry(t) \/ ReadRepository(t) \/ Throw(t)
    PROVE  OthersKept(t) /\ Moves(t)
<1>1. task \in [Tasks -> Task]
    BY DEF TypeOK
<1>2. CASE CreateEntry(t)
    BY <1>1, <1>2 DEF CreateEntry, OthersKept, Kept, Moves, Proceeds, Task
<1>3. CASE ReadRepository(t)
    BY <1>1, <1>3 DEF ReadRepository, OthersKept, Kept, Moves, Proceeds, Task
<1>4. CASE Throw(t)
    BY <1>1, <1>4 DEF Throw, OthersKept, Kept, Moves, Idles
<1>5. QED
    BY <1>2, <1>3, <1>4

LEMMA TaskStepFrame == TaskStep => UNCHANGED <<serverVars, fetch, announced, overlapped>>
    BY DEF TaskStep, Request, NestedCommand, Lookup, CreateEntry, ReadRepository, Return, Throw

\* Only Return writes the cache.
Writes(t) == Return(t) \/ UNCHANGED cache

\* Every step of a task is a move of one task.
LEMMA TaskEffect ==
    TypeOK /\ TaskInv /\ TaskStep => \E t \in Tasks : OthersKept(t) /\ Moves(t) /\ Writes(t)
<1> SUFFICES ASSUME TypeOK, TaskInv, TaskStep
             PROVE  \E t \in Tasks : OthersKept(t) /\ Moves(t) /\ Writes(t)
    OBVIOUS
<1>1. ASSUME NEW t \in Tasks, NEW c \in Commands, Request(t, c)
      PROVE  OthersKept(t) /\ Moves(t) /\ Writes(t)
    BY <1>1, RequestEffect DEF Request, Lookup, Writes
<1>2. ASSUME NEW t \in Tasks, NEW p \in Tasks, NEW c \in Commands, NestedCommand(t, p, c)
      PROVE  OthersKept(t) /\ Moves(t) /\ Writes(t)
    BY <1>2, NestedCommandEffect DEF NestedCommand, Lookup, Writes
<1>3. ASSUME NEW t \in Tasks, CreateEntry(t) \/ ReadRepository(t) \/ Throw(t)
      PROVE  OthersKept(t) /\ Moves(t) /\ Writes(t)
    BY <1>3, OtherTaskEffect DEF CreateEntry, ReadRepository, Throw, Writes
<1>4. ASSUME NEW t \in Tasks, Return(t)
      PROVE  OthersKept(t) /\ Moves(t) /\ Writes(t)
    BY <1>4, ReturnEffect DEF Writes
<1>5. QED
    BY <1>1, <1>2, <1>3, <1>4 DEF TaskStep

LEMMA FetchEffect == FetchStep => UNCHANGED <<task, cache>>
    BY DEF FetchStep, RequestGitFetch, UpdateRefs, GitFetchSucceeds, GitFetchFails, ReadSource,
           ReplaceSource, ReplaceToken, CancelOld, DisposeOld, AnnounceFetch

-----------------------------------------------------------------------------
(* The invariant, part by part.                                            *)

LEMMA TaskInvNext == TypeOK /\ TaskInv /\ [Next]_vars => TaskInv'
<1> SUFFICES ASSUME TypeOK, TaskInv, [Next]_vars
             PROVE  TaskInv'
    OBVIOUS
<1>1. CASE TaskStep
    <2>1. PICK t \in Tasks : OthersKept(t) /\ Moves(t)
        BY <1>1, TaskEffect
    <2>2. task \in [Tasks -> Task]
        BY DEF TypeOK
    <2>3. \A u \in Tasks \ {t} :
             /\ task'[u].state = task[u].state
             /\ task'[u].command = task[u].command
             /\ task'[u].caller = task[u].caller
             /\ task'[u].inputs = task[u].inputs \/ task[u].state = "running"
        BY <2>1 DEF OthersKept, Kept
    <2>4. \* nothing that is under way is awaited by a task that was free or that ends
          ASSUME NEW u \in Tasks, task[u].state \in {"missed", "running"}, task[u].caller = t
          PROVE  task[t].state = "running" /\ ~Awaited(t)
        BY <2>4, CommandsAssumption DEF TaskInv, Awaited, Free
    <2>5. task'[t].state \in {"missed", "running", "done"} => task'[t].command \in Commands
        BY <2>1 DEF Moves, Starts, Hits, Ends, Idles, Proceeds, TaskInv, IdleTask
    <2>6. task'[t].state = "missed" => task'[t].inputs = {}
        BY <2>1 DEF Moves, Starts, Hits, Ends, Idles, Proceeds, IdleTask
    <2>7. task'[t].state \in {"idle", "done"} => task'[t].caller = None
        BY <2>1 DEF Moves, Starts, Hits, Ends, Idles, Proceeds, IdleTask
    <2>8. ASSUME NEW u \in Tasks, task'[u].state \in {"missed", "running"}, task'[u].caller # None
          PROVE  /\ task'[u].caller \in Tasks
                 /\ task'[task'[u].caller].state = "running"
                 /\ Uses[task'[task'[u].caller].command] # {}
        <3>1. CASE u # t
            <4>1. /\ task[u].state \in {"missed", "running"} /\ task[u].caller # None
                  /\ task'[u].caller = task[u].caller
                BY <2>3, <2>8, <3>1
            <4>2. /\ task[u].caller \in Tasks /\ task[task[u].caller].state = "running"
                  /\ Uses[task[task[u].caller].command] # {}
                BY <4>1 DEF TaskInv
            <4>3. CASE task[u].caller # t
                BY <2>3, <4>1, <4>2, <4>3
            <4>4. CASE task[u].caller = t
                <5>1. task[t].state = "running" /\ ~Awaited(t)
                    BY <2>4, <4>1, <4>4
                <5>2. Proceeds(t)
                    BY <2>1, <5>1 DEF Moves, Starts, Hits, Ends, Idles, Free
                <5>3. QED
                    BY <4>1, <4>2, <4>4, <5>2 DEF Proceeds
            <4>5. QED
                BY <4>3, <4>4
        <3>2. CASE u = t
            <4>1. CASE Proceeds(t)
                <5>1. /\ task[t].state \in {"missed", "running"} /\ task[t].caller # None
                      /\ task'[t].caller = task[t].caller /\ task'[t].command = task[t].command
                      /\ task'[t].state = "running"
                    BY <2>8, <3>2, <4>1 DEF Proceeds
                <5>2. /\ task[t].caller \in Tasks /\ task[task[t].caller].state = "running"
                      /\ Uses[task[task[t].caller].command] # {}
                    BY <5>1 DEF TaskInv
                <5>3. QED
                    BY <2>3, <3>2, <5>1, <5>2
            <4>2. CASE ~Proceeds(t)
                <5>1. PICK c \in Commands, p \in Tasks :
                        /\ Starts(t, c, p) /\ p # t
                        /\ task[p].state = "running" /\ Uses[task[p].command] # {}
                    BY <2>1, <2>8, <3>2, <4>2 DEF Moves, Starts, Hits, Ends, Idles, IdleTask
                <5>2. QED
                    BY <2>3, <3>2, <5>1 DEF Starts
            <4>3. QED
                BY <4>1, <4>2
        <3>3. QED
            BY <3>1, <3>2
    <2>9. QED
        BY <2>3, <2>5, <2>6, <2>7, <2>8 DEF TaskInv, Free
<1>2. CASE FetchStep
    BY <1>2, FetchEffect DEF TaskInv, Free
<1>3. CASE UNCHANGED vars
    BY <1>3 DEF vars, TaskInv, Free
<1>4. QED
    BY <1>1, <1>2, <1>3 DEF Next

\* The tokens that tasks and entries hold after a step of a task.
LEMMA TaskTokens ==
    ASSUME TypeOK, NEW t \in Tasks, OthersKept(t), Moves(t), Writes(t)
    PROVE  /\ \A u \in Tasks : task'[u].token \in {task[u].token, NoToken, changeToken}
           /\ \A c \in Commands :
                 \/ cache'[c] = cache[c]
                 \/ cache'[c] = NoEntry
                 \/ /\ Return(t)
                    /\ c = task[t].command /\ c \in Cacheable
                    /\ task[t].token \notin cancelled
                    /\ cache'[c] = [inputs |-> task[t].inputs, token |-> task[t].token]
<1>1. ASSUME NEW u \in Tasks
      PROVE  task'[u].token \in {task[u].token, NoToken, changeToken}
    BY DEF OthersKept, Kept, Moves, Starts, Hits, Ends, Idles, Proceeds, IdleTask
<1>2. ASSUME NEW c \in Commands, cache'[c] # cache[c]
      PROVE  \/ cache'[c] = NoEntry
             \/ /\ Return(t)
                /\ c = task[t].command /\ c \in Cacheable
                /\ task[t].token \notin cancelled
                /\ cache'[c] = [inputs |-> task[t].inputs, token |-> task[t].token]
    <2>1. Return(t) /\ cache \in [Commands -> Entry]
        BY <1>2 DEF Writes, TypeOK
    <2>2. cache' = [cache EXCEPT ![task[t].command] = Committed(t)] /\ task[t].command \in Cacheable
        BY <1>2, <2>1 DEF Return
    <2>3. c = task[t].command /\ cache'[c] = Committed(t)
        BY <1>2, <2>1, <2>2
    <2>4. QED
        BY <2>1, <2>2, <2>3 DEF Committed
<1>3. QED
    BY <1>1, <1>2

LEMMA TokenInvNext == TypeOK /\ TaskInv /\ TokenInv /\ [Next]_vars => TokenInv'
<1> SUFFICES ASSUME TypeOK, TaskInv, TokenInv, [Next]_vars
             PROVE  TokenInv'
    OBVIOUS
<1> USE DEF Version
<1>1. CASE TaskStep
    <2>1. UNCHANGED <<serverVars, fetch, announced>>
        BY <1>1, TaskStepFrame
    <2>2. PICK t \in Tasks : OthersKept(t) /\ Moves(t) /\ Writes(t)
        BY <1>1, TaskEffect
    <2>3. Known(NoToken)
        BY DEF Known, NoToken, TypeOK
    <2>4. \A u \in Tasks : Known(task'[u].token)
        BY <2>2, <2>3, TaskTokens DEF TokenInv
    <2>5. \A c \in Commands : Known(cache'[c].token)
        <3>1. ASSUME NEW c \in Commands
              PROVE  cache'[c].token \in {cache[c].token, NoToken, task[t].token}
            <4>1. \/ cache'[c] = cache[c]
                  \/ cache'[c] = NoEntry
                  \/ cache'[c] = [inputs |-> task[t].inputs, token |-> task[t].token]
                BY <2>2, TaskTokens
            <4>2. QED
                BY <4>1 DEF NoEntry
        <3>2. QED
            BY <2>3, <3>1 DEF TokenInv
    <2>6. QED
        BY <2>1, <2>4, <2>5 DEF TokenInv, Known, serverVars
<1>2. CASE FetchStep
    <2>1. UNCHANGED <<task, cache>>
        BY <1>2, FetchEffect
    <2>2. /\ repo \in Nat /\ announced \in Nat /\ tokens \in Nat
          /\ source \in Token /\ changeToken \in Token
          /\ cancelled \subseteq Token
          /\ \A c \in Commands : cache[c].token \in Token
          /\ \A t \in Tasks : task[t].token \in Token
          /\ \A f \in Fetchers : /\ fetch[f].old \in Token /\ fetch[f].new \in Token
                                /\ fetch[f].target \in Nat
          /\ fetch \in [Fetchers -> Fetch]
        BY DEF TypeOK, Entry, Task, Fetch
    <2>3. Known(NoToken)
        BY <2>2 DEF Known, NoToken
    <2>4. PICK f \in Fetchers :
             \/ RequestGitFetch(f)
             \/ UpdateRefs(f)
             \/ GitFetchSucceeds(f)
             \/ GitFetchFails(f)
             \/ ReadSource(f)
             \/ ReplaceSource(f)
             \/ ReplaceToken(f)
             \/ CancelOld(f)
             \/ DisposeOld(f)
             \/ AnnounceFetch(f)
        BY <1>2 DEF FetchStep
    <2>5. CASE UpdateRefs(f)
        BY <2>1, <2>2, <2>5 DEF UpdateRefs, TokenInv, Known, Token
    <2>6. CASE ReplaceSource(f)
        <3>1. /\ source' = [id |-> tokens + 1, born |-> repo]
              /\ tokens' = tokens + 1
              /\ fetch' = [fetch EXCEPT ![f].state = "replaceToken", ![f].new = source']
              /\ UNCHANGED <<repo, changeToken, cancelled, disposed, announced>>
            BY <2>6 DEF ReplaceSource
        <3>2. \A tk \in Token : Known(tk) => Known(tk)'
            BY <2>2, <3>1 DEF Known, Token
        <3>3. Known(source)'
            BY <2>2, <3>1 DEF Known
        <3>4. \A g \in Fetchers : /\ fetch'[g].old = fetch[g].old
                                  /\ fetch'[g].new \in {fetch[g].new, source'}
                                  /\ fetch'[g].target = fetch[g].target
            BY <2>2, <3>1 DEF Fetch
        <3>5. \A g \in Fetchers : fetch'[g].state = "dispose" => fetch[g].state = "dispose"
            BY <2>2, <3>1 DEF Fetch
        <3>6. /\ \A g \in Fetchers : Known(fetch[g].old)' /\ Known(fetch[g].new)'
              /\ \A g \in Fetchers : fetch'[g].target <= repo'
            BY <2>2, <3>1, <3>2, <3>3, <3>4 DEF TokenInv, Known
        <3>7. /\ Known(changeToken)' /\ (\A tk \in cancelled : Known(tk))'
              /\ (\A t \in Tasks : Known(task[t].token))'
              /\ (\A c \in Commands : Known(cache[c].token))'
            BY <2>1, <2>2, <3>1, <3>2 DEF TokenInv, Known
        <3>8. QED
            BY <2>1, <2>2, <3>1, <3>3, <3>4, <3>5, <3>6, <3>7 DEF TokenInv
    <2>7. CASE ReplaceToken(f)
        BY <2>1, <2>2, <2>7 DEF ReplaceToken, FetchGoesTo, TokenInv, Known
    <2>8. CASE RequestGitFetch(f) \/ GitFetchSucceeds(f) \/ GitFetchFails(f)
        <3>1. UNCHANGED <<serverVars, announced>>
            BY <2>8 DEF RequestGitFetch, GitFetchSucceeds, GitFetchFails
        <3>2. \/ fetch' = [fetch EXCEPT ![f].state = "fetching"]
              \/ fetch' = [fetch EXCEPT ![f].state = "fetched", ![f].target = repo]
              \/ fetch' = [fetch EXCEPT ![f] = IdleFetch]
            BY <2>8 DEF RequestGitFetch, GitFetchSucceeds, GitFetchFails, FetchGoesTo
        <3>3. ASSUME NEW g \in Fetchers
              PROVE  /\ fetch'[g].old \in {fetch[g].old, NoToken}
                     /\ fetch'[g].new \in {fetch[g].new, NoToken}
                     /\ fetch'[g].target \in {fetch[g].target, repo, 0}
                     /\ fetch'[g].state = "dispose" => fetch'[g] = fetch[g]
            <4>1. fetch[g] \in Fetch
                BY <2>2
            <4>2. CASE fetch' = [fetch EXCEPT ![f].state = "fetching"]
                BY <2>2, <4>1, <4>2 DEF Fetch
            <4>3. CASE fetch' = [fetch EXCEPT ![f].state = "fetched", ![f].target = repo]
                BY <2>2, <4>1, <4>3 DEF Fetch
            <4>4. CASE fetch' = [fetch EXCEPT ![f] = IdleFetch]
                BY <2>2, <4>1, <4>4 DEF IdleFetch
            <4>5. QED
                BY <3>2, <4>2, <4>3, <4>4
        <3>4. QED
            BY <2>1, <2>2, <2>3, <3>1, <3>3 DEF TokenInv, Known, serverVars
    <2>9. CASE ReadSource(f)
        BY <2>1, <2>2, <2>9 DEF ReadSource, TokenInv, Known, serverVars
    <2>10. CASE CancelOld(f)
        <3>1. UNCHANGED <<repo, source, changeToken, tokens, disposed, announced>>
            BY <2>10 DEF CancelOld
        <3>2. CASE cancelled' = cancelled \cup {fetch[f].old} /\ FetchGoesTo(f, "dispose")
            BY <2>1, <2>2, <3>1, <3>2 DEF FetchGoesTo, TokenInv, Known
        <3>3. CASE cancelled' = cancelled /\ fetch' = [fetch EXCEPT ![f] = IdleFetch]
            BY <2>1, <2>2, <2>3, <3>1, <3>3 DEF IdleFetch, TokenInv, Known
        <3>4. QED
            BY <2>10, <3>2, <3>3 DEF CancelOld
    <2>11. CASE DisposeOld(f)
        BY <2>1, <2>2, <2>11 DEF DisposeOld, FetchGoesTo, TokenInv, Known
    <2>12. CASE AnnounceFetch(f)
        BY <2>1, <2>2, <2>3, <2>12 DEF AnnounceFetch, FetchGoesTo, TokenInv, Known, serverVars, IdleFetch
    <2>13. QED
        BY <2>4, <2>5, <2>6, <2>7, <2>8, <2>9, <2>10, <2>11, <2>12
<1>3. CASE UNCHANGED vars
    BY <1>3 DEF vars, serverVars, TokenInv, Known
<1>4. QED
    BY <1>1, <1>2, <1>3 DEF Next

LEMMA LeafInvNext == TypeOK /\ TaskInv /\ TokenInv /\ LeafInv /\ [Next]_vars => LeafInv'
<1> SUFFICES ASSUME TypeOK, TaskInv, TokenInv, LeafInv, [Next]_vars
             PROVE  LeafInv'
    OBVIOUS
<1> USE DEF Version
<1>1. CASE TaskStep
    <2>1. PICK t \in Tasks : OthersKept(t) /\ Moves(t) /\ Writes(t)
        BY <1>1, TaskEffect
    <2>2. /\ repo \in Nat /\ NoToken.born = 0
          /\ \A u \in Tasks : /\ task[u].inputs \subseteq Nat
                             /\ task[u].token.born \in Nat
                             /\ task[u].token.born <= repo
          /\ changeToken.born \in Nat /\ changeToken.born <= repo
        BY DEF TypeOK, Task, Token, TokenInv, Known, NoToken
    <2>3. ASSUME NEW u \in Tasks, task'[u].state = "running", task'[u].command \in Leaf,
                 NEW v \in task'[u].inputs
          PROVE  task'[u].token.born <= v
        <3>1. CASE u # t
            BY <2>1, <2>3, <3>1 DEF OthersKept, Kept, Leaf, LeafInv
        <3>2. CASE u = t
            <4>1. CASE Proceeds(t)
                <5>1. CASE task[t].state = "missed"
                    BY <2>3, <3>2, <4>1, <5>1 DEF Proceeds, TaskInv
                <5>2. CASE task[t].state = "running"
                    BY <2>2, <2>3, <3>2, <4>1, <5>2 DEF Proceeds, LeafInv
                <5>3. QED
                    BY <4>1, <5>1, <5>2 DEF Proceeds
            <4>2. CASE ~Proceeds(t)
                BY <2>1, <2>3, <3>2, <4>2 DEF Moves, Starts, Hits, Ends, Idles, IdleTask
            <4>3. QED
                BY <4>1, <4>2
        <3>3. QED
            BY <3>1, <3>2
    <2>4. ASSUME NEW c \in Leaf, NEW v \in cache'[c].inputs
          PROVE  cache'[c].token.born <= v
        <3>1. c \in Commands
            BY DEF Leaf
        <3>2. \/ cache'[c] = cache[c]
              \/ cache'[c] = NoEntry
              \/ /\ Return(t) /\ c = task[t].command
                 /\ cache'[c] = [inputs |-> task[t].inputs, token |-> task[t].token]
            BY <2>1, <3>1, TaskTokens
        <3>3. CASE cache'[c] = cache[c]
            BY <2>4, <3>3 DEF LeafInv, LeafNotOlderThanToken
        <3>4. CASE cache'[c] = NoEntry
            BY <2>4, <3>4 DEF NoEntry
        <3>5. CASE /\ Return(t) /\ c = task[t].command
                   /\ cache'[c] = [inputs |-> task[t].inputs, token |-> task[t].token]
            BY <2>4, <3>5 DEF Return, LeafInv
        <3>6. QED
            BY <3>2, <3>3, <3>4, <3>5
    <2>5. QED
        BY <2>3, <2>4 DEF LeafInv, LeafNotOlderThanToken
<1>2. CASE FetchStep
    BY <1>2, FetchEffect DEF LeafInv, LeafNotOlderThanToken
<1>3. CASE UNCHANGED vars
    BY <1>3 DEF vars, LeafInv, LeafNotOlderThanToken
<1>4. QED
    BY <1>1, <1>2, <1>3 DEF Next

-----------------------------------------------------------------------------
(* ClearAll, as long as its calls do not overlap.                          *)

LEMMA TaskStepClearing ==
    ASSUME UNCHANGED <<serverVars, fetch, announced, overlapped>>, ClearInv
    PROVE  ClearInv'
    BY DEF ClearInv, Clearing, serverVars

\* A step of a fetch changes the state of that fetch only.
LEMMA FetchStepState ==
    ASSUME TypeOK, FetchStep
    PROVE  \E f \in Fetchers :
              /\ \A g \in Fetchers \ {f} : fetch'[g] = fetch[g]
              /\ \/ RequestGitFetch(f) \/ UpdateRefs(f) \/ GitFetchSucceeds(f)
                    \/ GitFetchFails(f)
                 \/ ReadSource(f)
                 \/ ReplaceSource(f)
                 \/ ReplaceToken(f)
                 \/ CancelOld(f)
                 \/ DisposeOld(f)
                 \/ AnnounceFetch(f)
<1> PICK f \in Fetchers :
             \/ RequestGitFetch(f)
             \/ UpdateRefs(f)
             \/ GitFetchSucceeds(f)
             \/ GitFetchFails(f)
             \/ ReadSource(f)
             \/ ReplaceSource(f)
             \/ ReplaceToken(f)
             \/ CancelOld(f)
             \/ DisposeOld(f)
             \/ AnnounceFetch(f)
    BY DEF FetchStep
<1>1. fetch \in [Fetchers -> Fetch]
    BY DEF TypeOK
<1>2. ASSUME NEW g \in Fetchers \ {f}
      PROVE  fetch'[g] = fetch[g]
    BY <1>1 DEF RequestGitFetch, UpdateRefs, GitFetchSucceeds, GitFetchFails, ReadSource,
           ReplaceSource, ReplaceToken, CancelOld, DisposeOld, AnnounceFetch, FetchGoesTo
<1>3. QED
    BY <1>2

LEMMA ClearInvNext == TypeOK /\ TaskInv /\ TokenInv /\ ClearInv /\ [Next]_vars => ClearInv'
<1> SUFFICES ASSUME TypeOK, TaskInv, TokenInv, ClearInv, [Next]_vars, ~overlapped'
             PROVE  ClearInv'
    BY DEF ClearInv
<1>1. CASE TaskStep
    BY <1>1, TaskStepFrame, TaskStepClearing
<1>2. CASE FetchStep
    <2>1. PICK f \in Fetchers :
              /\ \A g \in Fetchers \ {f} : fetch'[g] = fetch[g]
              /\ \/ RequestGitFetch(f) \/ UpdateRefs(f) \/ GitFetchSucceeds(f)
                    \/ GitFetchFails(f)
                 \/ ReadSource(f)
                 \/ ReplaceSource(f)
                 \/ ReplaceToken(f)
                 \/ CancelOld(f)
                 \/ DisposeOld(f)
                 \/ AnnounceFetch(f)
        BY <1>2, FetchStepState
    <2>2. /\ fetch \in [Fetchers -> Fetch] /\ fetch[f] \in Fetch
          /\ tokens \in Nat /\ source \in Token /\ cancelled \subseteq Token
        BY DEF TypeOK
    <2>3. ~overlapped
        BY <2>1 DEF RequestGitFetch, UpdateRefs, GitFetchSucceeds, GitFetchFails, ReadSource,
           ReplaceSource, ReplaceToken, CancelOld, DisposeOld, AnnounceFetch
    <2>4. /\ \A g, h \in Fetchers : Clearing(g) /\ Clearing(h) => g = h
          /\ source \notin cancelled
          /\ (\A g \in Fetchers : fetch[g].state # "replaceToken") => changeToken = source
          /\ \A g \in Fetchers :
                /\ fetch[g].state = "replaceSource" => fetch[g].old = source
                /\ fetch[g].state = "replaceToken" =>
                      fetch[g].new = source /\ fetch[g].old = changeToken
                /\ fetch[g].state \in {"replaceToken", "cancel"} => fetch[g].old # source
        BY <2>3 DEF ClearInv
    <2>5. CASE \/ RequestGitFetch(f) \/ UpdateRefs(f) \/ GitFetchSucceeds(f)
               \/ GitFetchFails(f) \/ AnnounceFetch(f)
        <3>1. UNCHANGED <<source, changeToken, cancelled>>
            BY <2>5 DEF RequestGitFetch, UpdateRefs, GitFetchSucceeds, GitFetchFails,
                        AnnounceFetch, serverVars
        <3>2. fetch'[f] = fetch[f] \/ fetch[f].state \in {"idle", "fetching", "announce"}
            BY <2>5 DEF RequestGitFetch, UpdateRefs, GitFetchSucceeds, GitFetchFails, AnnounceFetch
        <3>3. fetch'[f] = fetch[f] \/ fetch'[f].state \in {"idle", "fetching", "fetched"}
            BY <2>2, <2>5 DEF RequestGitFetch, UpdateRefs, GitFetchSucceeds, GitFetchFails,
                              AnnounceFetch, FetchGoesTo, IdleFetch, Fetch
        <3>4. ASSUME NEW g \in Fetchers
              PROVE  \/ fetch'[g] = fetch[g]
                     \/ /\ fetch'[g].state \in {"idle", "fetching", "fetched"}
                        /\ fetch[g].state \in {"idle", "fetching", "announce"}
            BY <2>1, <3>2, <3>3
        <3>5. QED
            BY <2>4, <3>1, <3>4 DEF ClearInv, Clearing
    <2>6. CASE ReadSource(f)
        <3>1. /\ \A g \in Fetchers : ~Clearing(g)
              /\ UNCHANGED <<source, changeToken, cancelled>>
              /\ fetch'[f].state = "replaceSource" /\ fetch'[f].old = source
            BY <2>2, <2>6 DEF ReadSource, serverVars, Fetch
        <3>2. QED
            BY <2>1, <2>4, <3>1 DEF ClearInv, Clearing
    <2>7. CASE ReplaceSource(f)
        <3>1. /\ source' = [id |-> tokens + 1, born |-> repo]
              /\ UNCHANGED <<changeToken, cancelled>>
              /\ fetch[f].state = "replaceSource"
              /\ fetch'[f].state = "replaceToken" /\ fetch'[f].old = fetch[f].old
              /\ fetch'[f].new = source'
            BY <2>2, <2>7 DEF ReplaceSource, Fetch
        <3>2. \A g \in Fetchers : Clearing(g) => g = f
            BY <2>4, <3>1 DEF Clearing
        <3>3. fetch[f].old = source /\ changeToken = source
            BY <2>4, <3>1, <3>2 DEF Clearing
        <3>4. source' # source /\ source' \notin cancelled
            BY <2>2, <3>1 DEF TokenInv, Known, Token
        <3>5. QED
            BY <2>1, <2>4, <3>1, <3>2, <3>3, <3>4 DEF ClearInv, Clearing
    <2>8. CASE ReplaceToken(f)
        <3>1. /\ changeToken' = fetch[f].new
              /\ UNCHANGED <<source, cancelled>>
              /\ fetch[f].state = "replaceToken"
              /\ fetch'[f].state = "cancel" /\ fetch'[f].old = fetch[f].old
            BY <2>2, <2>8 DEF ReplaceToken, FetchGoesTo, Fetch
        <3>2. \A g \in Fetchers : Clearing(g) => g = f
            BY <2>4, <3>1 DEF Clearing
        <3>3. QED
            BY <2>1, <2>4, <3>1, <3>2 DEF ClearInv, Clearing
    <2>9. CASE CancelOld(f)
        <3>1. /\ UNCHANGED <<source, changeToken>>
              /\ fetch[f].state = "cancel"
              /\ cancelled' \in {cancelled, cancelled \cup {fetch[f].old}}
              /\ fetch'[f].state \in {"dispose", "idle"}
            BY <2>2, <2>9 DEF CancelOld, FetchGoesTo, IdleFetch, Fetch
        <3>2. \A g \in Fetchers : Clearing(g) => g = f
            BY <2>4, <3>1 DEF Clearing
        <3>3. QED
            BY <2>1, <2>4, <3>1, <3>2 DEF ClearInv, Clearing
    <2>10. CASE DisposeOld(f)
        <3>1. /\ UNCHANGED <<source, changeToken, cancelled>>
              /\ fetch[f].state = "dispose"
              /\ fetch'[f].state = "announce"
            BY <2>2, <2>10 DEF DisposeOld, FetchGoesTo, Fetch
        <3>2. QED
            BY <2>1, <2>4, <3>1 DEF ClearInv, Clearing
    <2>11. QED
        BY <2>1, <2>5, <2>6, <2>7, <2>8, <2>9, <2>10
<1>3. CASE UNCHANGED vars
    BY <1>3, TaskStepClearing DEF vars
<1>4. QED
    BY <1>1, <1>2, <1>3 DEF Next

\* A fetch cancels a token before it loses sight of it.
LEMMA ReachableKept ==
    ASSUME TypeOK, TokenInv, ClearInv, FetchStep, ~overlapped, NEW tk,
           Reachable(tk), tk \notin cancelled'
    PROVE  Reachable(tk)'
<1>1. PICK f \in Fetchers :
          /\ \A g \in Fetchers \ {f} : fetch'[g] = fetch[g]
          /\ \/ RequestGitFetch(f) \/ UpdateRefs(f) \/ GitFetchSucceeds(f)
                \/ GitFetchFails(f)
             \/ ReadSource(f)
             \/ ReplaceSource(f)
             \/ ReplaceToken(f)
             \/ CancelOld(f)
             \/ DisposeOld(f)
             \/ AnnounceFetch(f)
    BY FetchStepState
<1>2. fetch \in [Fetchers -> Fetch] /\ fetch[f] \in Fetch
    BY DEF TypeOK
<1>3. CASE \/ RequestGitFetch(f) \/ UpdateRefs(f) \/ GitFetchSucceeds(f) \/ GitFetchFails(f)
           \/ AnnounceFetch(f) \/ ReadSource(f) \/ DisposeOld(f)
    <2>1. UNCHANGED source /\ (fetch'[f] = fetch[f]
                                 \/ fetch[f].state \notin {"replaceToken", "cancel"})
        BY <1>3 DEF RequestGitFetch, UpdateRefs, GitFetchSucceeds, GitFetchFails,
                    AnnounceFetch, ReadSource, DisposeOld, serverVars
    <2>2. QED
        BY <1>1, <2>1 DEF Reachable
<1>4. CASE ReplaceSource(f)
    <2>1. /\ fetch[f].state = "replaceSource" /\ fetch'[f].state = "replaceToken"
          /\ fetch'[f].old = fetch[f].old /\ fetch[f].old = source
        BY <1>2, <1>4 DEF ReplaceSource, Fetch, ClearInv
    <2>2. QED
        BY <1>1, <2>1 DEF Reachable
<1>5. CASE ReplaceToken(f)
    <2>1. /\ fetch'[f].state = "cancel" /\ fetch'[f].old = fetch[f].old /\ source' = source
        BY <1>2, <1>5 DEF ReplaceToken, FetchGoesTo, Fetch
    <2>2. QED
        BY <1>1, <2>1 DEF Reachable
<1>6. CASE CancelOld(f)
    <2>1. fetch[f].old \in cancelled' /\ source' = source
        BY <1>6 DEF CancelOld, TokenInv
    <2>2. QED
        BY <1>1, <2>1 DEF Reachable
<1>7. QED
    BY <1>1, <1>3, <1>4, <1>5, <1>6

\* History only grows.
LEMMA Monotone == TypeOK /\ [Next]_vars =>
                    /\ overlapped => overlapped'
                    /\ cancelled \subseteq cancelled'
                    /\ announced <= announced' /\ repo <= repo'
<1> SUFFICES ASSUME TypeOK, [Next]_vars
             PROVE  /\ overlapped => overlapped'
                    /\ cancelled \subseteq cancelled'
                    /\ announced <= announced' /\ repo <= repo'
    OBVIOUS
<1> USE DEF Version
<1>1. CASE TaskStep
    BY <1>1, TaskStepFrame DEF serverVars, TypeOK
<1>2. CASE FetchStep
    <2>1. PICK f \in Fetchers :
              \/ RequestGitFetch(f) \/ GitFetchSucceeds(f) \/ GitFetchFails(f)
              \/ UpdateRefs(f)
              \/ ReadSource(f)
              \/ ReplaceSource(f)
              \/ ReplaceToken(f)
              \/ CancelOld(f)
              \/ DisposeOld(f)
              \/ AnnounceFetch(f)
        BY <1>2 DEF FetchStep
    <2>2. overlapped => overlapped'
        BY <2>1 DEF RequestGitFetch, UpdateRefs, GitFetchSucceeds, GitFetchFails, ReadSource,
           ReplaceSource, ReplaceToken, CancelOld, DisposeOld, AnnounceFetch
    <2>3. cancelled \subseteq cancelled'
        BY <2>1 DEF RequestGitFetch, UpdateRefs, GitFetchSucceeds, GitFetchFails, ReadSource,
           ReplaceSource, ReplaceToken, CancelOld, DisposeOld, AnnounceFetch, serverVars
    <2>4. repo <= repo'
        BY <2>1 DEF RequestGitFetch, UpdateRefs, GitFetchSucceeds, GitFetchFails, ReadSource,
           ReplaceSource, ReplaceToken, CancelOld, DisposeOld, AnnounceFetch, serverVars, TypeOK
    <2>5. announced <= announced'
        BY <2>1 DEF RequestGitFetch, UpdateRefs, GitFetchSucceeds, GitFetchFails, ReadSource,
           ReplaceSource, ReplaceToken, CancelOld, DisposeOld, AnnounceFetch, TypeOK, Fetch
    <2>6. QED
        BY <2>2, <2>3, <2>4, <2>5
<1>3. CASE UNCHANGED vars
    BY <1>3 DEF vars, serverVars, TypeOK
<1>4. QED
    BY <1>1, <1>2, <1>3 DEF Next

LEMMA ReachInvNext ==
    TypeOK /\ TaskInv /\ TokenInv /\ ClearInv /\ ReachInv /\ [Next]_vars => ReachInv'
<1> SUFFICES ASSUME TypeOK, TaskInv, TokenInv, ClearInv, ReachInv, [Next]_vars, ~overlapped'
             PROVE  ReachInv'
    BY DEF ReachInv
<1>1. ~overlapped /\ cancelled \subseteq cancelled'
    BY Monotone
<1>2. CASE TaskStep
    <2>1. UNCHANGED <<serverVars, fetch>>
        BY <1>2, TaskStepFrame
    <2>2. PICK t \in Tasks : OthersKept(t) /\ Moves(t) /\ Writes(t)
        BY <1>2, TaskEffect
    <2>3. Reachable(changeToken)
        BY <1>1 DEF ClearInv, Reachable
    <2>4. ASSUME NEW c \in Commands, Live(c)'
          PROVE  Reachable(cache'[c].token)
        <3>1. \/ cache'[c] = cache[c]
              \/ cache'[c] = NoEntry
              \/ /\ Return(t) /\ c = task[t].command /\ c \in Cacheable
                 /\ task[t].token \notin cancelled
                 /\ cache'[c] = [inputs |-> task[t].inputs, token |-> task[t].token]
            BY <2>2, TaskTokens
        <3>2. CASE cache'[c] = cache[c]
            BY <1>1, <2>1, <2>4, <3>2 DEF Live, ReachInv, serverVars
        <3>3. CASE cache'[c] = NoEntry
            BY <2>4, <3>3 DEF Live, NoEntry
        <3>4. CASE /\ Return(t) /\ c = task[t].command /\ c \in Cacheable
                   /\ task[t].token \notin cancelled
                   /\ cache'[c] = [inputs |-> task[t].inputs, token |-> task[t].token]
            BY <1>1, <3>4 DEF Return, ReachInv
        <3>5. QED
            BY <3>1, <3>2, <3>3, <3>4
    <2>5. ASSUME NEW u \in Tasks, task'[u].state = "running", task'[u].command \in Cacheable,
                 task'[u].token \notin cancelled'
          PROVE  Reachable(task'[u].token)
        <3>1. CASE u # t
            BY <1>1, <2>1, <2>2, <2>5, <3>1 DEF OthersKept, Kept, ReachInv, serverVars
        <3>2. CASE u = t /\ Proceeds(t)
            BY <1>1, <2>1, <2>3, <2>5, <3>2 DEF Proceeds, ReachInv, serverVars
        <3>3. CASE u = t /\ ~Proceeds(t)
            BY <2>2, <2>5, <3>3 DEF Moves, Starts, Hits, Ends, Idles, IdleTask
        <3>4. QED
            BY <3>1, <3>2, <3>3
    <2>6. QED
        BY <2>1, <2>4, <2>5 DEF ReachInv, Reachable, serverVars
<1>3. CASE FetchStep
    <2>1. UNCHANGED <<task, cache>>
        BY <1>3, FetchEffect
    <2>2. ASSUME NEW c \in Commands, Live(c)'
          PROVE  Reachable(cache[c].token)'
        <3>1. Live(c) /\ cache[c].token \notin cancelled' /\ Reachable(cache[c].token)
            BY <1>1, <2>1, <2>2 DEF Live, ReachInv
        <3>2. QED
            BY <1>1, <1>3, <2>1, <3>1, ReachableKept DEF Reachable
    <2>3. ASSUME NEW t \in Tasks, task'[t].state = "running", task'[t].command \in Cacheable,
                 task'[t].token \notin cancelled'
          PROVE  Reachable(task[t].token)'
        <3>1. task[t].token \notin cancelled' /\ Reachable(task[t].token)
            BY <1>1, <2>1, <2>3 DEF ReachInv
        <3>2. QED
            BY <1>1, <1>3, <2>1, <3>1, ReachableKept DEF Reachable
    <2>4. QED
        BY <2>1, <2>2, <2>3 DEF ReachInv
<1>4. CASE UNCHANGED vars
    BY <1>1, <1>4 DEF vars, serverVars, ReachInv, Reachable, Live
<1>5. QED
    BY <1>2, <1>3, <1>4 DEF Next

LEMMA FloorInvNext == TypeOK /\ TokenInv /\ ClearInv /\ FloorInv /\ [Next]_vars => FloorInv'
<1> SUFFICES ASSUME TypeOK, TokenInv, ClearInv, FloorInv, [Next]_vars, ~overlapped'
             PROVE  FloorInv'
    BY DEF FloorInv
<1> USE DEF Version
<1>1. ~overlapped
    BY Monotone
<1>2. /\ announced <= source.born
      /\ \A f \in Fetchers :
            /\ fetch[f].state \in {"replaceToken", "cancel", "dispose", "announce"} =>
                  fetch[f].target <= source.born
            /\ fetch[f].state \in {"replaceToken", "cancel"} =>
                  /\ announced <= fetch[f].old.born
                  /\ \A g \in Fetchers : fetch[g].state = "announce" =>
                        fetch[g].target <= fetch[f].old.born
    BY <1>1 DEF FloorInv
<1>3. CASE TaskStep \/ UNCHANGED vars
    <2>1. UNCHANGED <<serverVars, fetch, announced>>
        BY <1>3, TaskStepFrame DEF vars
    <2>2. QED
        BY <1>2, <2>1 DEF FloorInv, serverVars
<1>4. CASE FetchStep
    <2>1. PICK f \in Fetchers :
              /\ \A g \in Fetchers \ {f} : fetch'[g] = fetch[g]
              /\ \/ RequestGitFetch(f) \/ UpdateRefs(f) \/ GitFetchSucceeds(f)
                    \/ GitFetchFails(f)
                 \/ ReadSource(f)
                 \/ ReplaceSource(f)
                 \/ ReplaceToken(f)
                 \/ CancelOld(f)
                 \/ DisposeOld(f)
                 \/ AnnounceFetch(f)
        BY <1>4, FetchStepState
    <2>2. /\ fetch \in [Fetchers -> Fetch] /\ fetch[f] \in Fetch
          /\ \A g \in Fetchers : fetch[g].target \in Nat /\ fetch[g].old.born \in Nat
          /\ repo \in Nat /\ announced \in Nat /\ source.born \in Nat
        BY DEF TypeOK, Fetch, Token
    <2>3. CASE RequestGitFetch(f) \/ UpdateRefs(f) \/ GitFetchSucceeds(f) \/ GitFetchFails(f)
               \/ ReadSource(f)
        <3>1. UNCHANGED <<source, announced>>
            BY <2>3 DEF RequestGitFetch, UpdateRefs, GitFetchSucceeds, GitFetchFails, ReadSource,
                        serverVars
        <3>2. \A g \in Fetchers :
                 fetch'[g] = fetch[g]
                 \/ fetch'[g].state \in {"idle", "fetching", "fetched", "replaceSource"}
            BY <2>1, <2>2, <2>3
            DEF RequestGitFetch, UpdateRefs, GitFetchSucceeds, GitFetchFails, ReadSource,
                FetchGoesTo, IdleFetch, Fetch
        <3>3. QED
            BY <1>2, <3>1, <3>2 DEF FloorInv
    <2>4. CASE ReplaceSource(f)
        <3>1. /\ source'.born = repo /\ UNCHANGED announced
              /\ fetch[f].state = "replaceSource" /\ fetch'[f].state = "replaceToken"
              /\ fetch'[f].old = source /\ fetch'[f].target = fetch[f].target
            BY <1>1, <2>2, <2>4 DEF ReplaceSource, Fetch, ClearInv
        <3>2. announced <= repo /\ \A g \in Fetchers : fetch[g].target <= repo
            BY DEF TokenInv
        <3>3. \A g \in Fetchers : fetch'[g].target = fetch[g].target
            BY <2>1, <3>1
        <3>4. \A g \in Fetchers : fetch'[g].state = "announce" => fetch[g].state = "announce"
            BY <2>1, <3>1
        <3>5. QED
            BY <1>2, <2>1, <3>1, <3>2, <3>3, <3>4 DEF FloorInv
    <2>5. CASE ReplaceToken(f)
        <3>1. /\ UNCHANGED <<source, announced>>
              /\ fetch[f].state = "replaceToken" /\ fetch'[f].state = "cancel"
              /\ fetch'[f].old = fetch[f].old /\ fetch'[f].target = fetch[f].target
            BY <2>2, <2>5 DEF ReplaceToken, FetchGoesTo, Fetch
        <3>2. QED
            BY <1>2, <2>1, <3>1 DEF FloorInv
    <2>6. CASE CancelOld(f)
        <3>1. /\ UNCHANGED <<source, announced>>
              /\ fetch[f].state = "cancel"
              /\ \/ fetch'[f].state = "idle"
                 \/ fetch'[f].state = "dispose" /\ fetch'[f].target = fetch[f].target
            BY <2>2, <2>6 DEF CancelOld, FetchGoesTo, IdleFetch, Fetch
        <3>2. QED
            BY <1>2, <2>1, <3>1 DEF FloorInv
    <2>7. CASE DisposeOld(f)
        <3>1. /\ UNCHANGED <<source, announced>>
              /\ fetch[f].state = "dispose" /\ fetch'[f].state = "announce"
              /\ fetch'[f].target = fetch[f].target
            BY <2>2, <2>7 DEF DisposeOld, FetchGoesTo, Fetch
        <3>2. \A g \in Fetchers : fetch'[g].state \notin {"replaceToken", "cancel"}
            BY <1>1, <2>1, <3>1 DEF ClearInv, Clearing
        <3>3. QED
            BY <1>2, <2>1, <3>1, <3>2 DEF FloorInv
    <2>8. CASE AnnounceFetch(f)
        <3>1. /\ UNCHANGED source /\ announced' \in {announced, fetch[f].target}
              /\ fetch[f].state = "announce" /\ fetch'[f].state = "idle"
            BY <2>2, <2>8 DEF AnnounceFetch, IdleFetch, serverVars, Fetch
        <3>2. QED
            BY <1>2, <2>1, <3>1 DEF FloorInv
    <2>9. QED
        BY <2>1, <2>3, <2>4, <2>5, <2>6, <2>7, <2>8
<1>5. QED
    BY <1>3, <1>4 DEF Next

-----------------------------------------------------------------------------
(* The safety properties.                                                  *)

\* A leaf entry that can be served is at least as new as every announcement.
LEMMA FreshLeafFollows == TypeOK /\ LeafInv /\ ReachInv /\ FloorInv => FreshLeaf
<1> SUFFICES ASSUME TypeOK, LeafInv, ReachInv, FloorInv, ~overlapped,
                    NEW c \in Leaf, Live(c), NEW v \in cache[c].inputs
             PROVE  announced <= v
    BY DEF FreshLeaf
<1>1. /\ c \in Commands /\ cache[c].token.born \in Nat /\ v \in Nat /\ announced \in Nat
    BY DEF Leaf, TypeOK, Entry, Token, Version
<1>2. announced <= cache[c].token.born
    BY <1>1 DEF ReachInv, FloorInv, Reachable
<1>3. cache[c].token.born <= v
    BY DEF LeafInv, LeafNotOlderThanToken
<1>4. QED
    BY <1>1, <1>2, <1>3

LEMMA ResponseInvNext ==
    TypeOK /\ TaskInv /\ TokenInv /\ ResponseInv /\ FreshLeaf /\ [Next]_vars => ResponseInv'
<1> SUFFICES ASSUME TypeOK, TaskInv, TokenInv, ResponseInv, FreshLeaf, [Next]_vars
             PROVE  ResponseInv'
    OBVIOUS
<1> USE DEF Version
<1>1. CASE TaskStep
    <2>1. PICK t \in Tasks : OthersKept(t) /\ Moves(t) /\ Writes(t)
        BY <1>1, TaskEffect
    <2>2. UNCHANGED <<announced, overlapped>>
        BY <1>1, TaskStepFrame
    <2>3. /\ repo \in Nat /\ announced \in Nat /\ announced <= repo
          /\ \A u \in Tasks : task[u].inputs \subseteq Nat /\ task[u].since \in Nat
        BY DEF TypeOK, Task, TokenInv
    <2>4. ASSUME NEW u \in Tasks
          PROVE  task'[u].since <= announced
        <3>1. CASE u # t
            BY <2>1, <3>1 DEF OthersKept, Kept, ResponseInv
        <3>2. CASE u = t
            BY <2>1, <2>3, <3>2
            DEF Moves, Starts, Hits, Ends, Idles, Proceeds, IdleTask, ResponseInv
        <3>3. QED
            BY <3>1, <3>2
    <2>5. ASSUME ~overlapped, NEW u \in Tasks, task'[u].state \in {"running", "done"},
                 task'[u].command \in Leaf, NEW v \in task'[u].inputs
          PROVE  task'[u].since <= v
        <3>1. CASE u # t
            BY <2>1, <2>5, <3>1 DEF OthersKept, Kept, Leaf, ResponseInv
        <3>2. CASE u = t /\ Proceeds(t)
            <4>1. CASE task[t].state = "missed"
                BY <2>5, <3>2, <4>1 DEF Proceeds, TaskInv
            <4>2. CASE task[t].state = "running"
                <5>1. task[t].since <= repo
                    BY <2>3 DEF ResponseInv
                <5>2. QED
                    BY <2>5, <3>2, <4>2, <5>1 DEF Proceeds, ResponseInv
            <4>3. QED
                BY <3>2, <4>1, <4>2 DEF Proceeds
        <3>3. CASE u = t /\ Ends(t)
            BY <2>5, <3>3 DEF Ends, ResponseInv
        <3>4. CASE u = t /\ \E c \in Commands : Hits(t, c)
            BY <2>5, <3>4 DEF Hits, FreshLeaf
        <3>5. CASE u = t /\ ~Proceeds(t) /\ ~Ends(t) /\ ~\E c \in Commands : Hits(t, c)
            BY <2>1, <2>5, <3>5 DEF Moves, Starts, Idles, IdleTask
        <3>6. QED
            BY <3>1, <3>2, <3>3, <3>4, <3>5
    <2>6. QED
        BY <2>2, <2>4, <2>5 DEF ResponseInv
<1>2. CASE FetchStep \/ UNCHANGED vars
    <2>1. UNCHANGED task
        BY <1>2, FetchEffect DEF vars
    <2>2. /\ overlapped => overlapped'
          /\ announced <= announced'
        BY Monotone
    <2>3. announced \in Nat /\ announced' \in Nat /\ \A t \in Tasks : task[t].since \in Nat
        BY TypeNext DEF TypeOK, Task
    <2>4. QED
        BY <2>1, <2>2, <2>3 DEF ResponseInv
<1>3. QED
    BY <1>1, <1>2 DEF Next

LEMMA IInvInit == Init => IInv
<1> SUFFICES ASSUME Init
             PROVE  IInv
    OBVIOUS
<1>1. TypeOK
    BY TypeInit
<1>2. TaskInv
    BY CommandsAssumption DEF Init, TaskInv, IdleTask
<1>3. TokenInv
    BY DEF Init, TokenInv, Known, FirstToken, NoToken, NoEntry, IdleTask, IdleFetch
<1>4. LeafInv
    BY DEF Init, LeafInv, LeafNotOlderThanToken, Leaf, NoEntry, IdleTask
<1>5. ClearInv
    BY DEF Init, ClearInv, Clearing, IdleFetch
<1>6. ReachInv
    BY DEF Init, ReachInv, Live, NoEntry, IdleTask
<1>7. FloorInv
    BY DEF Init, FloorInv, FirstToken, IdleFetch
<1>8. ResponseInv
    BY DEF Init, ResponseInv, IdleTask
<1>9. QED
    BY <1>1, <1>2, <1>3, <1>4, <1>5, <1>6, <1>7, <1>8 DEF IInv

LEMMA IInvNext == IInv /\ [Next]_vars => IInv'
    BY TypeNext, TaskInvNext, TokenInvNext, LeafInvNext, ClearInvNext, ReachInvNext, FloorInvNext,
       ResponseInvNext, FreshLeafFollows
    DEF IInv

\* Every entry, command and response is accounted for in every reachable state.
THEOREM Invariance == Spec => []IInv
    BY IInvInit, IInvNext, PTL DEF Spec

\* However requests, fetches and clears interleave, a leaf entry is at least as
\* new as its token: changeToken is read before the command is invoked.
THEOREM LeafEntriesFollowTheirToken == Spec => []LeafNotOlderThanToken
<1>1. IInv => LeafNotOlderThanToken
    BY DEF IInv, LeafInv
<1>2. QED
    BY <1>1, Invariance, PTL

\* Once GitFetched is sent, no leaf result from before that fetch is served.
THEOREM AnnouncedFetchesAreVisible == Spec => []FreshLeaf
<1>1. IInv => FreshLeaf
    BY FreshLeafFollows DEF IInv
<1>2. QED
    BY <1>1, Invariance, PTL

\* A controller is answered from data no older than the last announcement
\* before it asked.
THEOREM ResponsesAreFresh == Spec => []FreshResponse
<1>1. IInv => FreshResponse
    BY DEF IInv, ResponseInv, FreshResponse
<1>2. QED
    BY <1>1, Invariance, PTL

\* No entry escapes the next ClearAll.
THEOREM EveryEntryIsClearable == Spec => []Clearable
<1>1. IInv => Clearable
    BY DEF IInv, ReachInv, Reachable, Clearable
<1>2. QED
    BY <1>1, Invariance, PTL

\* Between clears, new entries hang on the source that is live.
THEOREM CacheStaysUsable == Spec => []CacheUsable
<1>1. IInv => CacheUsable
    BY DEF IInv, ClearInv, Clearing, CacheUsable
<1>2. QED
    BY <1>1, Invariance, PTL

=============================================================================
