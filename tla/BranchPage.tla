----------------------------- MODULE BranchPage -----------------------------
(***************************************************************************)
(* The page of one or more branches (ui/src/pages/branch-details): what it *)
(* renders of the query cache, its three panels, and the user who selects  *)
(* branches in the URL while loads are in flight and git is fetched.       *)
(***************************************************************************)
EXTENDS BranchRules, Subsequences

CONSTANTS
    Entries            \* the selections a user may come with

ASSUME EntriesAssumption == Entries \subseteq Seq(Branches)

VARIABLES
    url,       \* the names of the location
    view,      \* "loading", "shown", or "error", the fallback of the ErrorBoundary
    page,      \* the last render: [names, shown], shown being the details of each observed branch
    tab,       \* the selected tab; the panels of the others are not mounted
    form,      \* state of the details panel: [main, up]
    analysis,  \* branch of the selection -> [stage, found, others], while recommendations are shown
    offer      \* inspect-conflicts: "loading", "offered" or "none", while actions are shown

pageVars == <<url, view, page, tab, form, analysis, offer>>
vars == <<cacheVars, pageVars>>

None == "none"
Tabs == {"details", "recommendations", "actions"}
NoPage == [names |-> <<>>, shown |-> [n \in {} |-> n]]
NoForm == [main |-> None, up |-> None]
NoAnalysis == [n \in {} |-> n]

Cached == [n \in {b \in Branches : HasData(DetailsOf(b))} |-> data[DetailsOf(n)]]
Content(n) == IF HasData(DetailsOf(n)) THEN <<data[DetailsOf(n)]>> ELSE <<>>
Main(n) == page.shown[n][1]

(* What InspectConflicts shows is observed, once it is offered.            *)
InspectedConflicts == IF offer = "offered" THEN {ConflictDetails(page.names)} ELSE {}

ObservedBranches == {DetailsOf(n) : n \in DOMAIN page.shown}
Observed ==
    {DetailsOf(n) : n \in DOMAIN page.shown}
    \cup InspectedConflicts

Init ==
    /\ CacheInit
    /\ url \in Entries
    /\ view = "loading" /\ page = NoPage /\ tab = "details"
    /\ form = NoForm /\ analysis = NoAnalysis /\ offer = None

-----------------------------------------------------------------------------
(* The panels.  Mounting one starts its state anew; a render gives it new  *)
(* branches, so recommendations and actions are worked out again.          *)
NewForm(names) == IF names = <<>> THEN NoForm ELSE [main |-> names[1], up |-> None]

FormOf(t, names, remount) ==
    IF t # "details" THEN NoForm ELSE IF remount THEN NewForm(names) ELSE form

PanelQueries(t, names) ==
    CASE t = "recommendations" /\ names # <<>> -> {UpstreamData}
      [] t = "actions" -> {ConflictDetails(names)}
      [] OTHER -> {}

NewAnalysis(newPage) ==
    [n \in ToSet(newPage.names) |->
        [stage |-> "upstream", found |-> RemoveUnused(n, newPage.shown[n][1]), others |-> NoAnalysis]]

AnalysisOfNames(t, newPage, remount) ==
    CASE t # "recommendations" -> NoAnalysis
      [] t = "recommendations" /\ remount -> NewAnalysis(newPage)
      [] OTHER -> analysis

AnalysisOf(t, newPage, remount) == IF t = "recommendations" THEN NewAnalysis(newPage) ELSE NoAnalysis

OfferOf(t) == IF t = "actions" THEN "loading" ELSE None

StartPanel(t, newPage, remount) ==
    /\ form' = FormOf(t, newPage.names, remount)
    /\ analysis' = AnalysisOf(t, newPage, remount)
    /\ offer' = OfferOf(t)

(* DetailsPanel needs a branch, and the one that is selected in its form   *)
(* among them: otherwise rendering throws.                                 *)
Throws(t, names, remount) == t = "details" /\ FormOf(t, names, remount).main \notin ToSet(names)

Fallback ==
    /\ view' = "error"
    /\ page' = NoPage /\ tab' = "details"
    /\ form' = NoForm /\ analysis' = NoAnalysis /\ offer' = None

-----------------------------------------------------------------------------
(* Rendering: at first, when the URL has other names, and when details of  *)
(* an observed branch have another value.  Other names wait until all of   *)
(* their branches have data; the page before them is rendered meanwhile.   *)
SuspendedByFirst == url # <<>> /\ ~HasData(DetailsOf(url[1]))
Suspended == \E n \in ToSet(url) : ~HasData(DetailsOf(n))

ErrorOfMain == \E n \in ToSet(url) : ~HasData(DetailsOf(n)) /\ DetailsOf(n) \in failed

Names == IF Suspended THEN page.names ELSE url

OutdatedSelection ==
    \/ view = "loading" \/ Names # page.names
    \/ \E n \in ToSet(page.names) : page.shown[n] # Content(n)

Outdated ==
    \/ view = "loading" \/ Names # page.names
    \/ \E n \in DOMAIN page.shown : page.shown[n] # Content(n)

(* Tab.Panels has the selected names as its key.                           *)
KeyOfData == TRUE
KeyOfNothing == view # "shown"
KeyChanges == view # "shown" \/ Names # page.names

NewPages ==
    {[names |-> Names, shown |-> [n \in relevant |-> Content(n)]] :
        relevant \in GetRelevantBranchNames(ToSet(Names), Cached)}

Renders ==
    /\ view # "error" /\ ~ErrorOfMain
    /\ Suspended => view = "shown"
    /\ Outdated

RenderPage ==
    /\ Renders
    /\ ~Throws(tab, Names, KeyChanges)
    /\ view' = "shown"
    /\ \E newPage \in NewPages :
         LET mounted == {DetailsOf(n) : n \in DOMAIN newPage.shown \ DOMAIN page.shown} \cup PanelQueries(tab, Names)
         IN /\ page' = newPage
            /\ StartPanel(tab, newPage, KeyChanges)
            /\ Begin({q \in mounted : ~Fresh(q)})
    /\ UNCHANGED <<world, data, invalid, events, url, tab>>

RenderThrows ==
    /\ \/ view # "error" /\ ErrorOfMain
       \/ Renders /\ Throws(tab, Names, KeyChanges)
    /\ Fallback
    /\ UNCHANGED <<cacheVars, url>>

(* Another location resets the ErrorBoundary.  Rendering it asks for the   *)
(* selected branches without data, unless their loading failed before.     *)
Navigate(names) ==
    /\ url' = names
    /\ view' = IF view = "error" /\ names # url THEN "loading" ELSE view
    /\ Begin({DetailsOf(n) : n \in {m \in ToSet(names) : ~HasData(DetailsOf(m)) /\ DetailsOf(m) \notin failed}})
    /\ UNCHANGED <<world, data, invalid, page, tab, form, analysis, offer>>

(* The first load of the page.                                             *)
Open ==
    /\ view = "loading" /\ DOMAIN load = {} /\ DOMAIN data = {} /\ failed = {}
    /\ Navigate(url)
    /\ UNCHANGED events

(* onClickNode: the handler has the names that are rendered.               *)
ClickNode(n, ctrl) ==
    /\ Event /\ view = "shown"
    /\ Navigate(IF ctrl THEN Append(page.names, n) ELSE <<n>>)

(* The header's search dialog takes a branch off the URL.                  *)
Unselect(n) == Event /\ Navigate(Only(url, Branches \ {n}))

ChooseTab(t) ==
    /\ Event /\ view = "shown" /\ t # tab
    /\ IF Throws(t, page.names, TRUE) THEN Fallback /\ UNCHANGED <<load, failed>>
       ELSE /\ tab' = t /\ StartPanel(t, page, TRUE)
            /\ Begin({q \in PanelQueries(t, page.names) : ~Fresh(q)})
            /\ UNCHANGED <<view, page>>
    /\ UNCHANGED <<world, data, invalid, url>>

ChooseBranch(choice) ==
    /\ Event /\ view = "shown" /\ tab = "details" /\ form # choice
    /\ form' = choice
    /\ UNCHANGED <<world, data, load, invalid, failed, url, view, page, tab, analysis, offer>>

ChooseMain(n) == ChooseBranch([form EXCEPT !.main = n])
ChooseUpstream(u) == ChooseBranch([form EXCEPT !.up = u])

-----------------------------------------------------------------------------
(* pull-upstream and remove-invalid-integration go on when upstream data   *)
(* is there; the former asks for the details of other branches.            *)
Analyze(n) ==
    /\ n \in DOMAIN analysis /\ analysis[n].stage = "upstream"
    /\ Idle(UpstreamData) /\ HasData(UpstreamData)
    /\ LET up == data[UpstreamData]
           sure == analysis[n].found \cup RemoveInvalid(n, Main(n), up)
           others == OtherUpstreams(n, Main(n), up)
       IN IF NeedsReintegration(n, up, Cached)
          THEN /\ analysis' = [analysis EXCEPT ![n] = [stage |-> "others", found |-> sure, others |-> others]]
               /\ Begin({q \in {DetailsOf(u) : u \in UNION {others[i] : i \in DOMAIN others}} : ~Fresh(q)})
          ELSE /\ analysis' = [analysis EXCEPT ![n] = [stage |-> "done", others |-> NoAnalysis,
                                   found |-> sure \cup PullUpstream(n, Main(n), up, Cached)]]
               /\ UNCHANGED <<load, failed>>
    /\ UNCHANGED <<world, data, invalid, events, url, view, page, tab, form, offer>>

OthersOf(a) == UNION {a.others[i] : i \in DOMAIN a.others}

FinishReintegration(n) ==
    /\ n \in DOMAIN analysis /\ analysis[n].stage = "others"
    /\ \A u \in OthersOf(analysis[n]) : Idle(DetailsOf(u)) /\ HasData(DetailsOf(u))
    /\ LET others == analysis[n].others
           candidates == {i \in DOMAIN others : \A u \in others[i] : ~data[DetailsOf(u)].unmerged}
           found == IF candidates = {} THEN ConflictsWithMain(n, Main(n)) ELSE SuggestReintegration(n, candidates)
       IN analysis' = [analysis EXCEPT ![n].stage = "done", ![n].found = @ \cup found]
    /\ UNCHANGED <<cacheVars, url, view, page, tab, form, offer>>

(* inspect-conflicts; what it offers observes the conflicts itself.        *)
ProvideAction ==
    LET q == ConflictDetails(page.names)
    IN /\ offer = "loading"
       /\ Idle(q) /\ HasData(q)
       /\ offer' = IF data[q] THEN "offered" ELSE None
       /\ Begin({p \in {q} : data[q] /\ ~Fresh(q)})
       /\ UNCHANGED <<world, data, invalid, events, url, view, page, tab, form, analysis>>

-----------------------------------------------------------------------------
(* A rule that awaits a load that fails, or is cancelled for another, ends *)
(* without a recommendation, and nobody is told.                           *)
Awaits(a, q) ==
    \/ a.stage = "upstream" /\ q = UpstreamData
    \/ a.stage = "others" /\ \E u \in OthersOf(a) : q = DetailsOf(u)

Rejected(queries) ==
    [n \in DOMAIN analysis |->
        IF \E q \in queries : Awaits(analysis[n], q) THEN [analysis[n] EXCEPT !.stage = "failed"] ELSE analysis[n]]

GitFetched ==
    /\ Fetch(Observed)
    /\ analysis' = Rejected(Restarted(Observed) \cap DOMAIN load)
    /\ UNCHANGED <<url, view, page, tab, form, offer>>

Fail(q) ==
    /\ LoadFails(q)
    /\ analysis' = Rejected({q})
    /\ offer' = IF offer = "loading" /\ q = ConflictDetails(page.names) THEN None ELSE offer
    /\ UNCHANGED <<url, view, page, tab, form>>

Receive(q) == Arrive(q) /\ UNCHANGED pageVars

User ==
    \/ \E n \in DOMAIN page.shown, ctrl \in BOOLEAN : page.shown[n] # <<>> /\ ClickNode(n, ctrl)
    \/ \E n \in ToSet(url) : Unselect(n)
    \/ \E t \in Tabs : ChooseTab(t)
    \/ \E n \in ToSet(page.names) : ChooseMain(n)
    \/ form.main \in ToSet(page.names) /\ \E u \in UpstreamNames(Main(form.main)) : ChooseUpstream(u)

Program ==
    \/ Open \/ RenderPage \/ RenderThrows \/ ProvideAction
    \/ \E n \in DOMAIN analysis : Analyze(n) \/ FinishReintegration(n)

Network == \E q \in DOMAIN load : Receive(q)
Settle == Network \/ Program

Next == User \/ Settle \/ GitFetched \/ \E q \in DOMAIN load : Fail(q)

(* React renders what changed, promises go on when they are settled, and   *)
(* the server answers every request or the browser gives up on it; between *)
(* events there are finitely many such steps, so that no order of them is  *)
(* assumed.                                                                *)
Spec == Init /\ [][Next]_vars /\ WF_vars(Settle)
-----------------------------------------------------------------------------
TypeOK ==
    /\ url \in Seq(Branches) /\ page.names \in Seq(Branches)
    /\ view \in {"loading", "shown", "error"} /\ tab \in Tabs
    /\ DOMAIN page.shown \subseteq Branches
    /\ view = "shown" => \A n \in ToSet(page.names) : page.shown[n] # <<>>
    /\ form.main \in Branches \cup {None} /\ form.up \in Branches \cup {None}
    /\ \A n \in DOMAIN analysis : analysis[n].stage \in {"upstream", "others", "done", "failed"}
    /\ offer \in {"loading", "offered", None}
    /\ invalid \subseteq DOMAIN data /\ events \in 0..MaxEvents

(* However the selection and its data change under the panels, rendering   *)
(* fails only for a location without names, or with a branch whose details *)
(* could not be loaded.                                                    *)
PageSurvives == view = "error" => url = <<>> \/ ErrorOfMain

(* "Key forces remount of all panels when main branches change" (branch-   *)
(* details/index.tsx:75), and only then: what the user chose in the form   *)
(* stays while the same selection is loaded again and rendered.            *)
RefreshKeepsChoice ==
    [][view = "shown" /\ view' = "shown" /\ page'.names = page.names /\ events' = events => form' = form]_vars

(* Once fetches and the user have stopped, the graph shows the selected    *)
(* branches, what lies up of them and what lies down of them, all of it or *)
(* more than the limit, and nothing else, with their current details;      *)
(* loads that were lost are left out.                                      *)
Closure(names) ==
    LET ups == Worlds[world].up
        above == UNION {AllUpstream(ups, n) : n \in names}
        below == {b \in Branches : AllUpstream(ups, b) \cap names # {}}
    IN [above |-> names \cup above, below |-> names \cup below]

GraphIsComplete ==
    LET c == Closure(ToSet(page.names))
        shown == DOMAIN page.shown
        UpToLimit(S) == S \subseteq shown \/ Cardinality(S \cap shown) > UpstreamLimit
    IN /\ url = page.names
       /\ ToSet(page.names) \subseteq shown /\ shown \subseteq c.above \cup c.below
       /\ UpToLimit(c.above) /\ UpToLimit(c.below)
       /\ \A n \in shown : page.shown[n] = <<Answer(world, DetailsOf(n))>>

SomeDetailsLost == \E b \in Branches : Lost(DetailsOf(b))

GraphCompletes == <>[](view = "shown" => SomeDetailsLost \/ GraphIsComplete)

(* Once fetches and the user have stopped, a selected branch whose         *)
(* upstream branches are all on display has the recommendations that       *)
(* follow from their current state, though these were worked out from a    *)
(* cache in the middle of loads.  Either answer is taken for the branch    *)
(* whose conflict an integration branch may resolve.  Left out, for it     *)
(* does not hold of them, are details that were lost, upstream data in the *)
(* cache that is out of date, which nothing observes, and a branch whose   *)
(* analysis was cut off: a rule that awaits a load which fails, or which a *)
(* fetch cancels to begin it again (pull-upstream.ts:104), is rejected,    *)
(* and stays so for good if the data that comes then is what was there.    *)
CutOff(n) == analysis[n].stage = "failed"

RecommendationsAreCurrent ==
    \A n \in {m \in DOMAIN analysis : ~CutOff(m) /\ AllUpstream(Worlds[world].up, m) \subseteq DOMAIN page.shown} :
        LET up == Worlds[world].up
            now == [b \in Branches |-> BranchDetails(Worlds[world], b)]
            sure == RemoveUnused(n, now[n]) \cup RemoveInvalid(n, now[n], up)
            candidates == DOMAIN OtherUpstreams(n, now[n], up)
        IN /\ analysis[n].stage = "done"
           /\ IF NeedsReintegration(n, up, now)
              THEN \/ analysis[n].found = sure \cup ConflictsWithMain(n, now[n])
                   \/ \E C \in SUBSET candidates \ {{}} : analysis[n].found = sure \cup SuggestReintegration(n, C)
              ELSE analysis[n].found = sure \cup PullUpstream(n, now[n], up, now)

UpstreamDataLost == Idle(UpstreamData) /\ (UpstreamData \in failed \/ (HasData(UpstreamData) /\ data[UpstreamData] # Worlds[world].up))

RecommendationsCatchUp ==
    <>[](SomeDetailsLost \/ UpstreamDataLost \/ RecommendationsAreCurrent)

(* Conflicts that are offered for inspection are those of the current      *)
(* state, once fetches have stopped.                                       *)
OfferedConflictsAreCurrent ==
    LET q == ConflictDetails(page.names)
    IN <>[](offer = "loading" => Lost(q)) /\ <>[](offer = "offered" => Lost(q) \/ data[q] = Answer(world, q))
=============================================================================
