-------------------------- MODULE BranchPageProofs --------------------------
(***************************************************************************)
(* The page of the branches for any branches, any history of the server    *)
(* and any order of loads, fetches, renders and acts of the user: it       *)
(* survives them, and a form keeps what was chosen in it.                  *)
(***************************************************************************)
EXTENDS BranchPage, SubsequenceProofs

-----------------------------------------------------------------------------
\* The query cache.  What it has, or is about to have, the server answered at
\* some moment; a query that failed is not in flight.
CacheInv ==
    /\ world \in 1..Len(Worlds)
    /\ \A q \in DOMAIN data : \E w \in DOMAIN Worlds : data[q] = Answer(w, q)
    /\ \A q \in DOMAIN load : load[q] = <<>> \/ \E w \in DOMAIN Worlds : load[q] = <<Answer(w, q)>>
    /\ invalid \subseteq DOMAIN data /\ events \in 0..MaxEvents
    /\ failed \cap DOMAIN load = {}

LEMMA WorldsExist == 1 \in 1..Len(Worlds) /\ DOMAIN Worlds = 1..Len(Worlds) /\ Len(Worlds) \in Nat
  BY WorldsAssumption

LEMMA DetailsType ==
    ASSUME NEW w \in DOMAIN Worlds, NEW b \in Branches
    PROVE  /\ Answer(w, DetailsOf(b)) = BranchDetails(Worlds[w], b)
           /\ UpstreamNames(Answer(w, DetailsOf(b))) \subseteq Branches
<1>1. DetailsOf(b)[1] = "branch-details" /\ DetailsOf(b)[2] = b
  BY DEF DetailsOf
<1>2. Answer(w, DetailsOf(b)) = BranchDetails(Worlds[w], b)
  BY <1>1, Zenon DEF Answer
<1>3. Worlds[w].up[b] \subseteq Branches
  <2>1. Worlds[w] \in WorldType
    BY WorldsAssumption
  <2> QED
    BY <2>1 DEF WorldType
<1>4. UpstreamNames(BranchDetails(Worlds[w], b)) = Worlds[w].up[b]
  <2> DEFINE entry(u) == [name |-> u, behind |-> <<b, u>> \in Worlds[w].behind, conflict |-> <<b, u>> \in Worlds[w].conflict]
  <2>1. BranchDetails(Worlds[w], b).upstream = {entry(u) : u \in Worlds[w].up[b]}
    BY DEF BranchDetails
  <2>2. \A u : entry(u).name = u
    OBVIOUS
  <2> HIDE DEF entry
  <2> QED
    BY <2>1, <2>2 DEF UpstreamNames
<1> QED
  BY <1>2, <1>3, <1>4

LEMMA CacheInitInv == CacheInit => CacheInv
  BY WorldsExist, EventsAssumption DEF CacheInit, CacheInv

\* A query that is begun is in flight, and its failure forgotten.
LEMMA BeginStep ==
    ASSUME CacheInv, NEW queries, Begin(queries), UNCHANGED <<world, data, invalid>>, events' \in 0..MaxEvents
    PROVE  CacheInv' /\ DOMAIN data' = DOMAIN data /\ failed' = failed \ {q \in queries : Idle(q)}
<1>1. /\ DOMAIN load' = DOMAIN load \cup queries
      /\ \A q \in DOMAIN load' : load'[q] = IF q \in DOMAIN load THEN load[q] ELSE <<>>
      /\ failed' = failed \ {q \in queries : Idle(q)}
  BY DEF Begin, Idle
<1>2. failed' \cap DOMAIN load' = {}
  BY <1>1 DEF CacheInv, Idle
<1>3. \A q \in DOMAIN load' : load'[q] = <<>> \/ \E w \in DOMAIN Worlds : load'[q] = <<Answer(w, q)>>
  BY <1>1 DEF CacheInv
<1> QED
  BY <1>1, <1>2, <1>3 DEF CacheInv

LEMMA FetchStep ==
    ASSUME CacheInv, NEW observed, Fetch(observed)
    PROVE  /\ CacheInv' /\ DOMAIN data' = DOMAIN data
           /\ events' = events + 1 /\ failed' = failed \ Restarted(observed)
<1> DEFINE kept == DOMAIN load \ Restarted(observed)
<1>1. PICK answered \in SUBSET {q \in kept : load[q] = <<>>} :
        load' = [q \in kept \cup Restarted(observed) |->
                   IF q \in answered THEN <<Answer(world, q)>>
                   ELSE IF q \in kept THEN load[q] ELSE <<>>]
  BY DEF Fetch
<1>2. /\ events < MaxEvents /\ events' = events + 1 /\ world < Len(Worlds) /\ world' = world + 1
      /\ invalid' = DOMAIN data /\ data' = data /\ failed' = failed \ Restarted(observed)
  BY DEF Fetch, Event
<1>3. world' \in 1..Len(Worlds) /\ events' \in 0..MaxEvents /\ world \in DOMAIN Worlds
  BY <1>2, WorldsExist, EventsAssumption DEF CacheInv
<1>4. \A q \in DOMAIN load' : load'[q] = <<>> \/ \E w \in DOMAIN Worlds : load'[q] = <<Answer(w, q)>>
  BY <1>1, <1>3 DEF CacheInv
<1>5. failed' \cap DOMAIN load' = {}
  BY <1>1, <1>2 DEF CacheInv
<1> QED
  BY <1>2, <1>3, <1>4, <1>5 DEF CacheInv

LEMMA ArriveStep ==
    ASSUME CacheInv, NEW q, Arrive(q)
    PROVE  CacheInv' /\ DOMAIN data' = DOMAIN data \cup {q} /\ failed' = failed
<1>1. /\ q \in DOMAIN load /\ DOMAIN load' = DOMAIN load \ {q}
      /\ \A p \in DOMAIN load' : load'[p] = load[p]
      /\ DOMAIN data' = DOMAIN data \cup {q} /\ \A p \in DOMAIN data \ {q} : data'[p] = data[p]
      /\ data'[q] = IF load[q] = <<>> THEN Answer(world, q) ELSE load[q][1]
      /\ invalid' = invalid \ {q} /\ failed' = failed \ {q} /\ UNCHANGED <<world, events>>
  BY DEF Arrive, Idle, WithoutLoad
<1>2. \E w \in DOMAIN Worlds : data'[q] = Answer(w, q)
  <2>1. CASE load[q] = <<>>
    BY <1>1, <2>1, WorldsExist DEF CacheInv
  <2>2. CASE load[q] # <<>>
    <3>1. PICK w \in DOMAIN Worlds : load[q] = <<Answer(w, q)>>
      BY <1>1, <2>2 DEF CacheInv
    <3> QED
      BY <1>1, <2>2, <3>1
  <2> QED
    BY <2>1, <2>2
<1>3. \A p \in DOMAIN data' : \E w \in DOMAIN Worlds : data'[p] = Answer(w, p)
  BY <1>1, <1>2 DEF CacheInv
<1> QED
  BY <1>1, <1>3 DEF CacheInv

LEMMA FailStep ==
    ASSUME CacheInv, NEW q, LoadFails(q)
    PROVE  CacheInv' /\ data' = data /\ failed' = failed \cup {q} /\ events' = events + 1
<1>1. /\ q \in DOMAIN load /\ DOMAIN load' = DOMAIN load \ {q}
      /\ \A p \in DOMAIN load' : load'[p] = load[p]
      /\ failed' = failed \cup {q} /\ events < MaxEvents /\ events' = events + 1
      /\ UNCHANGED <<world, data, invalid>>
  BY DEF LoadFails, Event, Idle, WithoutLoad
<1>2. events' \in 0..MaxEvents
  BY <1>1, EventsAssumption DEF CacheInv
<1> QED
  BY <1>1, <1>2 DEF CacheInv

-----------------------------------------------------------------------------
\* The page.

Stages == {"upstream", "others", "done", "failed"}
AnalysisOK(a) ==
    a.stage \in Stages /\ a = [stage |-> a.stage, found |-> a.found, others |-> a.others]
AnalysisInv == \A n \in DOMAIN analysis : AnalysisOK(analysis[n])

Selection == Branches \cup {None}
FormType == [main : Selection, up : Selection]

PageTypeOK ==
    /\ url \in Seq(Branches) /\ page.names \in Seq(Branches)
    /\ view \in {"loading", "shown", "error"} /\ tab \in Tabs
    /\ form \in FormType
    /\ offer \in {"loading", "offered", None}

\* What the page shows of a branch the cache had, and still has in some version.
\* The selected branches are shown with their details.
ShownInv ==
    /\ ToSet(page.names) \subseteq DOMAIN page.shown /\ DOMAIN page.shown \subseteq Branches
    /\ \A n \in DOMAIN page.shown :
          \/ page.shown[n] = <<>>
          \/ /\ HasData(DetailsOf(n))
             /\ \E w \in DOMAIN Worlds : page.shown[n] = <<Answer(w, DetailsOf(n))>>
    /\ \A n \in ToSet(page.names) : page.shown[n] # <<>>

\* The details panel has one of the selected branches.  A page without any is
\* a dead end: there is no branch to click.
PanelInv ==
    /\ view = "shown" => IF tab = "details" THEN form.main \in ToSet(page.names) ELSE form = NoForm
    /\ page.names = <<>> => DOMAIN page.shown = {}
    /\ view = "shown" /\ page.names = <<>> => url = <<>>
    /\ view # "shown" => page.names = <<>> /\ DOMAIN analysis = {} /\ offer = None

PageInv == CacheInv /\ PageTypeOK /\ ShownInv /\ PanelInv /\ AnalysisInv /\ PageSurvives

LEMMA InitInv == Init => PageInv
<1> SUFFICES ASSUME Init PROVE PageInv
  OBVIOUS
<1>1. page.names = <<>> /\ DOMAIN page.shown = {} /\ DOMAIN analysis = {} /\ ToSet(page.names) = {}
  BY DEF Init, NoPage, NoAnalysis, ToSet
<1>2. CacheInv
  BY CacheInitInv DEF Init
<1>3. PageTypeOK
  BY EntriesAssumption, <1>1 DEF Init, PageTypeOK, Tabs, NoForm, FormType, Selection, None
<1>4. ShownInv /\ AnalysisInv
  BY <1>1 DEF ShownInv, AnalysisInv
<1>5. PanelInv /\ PageSurvives
  BY <1>1 DEF Init, PanelInv, PageSurvives
<1> QED
  BY <1>2, <1>3, <1>4, <1>5 DEF PageInv

\* A branch whose details could not be loaded is in error until it is asked for again.
LEMMA ErrorStays ==
    ASSUME ErrorOfMain, url' = url, failed \subseteq failed',
           \A n \in ToSet(url) : DetailsOf(n) \in failed => DetailsOf(n) \in DOMAIN data \/ DetailsOf(n) \notin DOMAIN data'
    PROVE  ErrorOfMain'
  BY DEF ErrorOfMain, HasData

\* Steps that change neither what is selected nor what is rendered of it.
LEMMA QuietStep ==
    ASSUME PageInv, CacheInv', DOMAIN data \subseteq DOMAIN data',
           UNCHANGED <<url, view, page, tab, form>>,
           AnalysisInv', DOMAIN analysis' = DOMAIN analysis,
           offer' \in {offer, None} \/ (offer' \in {"loading", "offered"} /\ view = "shown"),
           view = "error" /\ ErrorOfMain => ErrorOfMain'
    PROVE  PageInv'
<1>1. PageTypeOK'
  BY DEF PageInv, PageTypeOK
<1>2. ShownInv'
  BY DEF PageInv, ShownInv, HasData, ToSet
<1>3. PanelInv'
  BY DEF PageInv, PanelInv, ToSet
<1>4. PageSurvives'
  BY DEF PageInv, PageSurvives
<1> QED
  BY <1>1, <1>2, <1>3, <1>4 DEF PageInv

\* The fallback of the ErrorBoundary shows nothing.
LEMMA FallbackStep ==
    ASSUME PageInv, Fallback, UNCHANGED <<world, data, load, invalid, failed, url>>, events' \in 0..MaxEvents,
           url = <<>> \/ ErrorOfMain
    PROVE  PageInv'
<1>1. /\ page'.names = <<>> /\ DOMAIN page'.shown = {} /\ DOMAIN analysis' = {} /\ ToSet(page'.names) = {}
      /\ view' = "error" /\ tab' = "details" /\ form' = NoForm /\ offer' = None
  BY DEF Fallback, NoPage, NoAnalysis, ToSet
<1>2. CacheInv'
  BY DEF PageInv, CacheInv
<1>3. PageTypeOK'
  BY <1>1 DEF PageInv, PageTypeOK, Tabs, NoForm, FormType, Selection, None
<1>4. ShownInv' /\ AnalysisInv'
  BY <1>1 DEF ShownInv, AnalysisInv
<1>5. PanelInv'
  BY <1>1 DEF PanelInv
<1>6. PageSurvives'
  BY DEF PageSurvives, ErrorOfMain, HasData
<1> QED
  BY <1>2, <1>3, <1>4, <1>5, <1>6 DEF PageInv

-----------------------------------------------------------------------------
\* What a page shows: the selected branches, and nothing without any.
LEMMA Expanded ==
    ASSUME NEW names \in SUBSET Branches, NEW more, NEW S \in ExpandBranches(names, more)
    PROVE  names \subseteq S /\ S \subseteq Branches /\ (names = {} => S = {})
<1> DEFINE all == Reached(names, more, Branches)
<1>1. names \subseteq all /\ all \subseteq Branches
  BY DEF Reached
<1>2. names = {} => all = {}
  BY DEF Reached
<1>3. names = {} => Cardinality(all) <= UpstreamLimit
  BY <1>2, FS_EmptySet, UpstreamLimitAssumption
<1>4. S = all \/ (~(Cardinality(all) <= UpstreamLimit) /\ S \subseteq all /\ names \subseteq S)
  BY DEF ExpandBranches
<1> HIDE DEF all
<1> QED
  BY <1>1, <1>2, <1>3, <1>4

LEMMA Relevant ==
    ASSUME NEW names \in SUBSET Branches, NEW details, NEW shown \in GetRelevantBranchNames(names, details)
    PROVE  names \subseteq shown /\ shown \subseteq Branches /\ (names = {} => shown = {})
<1> DEFINE down == [n \in Branches |-> IF n \in DOMAIN details THEN details[n].downstream ELSE {}]
           up == [n \in Branches |-> IF n \in DOMAIN details THEN UpstreamNames(details[n]) ELSE {}]
<1>1. GetRelevantBranchNames(names, details) =
        {below \cup above : below \in ExpandBranches(names, down), above \in ExpandBranches(names, up)}
  BY DEF GetRelevantBranchNames
<1> HIDE DEF down, up
<1>2. PICK below \in ExpandBranches(names, down), above \in ExpandBranches(names, up) : shown = below \cup above
  BY <1>1
<1> QED
  BY <1>2, Expanded

\* A rendered page has its names, and the details of each of them.
LEMMA NewPageType ==
    ASSUME PageInv, Suspended => view = "shown", NEW newPage \in NewPages
    PROVE  /\ newPage.names = Names /\ Names \in Seq(Branches)
           /\ (ToSet(page.names) \subseteq DOMAIN page.shown)
           /\ ToSet(Names) \subseteq DOMAIN newPage.shown /\ DOMAIN newPage.shown \subseteq Branches
           /\ \A n \in DOMAIN newPage.shown :
                 \/ newPage.shown[n] = <<>>
                 \/ /\ HasData(DetailsOf(n))
                    /\ \E w \in DOMAIN Worlds : newPage.shown[n] = <<Answer(w, DetailsOf(n))>>
           /\ \A n \in ToSet(Names) : newPage.shown[n] # <<>>
           /\ Names = <<>> => DOMAIN newPage.shown = {} /\ url = <<>>
<1>1. Names \in Seq(Branches)
  BY DEF Names, PageInv, PageTypeOK
<1>2. ToSet(Names) \in SUBSET Branches /\ (Names = <<>> => ToSet(Names) = {})
  BY <1>1 DEF ToSet
<1>3. PICK relevant \in GetRelevantBranchNames(ToSet(Names), Cached) :
        newPage = [names |-> Names, shown |-> [n \in relevant |-> Content(n)]]
  BY DEF NewPages
<1>4. /\ newPage.names = Names /\ DOMAIN newPage.shown = relevant
      /\ \A n \in relevant : newPage.shown[n] = Content(n)
  BY <1>3
<1>5. ToSet(Names) \subseteq relevant /\ relevant \subseteq Branches /\ (Names = <<>> => relevant = {})
  BY <1>2, <1>3, Relevant
<1>6. \A n \in ToSet(Names) : HasData(DetailsOf(n))
  <2>1. CASE Suspended
    BY <2>1 DEF Names, PageInv, ShownInv
  <2>2. CASE ~Suspended
    BY <2>2 DEF Names, Suspended
  <2> QED
    BY <2>1, <2>2
<1>7. ASSUME NEW n \in relevant
      PROVE  IF HasData(DetailsOf(n))
             THEN newPage.shown[n] # <<>> /\ \E w \in DOMAIN Worlds : newPage.shown[n] = <<Answer(w, DetailsOf(n))>>
             ELSE newPage.shown[n] = <<>>
  <2>1. CASE HasData(DetailsOf(n))
    <3>1. PICK w \in DOMAIN Worlds : data[DetailsOf(n)] = Answer(w, DetailsOf(n))
      BY <2>1 DEF PageInv, CacheInv, HasData
    <3>2. newPage.shown[n] = <<data[DetailsOf(n)]>>
      BY <1>4, <2>1 DEF Content
    <3> QED
      BY <2>1, <3>1, <3>2
  <2>2. CASE ~HasData(DetailsOf(n))
    BY <1>4, <2>2 DEF Content
  <2> QED
    BY <2>1, <2>2
<1>8. Names = <<>> => url = <<>>
  BY DEF Names, PageInv, PanelInv
<1> QED
  BY <1>1, <1>4, <1>5, <1>6, <1>7, <1>8 DEF PageInv, ShownInv

-----------------------------------------------------------------------------
\* The panels.  Rendering the details throws for want of a branch, or of the
\* branch that its form has.
LEMMA Thrown ==
    ASSUME NEW t, NEW names \in Seq(Branches)
    PROVE  /\ Throws(t, names, TRUE) => names = <<>>
           /\ Throws(t, names, FALSE) => t = "details" /\ form.main \notin ToSet(names)
<1>1. CASE names # <<>>
  <2>1. names[1] \in ToSet(names) /\ (FormOf(t, names, TRUE).main = names[1] \/ t # "details")
    BY <1>1 DEF ToSet, FormOf, NewForm
  <2> QED
    BY <1>1, <2>1 DEF Throws, FormOf
<1> QED
  BY <1>1 DEF Throws, FormOf

LEMMA FormOfType ==
    ASSUME form \in FormType, NEW t \in Tabs, NEW names \in Seq(Branches), NEW remount \in BOOLEAN,
           ~Throws(t, names, remount)
    PROVE  /\ FormOf(t, names, remount) \in FormType
           /\ IF t = "details" THEN FormOf(t, names, remount).main \in ToSet(names)
                               ELSE FormOf(t, names, remount) = NoForm
<1>1. NoForm \in FormType
  BY DEF NoForm, FormType, Selection
<1>2. NewForm(names) \in FormType
  <2>1. CASE names = <<>>
    BY <1>1, <2>1 DEF NewForm
  <2>2. CASE names # <<>>
    <3>1. names[1] \in Branches
      BY <2>2
    <3> QED
      BY <2>2, <3>1 DEF NewForm, FormType, Selection
  <2> QED
    BY <2>1, <2>2
<1>3. FormOf(t, names, remount) \in FormType
  BY <1>1, <1>2 DEF FormOf
<1> QED
  BY <1>3 DEF FormOf, Throws

LEMMA AnalysisStarts ==
    ASSUME NEW t, NEW newPage, NEW remount, analysis' = AnalysisOf(t, newPage, remount)
    PROVE  AnalysisInv'
<1> DEFINE start(n) == [stage |-> "upstream", found |-> RemoveUnused(n, newPage.shown[n][1]), others |-> NoAnalysis]
<1>1. \A n : AnalysisOK(start(n))
  BY DEF AnalysisOK, Stages
<1>2. \/ DOMAIN analysis' = {}
      \/ analysis' = [n \in ToSet(newPage.names) |-> start(n)]
  BY DEF AnalysisOf, NewAnalysis, NoAnalysis
<1> HIDE DEF start
<1> QED
  BY <1>1, <1>2 DEF AnalysisInv

LEMMA RenderPageStep ==
    ASSUME PageInv, RenderPage
    PROVE  PageInv'
<1>1. PICK newPage \in NewPages :
        /\ page' = newPage
        /\ StartPanel(tab, newPage, KeyChanges)
        /\ \E queries : Begin(queries)
  BY DEF RenderPage
<1>2. /\ Suspended => view = "shown"
      /\ ~Throws(tab, Names, KeyChanges) /\ view' = "shown"
      /\ UNCHANGED <<world, data, invalid, events, url, tab>>
  BY DEF RenderPage, Renders
<1> HIDE DEF Suspended
<1>3. CacheInv'
  BY <1>1, <1>2, BeginStep DEF PageInv, CacheInv
<1>4. /\ newPage.names = Names /\ Names \in Seq(Branches)
      /\ ToSet(Names) \subseteq DOMAIN newPage.shown /\ DOMAIN newPage.shown \subseteq Branches
      /\ \A n \in DOMAIN newPage.shown :
            \/ newPage.shown[n] = <<>>
            \/ /\ HasData(DetailsOf(n))
               /\ \E w \in DOMAIN Worlds : newPage.shown[n] = <<Answer(w, DetailsOf(n))>>
      /\ \A n \in ToSet(Names) : newPage.shown[n] # <<>>
      /\ Names = <<>> => DOMAIN newPage.shown = {} /\ url = <<>>
  BY <1>2, NewPageType
<1>5. ShownInv'
  BY <1>1, <1>2, <1>4 DEF ShownInv, HasData, ToSet
<1>6. /\ form' = FormOf(tab, Names, KeyChanges) /\ offer' = OfferOf(tab)
      /\ analysis' = AnalysisOf(tab, newPage, KeyChanges)
  BY <1>1, <1>4 DEF StartPanel
<1>7. form' \in FormType /\ IF tab = "details" THEN form'.main \in ToSet(Names) ELSE form' = NoForm
  <2>1. KeyChanges \in BOOLEAN /\ tab \in Tabs /\ form \in FormType
    BY DEF KeyChanges, PageInv, PageTypeOK
  <2> HIDE DEF KeyChanges
  <2> QED
    BY <1>2, <1>4, <1>6, <2>1, FormOfType
<1>8. AnalysisInv'
  BY <1>6, AnalysisStarts
<1>9. PageTypeOK'
  BY <1>1, <1>2, <1>4, <1>6, <1>7 DEF PageInv, PageTypeOK, OfferOf, None
<1>10. PanelInv' /\ PageSurvives'
  BY <1>1, <1>2, <1>4, <1>7 DEF PanelInv, PageSurvives, ToSet
<1> QED
  BY <1>3, <1>5, <1>8, <1>9, <1>10 DEF PageInv

\* Rendering throws for a branch in error, or without names: a form that stays
\* has one of the names that stay.
LEMMA RenderThrowsStep ==
    ASSUME PageInv, RenderThrows
    PROVE  PageInv'
<1>1. Fallback /\ UNCHANGED <<world, data, load, invalid, failed, events, url>>
  BY DEF RenderThrows, cacheVars
<1>2. url = <<>> \/ ErrorOfMain
  <2>1. CASE view # "error" /\ ErrorOfMain
    BY <2>1
  <2>2. CASE Renders /\ Throws(tab, Names, KeyChanges)
    <3>1. Names \in Seq(Branches)
      BY DEF Names, PageInv, PageTypeOK
    <3>2. CASE KeyChanges = TRUE
      <4>1. Names = <<>>
        BY <2>2, <3>1, <3>2, Thrown
      <4> QED
        BY <2>2, <4>1 DEF Names, Renders, PageInv, PanelInv
    <3>3. CASE KeyChanges = FALSE
      <4>1. tab = "details" /\ form.main \notin ToSet(Names)
        BY <2>2, <3>1, <3>3, Thrown
      <4>2. view = "shown" /\ Names = page.names
        BY <3>3 DEF KeyChanges
      <4> QED
        BY <4>1, <4>2 DEF PageInv, PanelInv
    <3> QED
      BY <3>2, <3>3 DEF KeyChanges
  <2> QED
    BY <2>1, <2>2 DEF RenderThrows
<1> QED
  BY <1>1, <1>2, FallbackStep DEF PageInv, CacheInv

LEMMA ChooseTabStep ==
    ASSUME PageInv, NEW t \in Tabs, ChooseTab(t)
    PROVE  PageInv'
<1>1. view = "shown" /\ events' \in 0..MaxEvents /\ UNCHANGED <<world, data, invalid, url>>
  BY EventsAssumption DEF ChooseTab, Event, PageInv, CacheInv
<1>2. page.names \in Seq(Branches)
  BY DEF PageInv, PageTypeOK
<1>3. CASE Throws(t, page.names, TRUE)
  <2>1. page.names = <<>> /\ Fallback /\ UNCHANGED <<load, failed>>
    BY <1>2, <1>3, Thrown DEF ChooseTab
  <2>2. url = <<>>
    BY <1>1, <2>1 DEF PageInv, PanelInv
  <2> QED
    BY <1>1, <2>1, <2>2, FallbackStep
<1>4. CASE ~Throws(t, page.names, TRUE)
  <2>1. /\ tab' = t /\ StartPanel(t, page, TRUE) /\ UNCHANGED <<view, page>>
        /\ \E queries : Begin(queries)
    BY <1>4 DEF ChooseTab
  <2>2. CacheInv' /\ DOMAIN data' = DOMAIN data
    BY <1>1, <2>1, BeginStep DEF PageInv
  <2>3. form' \in FormType /\ IF t = "details" THEN form'.main \in ToSet(page.names) ELSE form' = NoForm
    BY <1>2, <1>4, <2>1, FormOfType DEF StartPanel, PageInv, PageTypeOK
  <2>4. AnalysisInv' /\ offer' \in {"loading", None}
    BY <2>1, AnalysisStarts DEF StartPanel, OfferOf
  <2>5. PageTypeOK'
    BY <1>1, <2>1, <2>3, <2>4 DEF PageInv, PageTypeOK
  <2>6. ShownInv'
    BY <1>1, <2>1 DEF PageInv, ShownInv, HasData, ToSet
  <2>7. PanelInv' /\ PageSurvives'
    BY <1>1, <2>1, <2>3 DEF PageInv, PanelInv, PageSurvives, ToSet
  <2> QED
    BY <2>2, <2>4, <2>5, <2>6, <2>7 DEF PageInv
<1> QED
  BY <1>3, <1>4

\* Another location clears an error; a selection is emptied only from the URL.
LEMMA NavigateStep ==
    ASSUME PageInv, NEW names \in Seq(Branches), Navigate(names), events' \in 0..MaxEvents,
           view = "shown" /\ page.names = <<>> => names = <<>>
    PROVE  PageInv'
<1> DEFINE queries == {DetailsOf(n) : n \in {m \in ToSet(names) : ~HasData(DetailsOf(m)) /\ DetailsOf(m) \notin failed}}
<1>1. /\ url' = names /\ view' = (IF view = "error" /\ names # url THEN "loading" ELSE view)
      /\ Begin(queries)
      /\ UNCHANGED <<world, data, invalid, page, tab, form, analysis, offer>>
  BY DEF Navigate
<1>2. failed \cap queries = {}
  OBVIOUS
<1> HIDE DEF queries
<1>3. CacheInv' /\ DOMAIN data' = DOMAIN data /\ failed' = failed
  BY <1>1, <1>2, BeginStep DEF PageInv
<1>4. PageTypeOK'
  BY <1>1 DEF PageInv, PageTypeOK
<1>5. ShownInv' /\ AnalysisInv'
  BY <1>1 DEF PageInv, ShownInv, HasData, AnalysisInv, ToSet
<1>6. PanelInv'
  BY <1>1 DEF PageInv, PageTypeOK, PanelInv, ToSet
<1>7. PageSurvives'
  <2> SUFFICES ASSUME view' = "error" PROVE url' = <<>> \/ ErrorOfMain'
    BY DEF PageSurvives
  <2>1. view = "error" /\ url' = url
    BY <1>1
  <2> QED
    BY <1>1, <1>3, <2>1 DEF PageInv, PageSurvives, ErrorOfMain, HasData
<1> QED
  BY <1>3, <1>4, <1>5, <1>6, <1>7 DEF PageInv

LEMMA ChooseBranchStep ==
    ASSUME PageInv, NEW choice \in FormType, ChooseBranch(choice), choice.main \in ToSet(page.names)
    PROVE  PageInv'
<1>1. /\ view = "shown" /\ tab = "details" /\ form' = choice /\ events' \in 0..MaxEvents
      /\ UNCHANGED <<world, data, load, invalid, failed, url, view, page, tab, analysis, offer>>
  BY EventsAssumption DEF ChooseBranch, Event, PageInv, CacheInv
<1>2. CacheInv' /\ AnalysisInv'
  BY <1>1 DEF PageInv, CacheInv, AnalysisInv
<1>3. PageTypeOK' /\ ShownInv'
  BY <1>1 DEF PageInv, PageTypeOK, ShownInv, HasData, ToSet
<1>4. PanelInv' /\ PageSurvives'
  BY <1>1 DEF PageInv, PanelInv, PageSurvives, ToSet
<1> QED
  BY <1>2, <1>3, <1>4 DEF PageInv

LEMMA UserStep ==
    ASSUME PageInv, User
    PROVE  PageInv'
<1>1. ASSUME NEW n \in DOMAIN page.shown, NEW ctrl \in BOOLEAN, ClickNode(n, ctrl) PROVE PageInv'
  <2> DEFINE names == IF ctrl THEN Append(page.names, n) ELSE <<n>>
  <2>1. n \in Branches /\ page.names # <<>>
    BY DEF PageInv, ShownInv, PanelInv
  <2>2. names \in Seq(Branches)
    BY <2>1 DEF PageInv, PageTypeOK
  <2>3. Navigate(names) /\ events' \in 0..MaxEvents
    BY <1>1, EventsAssumption DEF ClickNode, Event, PageInv, CacheInv
  <2> HIDE DEF names
  <2> QED
    BY <2>1, <2>2, <2>3, NavigateStep
<1>2. ASSUME NEW n \in ToSet(url), Unselect(n) PROVE PageInv'
  <2>1. url # <<>> /\ url \in Seq(Branches)
    BY DEF ToSet, PageInv, PageTypeOK
  <2>2. Only(url, Branches \ {n}) \in Seq(Branches)
    BY <2>1, OnlyProperties
  <2>3. Navigate(Only(url, Branches \ {n})) /\ events' \in 0..MaxEvents
    BY <1>2, EventsAssumption DEF Unselect, Event, PageInv, CacheInv
  <2>4. ~(view = "shown" /\ page.names = <<>>)
    BY <2>1 DEF PageInv, PanelInv
  <2> QED
    BY <2>2, <2>3, <2>4, NavigateStep
<1>3. ASSUME NEW n \in ToSet(page.names), ChooseMain(n) PROVE PageInv'
  <2>1. n \in Branches /\ form \in FormType
    BY DEF PageInv, PageTypeOK, ShownInv
  <2>2. [form EXCEPT !.main = n] \in FormType /\ [form EXCEPT !.main = n].main = n
    BY <2>1 DEF FormType, Selection
  <2> QED
    BY <1>3, <2>2, ChooseBranchStep DEF ChooseMain
<1>4. ASSUME form.main \in ToSet(page.names), NEW u \in UpstreamNames(Main(form.main)), ChooseUpstream(u)
      PROVE  PageInv'
  <2> DEFINE n == form.main
  <2>1. n \in Branches /\ form \in FormType /\ n \in DOMAIN page.shown /\ page.shown[n] # <<>>
    BY <1>4 DEF PageInv, PageTypeOK, ShownInv
  <2>2. PICK w \in DOMAIN Worlds : page.shown[n] = <<Answer(w, DetailsOf(n))>>
    BY <2>1 DEF PageInv, ShownInv
  <2>3. Main(n) = Answer(w, DetailsOf(n))
    BY <2>2 DEF Main
  <2>4. u \in Branches
    BY <1>4, <2>1, <2>3, DetailsType
  <2>5. [form EXCEPT !.up = u] \in FormType /\ [form EXCEPT !.up = u].main = form.main
    BY <2>1, <2>4 DEF FormType, Selection
  <2> QED
    BY <1>4, <2>5, ChooseBranchStep DEF ChooseUpstream
<1> QED
  BY <1>1, <1>2, <1>3, <1>4, ChooseTabStep DEF User

-----------------------------------------------------------------------------
\* The rules, the server and git.
LEMMA FoundIn ==
    ASSUME NEW stage, NEW before, NEW others, NEW found
    PROVE  [[stage |-> stage, found |-> before, others |-> others] EXCEPT !.found = found]
             = [stage |-> stage, found |-> found, others |-> others]
  OBVIOUS

LEMMA AnalysisProceeds ==
    ASSUME NEW a, AnalysisOK(a), NEW stage \in Stages, NEW found
    PROVE  /\ AnalysisOK([a EXCEPT !.stage = stage])
           /\ AnalysisOK([a EXCEPT !.stage = stage, !.found = found])
<1>1. a = [stage |-> a.stage, found |-> a.found, others |-> a.others]
  BY DEF AnalysisOK
<1>2. [a EXCEPT !.stage = stage] = [stage |-> stage, found |-> a.found, others |-> a.others]
  BY <1>1
<1>3. [[a EXCEPT !.stage = stage] EXCEPT !.found = found] = [stage |-> stage, found |-> found, others |-> a.others]
  <2> DEFINE started == [a EXCEPT !.stage = stage]
  <2>1. started = [stage |-> stage, found |-> a.found, others |-> a.others]
    BY <1>2
  <2> HIDE DEF started
  <2>2. [started EXCEPT !.found = found] = [stage |-> stage, found |-> found, others |-> a.others]
    BY <2>1, FoundIn
  <2> QED
    BY <2>2, Zenon DEF started
<1>4. [a EXCEPT !.stage = stage, !.found = found] = [[a EXCEPT !.stage = stage] EXCEPT !.found = found]
  OBVIOUS
<1> QED
  BY <1>2, <1>3, <1>4 DEF AnalysisOK

LEMMA RejectedType ==
    ASSUME AnalysisInv, NEW queries, analysis' = Rejected(queries)
    PROVE  AnalysisInv' /\ DOMAIN analysis' = DOMAIN analysis
<1>1. "failed" \in Stages
  BY DEF Stages
<1>2. \A n \in DOMAIN analysis : AnalysisOK([analysis[n] EXCEPT !.stage = "failed"])
  BY <1>1, AnalysisProceeds DEF AnalysisInv
<1>3. /\ DOMAIN analysis' = DOMAIN analysis
      /\ \A n \in DOMAIN analysis : analysis'[n] = [analysis[n] EXCEPT !.stage = "failed"] \/ analysis'[n] = analysis[n]
  BY DEF Rejected
<1> QED
  BY <1>2, <1>3 DEF AnalysisInv

LEMMA AnalyzeStep ==
    ASSUME PageInv, NEW n, Analyze(n) \/ FinishReintegration(n)
    PROVE  PageInv'
<1>1. n \in DOMAIN analysis /\ UNCHANGED <<url, view, page, tab, form, offer, data, world, invalid, events>>
  BY DEF Analyze, FinishReintegration, cacheVars
<1>2. view = "shown" /\ AnalysisOK(analysis[n])
  BY <1>1 DEF PageInv, PanelInv, AnalysisInv
<1>3. CacheInv'
  <2>1. (\E queries : Begin(queries)) \/ UNCHANGED <<load, failed>>
    BY DEF Analyze, FinishReintegration, cacheVars
  <2>2. CASE \E queries : Begin(queries)
    BY <1>1, <2>2, BeginStep DEF PageInv, CacheInv
  <2>3. CASE UNCHANGED <<load, failed>>
    BY <1>1, <2>3 DEF PageInv, CacheInv
  <2> QED
    BY <2>1, <2>2, <2>3
<1>4. \E a : AnalysisOK(a) /\ analysis' = [analysis EXCEPT ![n] = a]
  <2>1. CASE Analyze(n)
    <3>1. \E stage \in Stages : \E found, others :
            analysis' = [analysis EXCEPT ![n] = [stage |-> stage, found |-> found, others |-> others]]
      BY <2>1 DEF Analyze, Stages
    <3>2. \A stage \in Stages : \A found, others : AnalysisOK([stage |-> stage, found |-> found, others |-> others])
      BY DEF AnalysisOK
    <3> QED
      BY <3>1, <3>2
  <2>2. CASE FinishReintegration(n)
    <3>1. PICK found : analysis' = [analysis EXCEPT ![n].stage = "done", ![n].found = found]
      BY <2>2 DEF FinishReintegration
    <3>2. analysis' = [analysis EXCEPT ![n] = [analysis[n] EXCEPT !.stage = "done", !.found = found]]
      BY <3>1
    <3> QED
      BY <1>2, <3>2, AnalysisProceeds DEF Stages
  <2> QED
    BY <2>1, <2>2
<1>5. AnalysisInv' /\ DOMAIN analysis' = DOMAIN analysis
  BY <1>4 DEF PageInv, AnalysisInv
<1> QED
  BY <1>1, <1>2, <1>3, <1>5, QuietStep

LEMMA ProvideActionStep ==
    ASSUME PageInv, ProvideAction
    PROVE  PageInv'
<1>1. /\ offer = "loading" /\ offer' \in {"offered", None}
      /\ (\E queries : Begin(queries))
      /\ UNCHANGED <<world, data, invalid, events, url, view, page, tab, form, analysis>>
  BY DEF ProvideAction
<1>2. view = "shown"
  BY <1>1 DEF PageInv, PanelInv, None
<1>3. CacheInv'
  BY <1>1, BeginStep DEF PageInv, CacheInv
<1>4. AnalysisInv'
  BY <1>1 DEF PageInv, AnalysisInv
<1> QED
  BY <1>1, <1>2, <1>3, <1>4, QuietStep

\* The fallback observes nothing that a fetch would load again.
LEMMA GitFetchedStep ==
    ASSUME PageInv, GitFetched
    PROVE  PageInv'
<1>1. Fetch(Observed) /\ UNCHANGED <<url, view, page, tab, form, offer>>
  BY DEF GitFetched
<1>2. CacheInv' /\ DOMAIN data' = DOMAIN data /\ failed' = failed \ Restarted(Observed)
  BY <1>1, FetchStep DEF PageInv
<1>3. AnalysisInv' /\ DOMAIN analysis' = DOMAIN analysis
  BY RejectedType DEF GitFetched, PageInv
<1>4. view = "error" /\ ErrorOfMain => ErrorOfMain'
  <2> SUFFICES ASSUME view = "error", ErrorOfMain PROVE ErrorOfMain'
    OBVIOUS
  <2>1. Observed = {}
    BY DEF Observed, InspectedConflicts, PageInv, PanelInv, None
  <2>2. failed' = failed
    BY <1>2, <2>1 DEF Restarted
  <2> QED
    BY <1>1, <1>2, <2>2, ErrorStays
<1> QED
  BY <1>1, <1>2, <1>3, <1>4, QuietStep

LEMMA NetworkStep ==
    ASSUME PageInv, NEW q \in DOMAIN load, Fail(q) \/ Receive(q)
    PROVE  PageInv'
<1>1. CASE Fail(q)
  <2>1. /\ LoadFails(q) /\ analysis' = Rejected({q}) /\ offer' \in {offer, None}
        /\ UNCHANGED <<url, view, page, tab, form>>
    BY <1>1 DEF Fail
  <2>2. CacheInv' /\ data' = data /\ failed' = failed \cup {q}
    BY <2>1, FailStep DEF PageInv
  <2>3. AnalysisInv' /\ DOMAIN analysis' = DOMAIN analysis
    BY <2>1, RejectedType DEF PageInv
  <2>4. ErrorOfMain => ErrorOfMain'
    BY <2>1, <2>2, ErrorStays
  <2> QED
    BY <2>1, <2>2, <2>3, <2>4, QuietStep
<1>2. CASE Receive(q)
  <2>1. Arrive(q) /\ UNCHANGED <<url, view, page, tab, form, analysis, offer>>
    BY <1>2 DEF Receive, pageVars
  <2>2. CacheInv' /\ DOMAIN data' = DOMAIN data \cup {q} /\ failed' = failed
    BY <2>1, ArriveStep DEF PageInv
  <2>3. q \notin failed
    BY DEF PageInv, CacheInv
  <2>4. ErrorOfMain => ErrorOfMain'
    BY <2>1, <2>2, <2>3, ErrorStays
  <2>5. AnalysisInv'
    BY <2>1 DEF PageInv, AnalysisInv
  <2> QED
    BY <2>1, <2>2, <2>4, <2>5, QuietStep
<1> QED
  BY <1>1, <1>2

LEMMA PageStep == PageInv /\ [Next]_vars => PageInv'
<1> SUFFICES ASSUME PageInv, [Next]_vars PROVE PageInv'
  OBVIOUS
<1>1. CASE Open
  <2>1. view = "loading" /\ Navigate(url) /\ events' = events
    BY <1>1 DEF Open
  <2> QED
    BY <2>1, NavigateStep DEF PageInv, PageTypeOK, CacheInv
<1>2. CASE UNCHANGED vars
  <2>1. UNCHANGED <<url, view, page, tab, form, analysis, offer>> /\ UNCHANGED <<world, data, load, invalid, failed, events>>
    BY <1>2 DEF vars, pageVars, cacheVars
  <2>2. CacheInv' /\ AnalysisInv' /\ (ErrorOfMain => ErrorOfMain')
    BY <2>1 DEF PageInv, CacheInv, AnalysisInv, ErrorOfMain, HasData
  <2> QED
    BY <2>1, <2>2, QuietStep
<1> QED
  BY <1>1, <1>2, UserStep, RenderPageStep, RenderThrowsStep, ProvideActionStep, AnalyzeStep, GitFetchedStep, NetworkStep
  DEF Next, Settle, Network, Program

-----------------------------------------------------------------------------
\* The page, its cache and its panels fit together in every reachable state.
THEOREM PageInvariance == Spec => []PageInv
  BY InitInv, PageStep, PTL DEF Spec

\* However the selection and its data change under the panels, rendering fails
\* only without names, or with a branch whose details could not be loaded; and
\* a form has branches, the details of the selected ones among them.
THEOREM PageIsCorrect == Spec => [](TypeOK /\ PageSurvives)
<1>1. PageInv => TypeOK /\ PageSurvives
  <2> SUFFICES ASSUME PageInv PROVE TypeOK
    BY DEF PageInv
  <2>1. form.main \in Selection /\ form.up \in Selection
    BY DEF PageInv, PageTypeOK, FormType
  <2>2. \A n \in DOMAIN analysis : analysis[n].stage \in Stages
    BY DEF PageInv, AnalysisInv, AnalysisOK
  <2> QED
    BY <2>1, <2>2 DEF TypeOK, PageInv, PageTypeOK, ShownInv, CacheInv, Selection, Stages
<1> QED
  BY <1>1, PageInvariance, PTL

\* What was chosen in the form of the details panel stays while the same
\* selection is loaded again and rendered (branch-details/index.tsx).
THEOREM RefreshKeepsForm == Spec => RefreshKeepsChoice
<1>1. ASSUME PageInv, Next, view = "shown", view' = "shown", page'.names = page.names, events' = events
      PROVE  form' = form
  <2>1. CASE RenderPage
    <3>1. PICK newPage \in NewPages : page' = newPage /\ form' = FormOf(tab, newPage.names, KeyChanges)
      BY <2>1 DEF RenderPage, StartPanel
    <3>2. newPage.names = Names
      BY <3>1 DEF NewPages
    <3>3. KeyChanges = FALSE
      BY <1>1, <3>1, <3>2 DEF KeyChanges
    <3>4. form' = IF tab = "details" THEN form ELSE NoForm
      BY <3>1, <3>3 DEF FormOf
    <3> QED
      BY <1>1, <3>4 DEF PageInv, PanelInv
  <2>2. ~Event
    BY <1>1 DEF Event, PageInv, CacheInv
  <2>3. ~User /\ ~GitFetched /\ \A q : ~Fail(q)
    BY <2>2, Zenon
    DEF User, ClickNode, Unselect, ChooseTab, ChooseMain, ChooseUpstream, ChooseBranch, GitFetched, Fetch, Fail, LoadFails
  <2>4. CASE Open \/ RenderThrows \/ ProvideAction \/ Network \/ \E n \in DOMAIN analysis : Analyze(n) \/ FinishReintegration(n)
    BY <1>1, <2>4 DEF Open, Navigate, RenderThrows, Fallback, ProvideAction, Network, Receive, pageVars, Analyze, FinishReintegration
  <2> QED
    BY <1>1, <2>1, <2>3, <2>4 DEF Next, Settle, Program
<1>2. PageInv /\ [Next]_vars =>
        [view = "shown" /\ view' = "shown" /\ page'.names = page.names /\ events' = events => form' = form]_vars
  BY <1>1
<1> QED
  BY <1>2, PageInvariance, PTL DEF Spec, RefreshKeepsChoice

=============================================================================
