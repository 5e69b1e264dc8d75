---------------------------- MODULE ConflictPage ----------------------------
(***************************************************************************)
(* The page of the conflicts of some branches (ui/src/pages/branch-        *)
(* conflicts).  The conflict and the file to inspect are in the URL, and   *)
(* also in the forms of two selectors, whose effects navigate; a location  *)
(* is rendered once its data is there.  Till then the page before stays,   *)
(* and is rendered again when its own data was loaded again.               *)
(***************************************************************************)
EXTENDS Naturals, Sequences, SequencesExt

CONSTANTS
    Selections,     \* the names the page may be asked for: sequences of branches
    StandsFor,      \* StandsFor[s], the branches of the analysis of s
    ConflictLists,  \* what the analysis may find: sequences of conflicts, which are sequences of files
    Links,          \* the locations that history and links elsewhere lead to
    MaxChoices,     \* bound on the acts of the user
    MaxFetches      \* bound on the changes of an analysis that is shown

IsLocation(l) ==
    /\ l.at \in {"root", "inspect", "graph"}
    /\ l = [at |-> l.at, names |-> l.names, index |-> l.index, file |-> l.file]

ASSUME LinksAssumption == \A l \in Links : IsLocation(l)

VARIABLES
    location,  \* [at, names, index, file]; index counts from 1
    pending,   \* the location is not rendered yet
    page,      \* the last render: [kind, loc, list]
    due,       \* the effect of a Navigate element has not run yet
    form,      \* the atoms of the two selectors: [index, file]
    analysis,  \* selection -> conflicts, in the query cache
    objects,   \* files of merge trees in the query cache
    choices, fetches,
    asked,     \* history: the location the user asked for last
    unheard    \* history: ... in vain, or of a conflict that has gone, or a redirect overruled it

conflictVars ==
    <<location, pending, page, due, form, analysis, objects, choices, fetches, asked, unheard>>

NoFile == "none"
NoForm == [index |-> 0, file |-> NoFile]
Summary == "summary"
Root(names) == [at |-> "root", names |-> names, index |-> 1, file |-> NoFile]
Inspect(names, i, f) == [at |-> "inspect", names |-> names, index |-> i, file |-> f]
Graph == [at |-> "graph", names |-> <<>>, index |-> 1, file |-> NoFile]
Blank(kind) == [kind |-> kind, loc |-> Graph, list |-> <<>>]

-----------------------------------------------------------------------------
(* What a location shows of an analysis.                                   *)
FilesAt(l, list) == IF l.index \in DOMAIN list THEN list[l.index] ELSE <<>>

(* InspectConflictDetails falls back to the first file.                    *)
SelectedFile(l, list) ==
    IF l.file \in ToSet(FilesAt(l, list)) THEN l.file ELSE FilesAt(l, list)[1]

(* Only the numbers are compared.                                          *)
StandsForMore(names) == Len(StandsFor[names]) # Len(names)

(* useRoutes and defaultElement of BranchConflictsComponent.               *)
Kind(l, list) ==
    CASE l.at = "inspect" -> IF FilesAt(l, list) = <<>> THEN "redirect" ELSE "inspect"
      [] l.at = "root"    -> IF StandsForMore(l.names) \/ list # <<>> THEN "redirect" ELSE "empty"

RootTargetOfSecond(l) ==
    IF StandsForMore(l.names) THEN Root(StandsFor[l.names]) ELSE Inspect(l.names, 2, NoFile)
RootTarget(l) ==
    IF StandsForMore(l.names) THEN Root(StandsFor[l.names]) ELSE Inspect(l.names, 1, NoFile)

(* Without such a conflict, './summary' is relative to the route of the    *)
(* conflict, where it is the path of a file.                               *)
LostTarget(l) == [l EXCEPT !.file = Summary]

FormFor(l, list) ==
    IF Kind(l, list) = "inspect" THEN [index |-> l.index, file |-> SelectedFile(l, list)] ELSE NoForm

-----------------------------------------------------------------------------
ConflictInit ==
    /\ location \in Links /\ asked = location
    /\ pending = TRUE /\ due = FALSE /\ unheard = FALSE
    /\ page = Blank("loading") /\ form = NoForm
    /\ analysis = [s \in {} |-> <<>>] /\ objects = {}
    /\ choices = 0 /\ fetches = 0

Navigate(l) == location' = l /\ pending' = TRUE

(* The names are a new array for every location, so that each render has   *)
(* routes of new components: the selectors are mounted anew, and find      *)
(* their atoms equal to the URL.  The timeout that would set them is never *)
(* started.                                                                *)
KeptForm(l, list) == IF form = NoForm THEN FormFor(l, list) ELSE form
MountedForm(l, list) == FormFor(l, list)

(* The file that ShowFileConflicts waits for.                              *)
Object(l, list) == <<FilesAt(l, list), SelectedFile(l, list)>>

(* The redirect of the root stays mounted through renders in which it      *)
(* leads to the same location, and then has no effect; that of an          *)
(* inspected conflict is mounted anew.                                     *)
Remounts(l) ==
    \/ page.kind # "redirect" \/ page.loc.at = "inspect" \/ l.at = "inspect"
    \/ RootTarget(page.loc) # RootTarget(l)

(* The effects of a render run before the next.                            *)
RenderAt(l) ==
    /\ ~due
    /\ l.at # "graph" /\ l.names \in DOMAIN analysis
    /\ LET list == analysis[l.names]
           kind == Kind(l, list)
       IN /\ kind = "inspect" => Object(l, list) \in objects
          /\ page' = [kind |-> kind, loc |-> l, list |-> list]
          /\ due' = (kind = "redirect" /\ Remounts(l))
          /\ form' = MountedForm(l, list)
    /\ UNCHANGED <<location, analysis, objects, choices, fetches, asked, unheard>>

RenderConflicts == pending /\ RenderAt(location) /\ pending' = FALSE

OnDisplay == page.kind \notin {"loading", "graph"}

(* The observer of the analysis on display renders the page, as it is,     *)
(* whether or not another location is pending.                             *)
RerenderConflicts ==
    /\ OnDisplay /\ analysis[page.loc.names] # page.list
    /\ RenderAt(page.loc)
    /\ UNCHANGED pending

(* Another page; what this one leaves in the cache is of no concern to it. *)
RenderGraph ==
    /\ location.at = "graph" /\ ~due
    /\ pending' = FALSE /\ due' = FALSE /\ unheard' = FALSE
    /\ page' = Blank("graph") /\ form' = NoForm
    /\ analysis' = [s \in {} |-> <<>>] /\ objects' = {}
    /\ choices' = MaxChoices /\ fetches' = MaxFetches
    /\ UNCHANGED <<location, asked>>

(* A Navigate element, once it is mounted.  It may be that of a page that  *)
(* was rendered again, and overrule what the user has asked for since.     *)
Redirect ==
    /\ due
    /\ due' = FALSE
    /\ LET target == IF page.loc.at = "root" THEN RootTarget(page.loc) ELSE LostTarget(page.loc)
       IN /\ Navigate(target)
          /\ unheard' = (unheard \/ page.loc.at = "inspect" \/ location \notin {page.loc, target})
    /\ UNCHANGED <<page, form, analysis, objects, choices, fetches, asked>>

(* The queries that a rendering waits for.                                 *)
LoadAnalysis ==
    /\ location.at # "graph" /\ location.names \notin DOMAIN analysis
    /\ \E list \in ConflictLists :
         analysis' = [s \in DOMAIN analysis \cup {location.names} |->
                        IF s = location.names THEN list ELSE analysis[s]]
    /\ UNCHANGED <<location, pending, page, due, form, objects, choices, fetches, asked, unheard>>

LoadObject ==
    /\ \E l \in {location} \cup (IF OnDisplay THEN {page.loc} ELSE {}) :
         /\ l.at = "inspect" /\ l.names \in DOMAIN analysis
         /\ LET list == analysis[l.names]
            IN /\ FilesAt(l, list) # <<>>
               /\ Object(l, list) \notin objects
               /\ objects' = objects \cup {Object(l, list)}
    /\ UNCHANGED <<location, pending, page, due, form, analysis, choices, fetches, asked, unheard>>

(* Git was fetched, and the analysis on display was loaded again.          *)
ReloadAnalysis ==
    /\ fetches < MaxFetches /\ fetches' = fetches + 1
    /\ OnDisplay
    /\ \E list \in ConflictLists : analysis' = [analysis EXCEPT ![page.loc.names] = list]
    /\ UNCHANGED <<location, pending, page, due, form, objects, choices, asked, unheard>>

-----------------------------------------------------------------------------
(* The user acts on the page that is rendered; the effects of a render     *)
(* have run before.                                                        *)
Choice == choices < MaxChoices /\ choices' = choices + 1 /\ ~due

AskFor(l) == Navigate(l) /\ asked' = l /\ unheard' = FALSE

(* useAtomEffect is told of an atom that has another value.                *)
AtomChanges(atom, value) == value # atom

(* useLocationAtom navigates unless the value is that of the last render.  *)
Sync(value, selected, l) ==
    IF value # selected THEN AskFor(l)
    ELSE unheard' = TRUE /\ UNCHANGED <<location, pending, asked>>

ChooseConflict(i) ==
    /\ Choice /\ page.kind = "inspect"
    /\ Len(page.list) # 1 /\ AtomChanges(form.index, i)
    /\ form' = [form EXCEPT !.index = i]
    /\ Sync(i, page.loc.index, Inspect(page.loc.names, i, NoFile))
    /\ UNCHANGED <<page, due, analysis, objects, fetches>>

ChooseFile(f) ==
    /\ Choice /\ page.kind = "inspect"
    /\ AtomChanges(form.file, f)
    /\ form' = [form EXCEPT !.file = f]
    /\ Sync(f, SelectedFile(page.loc, page.list), [page.loc EXCEPT !.file = f])
    /\ UNCHANGED <<page, due, analysis, objects, fetches>>

(* FileList                                                                *)
ClickFile(f) ==
    /\ Choice /\ page.kind = "inspect"
    /\ AskFor([page.loc EXCEPT !.file = f])
    /\ UNCHANGED <<page, due, form, analysis, objects, fetches>>

ClickGraph ==
    /\ Choice /\ page.kind = "inspect"
    /\ AskFor(Graph)
    /\ UNCHANGED <<page, due, form, analysis, objects, fetches>>

(* The browser's history, or a link from elsewhere.                        *)
GoTo(l) ==
    /\ Choice
    /\ AskFor(l)
    /\ UNCHANGED <<page, due, form, analysis, objects, fetches>>

Chooses ==
    \/ \E i \in DOMAIN page.list : ChooseConflict(i)
    \/ \E f \in ToSet(FilesAt(page.loc, page.list)) : ChooseFile(f) \/ ClickFile(f)
    \/ ClickGraph
    \/ \E l \in Links : GoTo(l)

Proceeds == RenderConflicts \/ RerenderConflicts \/ RenderGraph \/ Redirect \/ LoadAnalysis \/ LoadObject

ConflictNext == page.kind # "graph" /\ (Chooses \/ Proceeds \/ ReloadAnalysis)
-----------------------------------------------------------------------------
AtRest == ~pending /\ ~due

(* The page that redirects for want of a conflict that the user asked for  *)
(* by its URL, or that a reload has taken away.                            *)
Lost ==
    /\ page.kind = "redirect" /\ page.loc.at = "inspect"
    /\ asked.at = "inspect" \/ fetches > 0

(* What a location comes to show, after the redirects of the root.         *)
Shows(l, list) == FormFor(IF l.at = "root" THEN Inspect(l.names, 1, NoFile) ELSE l, list)

(* "Ensure form and URL stay in sync" (ConflictSelector.tsx:72): when the  *)
(* page is at rest, the selectors have the conflict and file on display,   *)
(* and these are what the user last asked for, by a selector, a link or    *)
(* the URL, while others were loading and the one on display was loaded    *)
(* again.  Not so (unheard): a choice of what the page still showed, made  *)
(* while another was loading, is dropped; and when the page before is      *)
(* rendered again and comes to a redirect, this overrules the choice that  *)
(* is pending.  The names listed below the selector are no part of this:   *)
(* they are those of the first conflict, always (line 62).                 *)
LastChoiceIsShown ==
    AtRest /\ page.kind = "inspect" =>
        /\ form = FormFor(page.loc, page.list)
        /\ unheard \/ (asked.at # "graph" /\ form = Shows(asked, page.list))

(* When the user and git have stopped, so do the redirects, unless the     *)
(* conflict has gone, or was never there: its page redirects to itself     *)
(* without end.                                                            *)
PageComesToRest == <>[]AtRest \/ []<>Lost
=============================================================================
