---------------------------- MODULE MCBranchPage ----------------------------
(***************************************************************************)
(* An integration i comes from g alone.  The first fetch makes it come     *)
(* from f too, with a conflict of f and g that i may have resolved, while  *)
(* the details of g stay what they are; the second one only removes the    *)
(* conflict that the page may offer.  With a limit of 1, the page of g     *)
(* leaves out f or i, and that of i leaves out f or g after the fetch.     *)
(***************************************************************************)
EXTENDS BranchPage

CONSTANTS f, g, i

Up(ofI) == (f :> {g}) @@ (g :> {}) @@ (i :> ofI)

MCWorlds == <<
    [up |-> Up({g}), behind |-> {<<f, g>>}, conflict |-> {}, unmerged |-> {}, clash |-> {}],
    [up |-> Up({f, g}), behind |-> {}, conflict |-> {<<f, g>>}, unmerged |-> {f}, clash |-> {{f, g}}],
    [up |-> Up({f, g}), behind |-> {}, conflict |-> {<<f, g>>}, unmerged |-> {f}, clash |-> {}] >>

MCEntries == {<<f, g>>, <<i>>}
=============================================================================
