----------------------------- MODULE LibraryMC -----------------------------
(***************************************************************************)
(* The instance of Library that TLC checks.                                 *)
(***************************************************************************)
EXTENDS Library, TLC

CONSTANTS p1, p2, s1, s2, s3, k1

A == <<"A">>
AB == <<"A", "B">>
D == <<"D">>

Rule(assign, requires, prune, position) ==
    [kind |-> "rule", enabled |-> TRUE, requires |-> requires, excludes |-> {}, assign |-> assign,
     prune |-> prune, keep |-> {}, position |-> position]

(* the first rule emits a tag below the one the second requires, and prunes: an edit that gives *)
(* the tag by hand is taken over by it *)
MCInitial == (s1 :> Rule({AB}, {}, TRUE, 0)) @@ (s2 :> Rule({D}, {A}, FALSE, 1))
MCCreatable == {[kind |-> "mapping", enabled |-> TRUE, requires |-> {}, excludes |-> {},
                 assign |-> {A}, prune |-> FALSE, keep |-> {}]}
MCPatches == {[enabled |-> FALSE], [requires |-> {A}]}
MCConfigs == {{A}}
MCEdits == {[add |-> {AB}, remove |-> {}], [add |-> {}, remove |-> {A}]}
MCRenames == {[old |-> A, new |-> D]}
MCPaths == {A, AB, D, <<"D", "B">>}
MCShareTag == <<"SharedToMe", "x">>

MCTraits == << [owned |-> TRUE, copy |-> TRUE], [owned |-> TRUE, copy |-> FALSE],
               [owned |-> FALSE, copy |-> FALSE] >>
MCUserTags == {A}
(* a tagged copy, hidden behind the picture it was made of *)
MCHeld == (1 :> [key |-> k1, reason |-> "content_dedupe", ownerDeleted |-> FALSE, tags |-> {A}])
          @@ (2 :> [key |-> k1, reason |-> "live", ownerDeleted |-> FALSE, tags |-> {}])
=============================================================================
