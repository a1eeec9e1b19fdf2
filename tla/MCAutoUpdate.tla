---------------------------- MODULE MCAutoUpdate ----------------------------
(***************************************************************************)
(* An instance of AutoUpdate for TLC: two servers, one with a telling      *)
(* name; three templates, of which the second differs from the first by    *)
(* its environment only and the third is refused.                          *)
(***************************************************************************)
EXTENDS AutoUpdate

TwoServers == {"a", "dns"}

TellingNames == {"dns"}

T(version, image, env) == [version |-> version, image |-> image, rest |-> "r", env |-> env]

ThreeTemplates == <<T("1", "x", "p"), T("1", "x", "q"), T("2", "evil", "q")>>

RefusedOnes == {3}

O(runtime, version, digest) ==
  [there |-> TRUE, follows |-> TRUE, runtime |-> runtime, version |-> version,
   digest |-> digest]

Run(i, r, e) == [image |-> i, rest |-> r, env |-> e]

Gone == [O(Nil, "", 0) EXCEPT !.there = FALSE]

\* A name only, the user's own image, an entry that follows no registry, no
\* server; the work of the enrichment, that of an earlier update.
FewObjects ==
  [a   |-> {O(Nil, "", 0), O(Run("own", "", "own"), "", 0),
            [O(Nil, "", 0) EXCEPT !.follows = FALSE], Gone},
   dns |-> {O(Run("x", "r", "p"), "1", 0), O(Run("x", "r", "p"), "1", 1)}]
=============================================================================
