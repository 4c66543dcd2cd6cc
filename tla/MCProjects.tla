----------------------------- MODULE MCProjects -----------------------------
(***************************************************************************)
(* Two directories and five contents: one that includes the other          *)
(* directory, two that differ in a file discovery cannot hash, and one     *)
(* Compose refuses.  The scenes spend a small budget on edits and scans, on *)
(* operations and their refreshes, or on lists and restarts.               *)
(***************************************************************************)
EXTENDS ProjectMirror, TLC

MCProjectSet == {"p", "q"}
MCContents == {"web", "shop", "open1", "open2", "broken"}
MCFacts == {"webHash", "shopHash", "openHash", "brokenHash"}
MCFactsOf == "web" :> "webHash" @@ "shop" :> "shopHash" @@ "open1" :> "openHash" @@ "open2" :> "openHash"
             @@ "broken" :> "brokenHash"
MCNameOf == "web" :> "Web" @@ "shop" :> "Shop" @@ "open1" :> "Web" @@ "open2" :> "Shop" @@ "broken" :> NoName
MCComplete == MCFacts \ {"openHash"}
MCIncludesOf == [f \in MCFacts |-> IF f = "webHash" THEN {"q"} ELSE {}]

Spare(edits, scans, failures, restarts, operations, listed, single) ==
    [edits |-> edits, scans |-> scans, failures |-> failures, restarts |-> restarts,
     ops |-> operations, lists |-> listed, ones |-> single]

Both(x, y) == "p" :> x @@ "q" :> y

Scene(held, runnable, budget) ==
    [files |-> held, policy |-> [runnable |-> runnable, writable |-> runnable], spare |-> budget]

Still == Scene(Both("web", "shop"), MCProjectSet, Spare(0, 0, 0, 0, 0, 0, 0))

MCCatalogScenes ==
    { Scene(Both("web", "shop"), MCProjectSet, Spare(2, 2, 1, 0, 0, 0, 0)),
      Scene(Both("web", "shop"), MCProjectSet, Spare(0, 1, 1, 0, 1, 2, 1)),
      Scene(Both("web", "shop"), MCProjectSet, Spare(0, 1, 0, 1, 1, 2, 1)),
      Scene(Both("web", "shop"), MCProjectSet, Spare(0, 2, 0, 0, 1, 2, 1)),
      Scene(Both("web", "shop"), {"p"}, Spare(1, 1, 0, 0, 1, 2, 0)),
      Scene(Both("web", "web"), MCProjectSet, Spare(1, 2, 0, 0, 0, 2, 0)) }
=============================================================================
