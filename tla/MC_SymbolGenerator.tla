-------------------------- MODULE MC_SymbolGenerator --------------------------
(***************************************************************************)
(* Small builds for SymbolGenerator: two workers, images of at most two    *)
(* files, a core image and at most one extension.                          *)
(***************************************************************************)
EXTENDS SymbolGenerator

CONSTANTS w1, w2

MCWorkers == {w1, w2}

ImagesOf(fileLists, creates) == {[files |-> f, create |-> c] : f \in fileLists, c \in creates}
BuildsOf(tools, bsyms, imageLists) ==
  {[tool |-> t, bsym |-> b, images |-> l] : t \in tools, b \in bsyms, l \in imageLists}

One == ImagesOf({<<"exe">>, <<"exe", "data">>, <<>>}, Outcome)
Ok == ImagesOf({<<"exe">>, <<"exe", "data">>}, {"ok"})

\* Builds that use a generator for one image: a single image of either tool, and a
\* core image with an extension for rofsbuild, which releases the generator between
\* them.
MCBuilds ==
  BuildsOf({"rofsbuild", "rombuild"}, BOOLEAN, {<<i>> : i \in One})
  \cup BuildsOf({"rofsbuild"}, BOOLEAN, {<<i, j>> : i \in Ok, j \in ImagesOf({<<"data">>}, {"ok"})})
  \cup BuildsOf({"rofsbuild"}, {FALSE}, {<<i, j>> : i \in ImagesOf({<<>>}, {"ok"}), j \in One})
  \cup BuildsOf({"rombuild"}, {FALSE}, {<<i, j>> : i \in Ok, j \in ImagesOf({<<"exe">>}, {"fails before placing"})})

\* Left out of MCBuilds: rombuild builds a core image and an extension, and
\* SymbolFileComplete fails.
MCRomExtension == BuildsOf({"rombuild"}, {FALSE}, {<<i, j>> : i \in Ok, j \in Ok})
=============================================================================
