---------------------------- MODULE MC_RomLayout ----------------------------
EXTENDS RomLayout

(* Lines: executables with and without alignment, marked unpaged or        *)
(* hidden, data with and without bytes.                                    *)
L(k, al, ca, un, li, s1, s2) ==
    [keyword |-> k, offset |-> 0, align |-> al, codeAlign |-> ca,
     unpaged |-> un, listed |-> li, size1 |-> s1, size2 |-> s2]

Core == L("core", 0, 4, FALSE, TRUE, 2, 1)
MCFiles ==
    {L("file", 0, 0, FALSE, TRUE, 2, 1), L("file", 4, 0, TRUE, TRUE, 2, 0),
     L("file", 0, 0, FALSE, FALSE, 2, 1),
     L("data", 0, 0, FALSE, TRUE, 1, 0), L("data", 0, 0, TRUE, TRUE, 3, 0),
     L("data", 0, 0, FALSE, TRUE, 0, 0), L("hcr", 0, 0, FALSE, TRUE, 1, 0)}

Section(offset) == [L("section", 0, 0, FALSE, FALSE, 0, 0) EXCEPT !.offset = offset]

MCAreas ==
    LET A(n, b, s) == [name |-> n, base |-> b, size |-> s]
    IN  {<<>>, <<A("a", 0, 8)>>, <<A("a", 0, 8), A("b", 8, 8)>>, <<A("b", 4, 4), A("a", 0, 16)>>,
         <<A("a", 8, 8), A("a", 0, 4)>>, <<A("a", 120, 8)>>, <<A("a", 124, 8)>>,
         <<A("a", 60, 8)>>,
         <<A("default", 0, 8)>>, <<A("default", 0, 8), A("a", 4, 8)>>,
         <<A("default", 0, 8), A("default", 4, 8)>>,
         <<A("a", 0, 8), A("default", 4, 8)>>, <<A("a", 0, 8), A("default", 8, 8)>>,
         <<A("default", 0, 8), A("a", 8, 8), A("b", 4, 8)>>}

(* An obey file with one core executable among other files, at most one    *)
(* section line, and files on both sides of it.                            *)
SeqsUpTo(S, n) == UNION {[1 .. k -> S] : k \in 0 .. n}

Plain == {<<Core>> \o s : s \in SeqsUpTo(MCFiles, 3)}
         \cup {<<f, Core, g>> : f, g \in MCFiles}
Sectioned == {s \o <<Section(o)>> \o t :
                s \in {<<Core>> \o u : u \in SeqsUpTo(MCFiles, 1)} \cup {<<f, Core>> : f \in MCFiles},
                o \in {12, 20}, t \in SeqsUpTo(MCFiles, 2)}

Make(ext, paged, areas, size, lines) ==
    [extension |-> ext, paged |-> paged, areas |-> areas, size |-> size, lines |-> lines]

MCRoms ==
         {Make(FALSE, p, <<>>, s, l) : p \in BOOLEAN, s \in {36, 60}, l \in Plain}
    \cup {Make(FALSE, FALSE, <<>>, s, l) : s \in {36, 60}, 
          l \in {k \in Sectioned : ~HcrUncounted(k) /\ ~SectionLast(k)}}
    \cup {Make(FALSE, FALSE, a, 60, <<Core>>) : a \in MCAreas}
    \cup {Make(TRUE, FALSE, a, 60, <<f>>) : a \in MCAreas, f \in MCFiles}
    \cup {Make(TRUE, FALSE, <<>>, 36, l) : l \in SeqsUpTo(MCFiles, 2)}
    \cup {Make(FALSE, FALSE, <<>>, 36, <<Section(8), Core>>), 
          Make(TRUE, FALSE, <<>>, 36, <<Section(8), Core>>)}

ASSUME MCRomsForeseen == \A r \in MCRoms : Foreseen(r)

(* Left out of MCRoms, because FilesAllPlaced fails for them: the paged    *)
(* extension ROMs.                                                         *)
MCPagedExtensions ==
    {Make(TRUE, TRUE, <<>>, 60, l) : l \in SeqsUpTo(MCFiles, 4) \ {<<>>}}
=============================================================================
