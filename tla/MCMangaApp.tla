----------------------------- MODULE MCMangaApp -----------------------------
(* Small instances of MangaApp: two manga of one source, and a source that    *)
(* lists nothing.                                                            *)
EXTENDS MangaApp

CONSTANTS s, t, ma, mb, x, a1, a2, b1

\* One source lists two manga, the other nothing; a feed of two pages that
\* overlap; one recommendation, which the first source can find.
MCNative == [m \in Manga |-> s]
MCListed == [m \in Manga |-> IF m = ma THEN <<a1, a2>> ELSE <<b1>>]
MCFound == [v \in Source |-> IF v = s THEN <<ma, mb>> ELSE << >>]
MCKinds == [v \in Source |-> IF v = s THEN <<"latest">> ELSE << >>]
MCRanked == [v \in Source |-> [kind \in {"latest"} |-> IF v = s THEN << <<mb>>, <<mb, ma>> >> ELSE << >>]]
MCAlike == << <<x>> >>
MCMatch == [l \in Al |-> [v \in Source |-> IF v = s THEN ma ELSE None]]

Shelf == {<<s, ma>>, <<s, mb>>}

\* Both manga followed, `ma' first; AniList is connected on the way.
ShelfSpec == Started(Shelf, FALSE, <<ma, mb>>, {}) /\ [][Next]_vars
=============================================================================
