------------------------------- MODULE Viewer -------------------------------
(* shigoku-view, the page viewer (view/): one page at a time of a list of   *)
(* images, of a document with fixed pages, or of a book that is laid out    *)
(* again for every size of the window.  An action is what one event of the  *)
(* loop in main.cpp does to the state, the layout, the cache of decoded     *)
(* pages and the screen; the worker that decodes ahead runs beside it, and  *)
(* the window changes size and goes full screen on its own.                 *)
(*                                                                          *)
(* A book is its chapters' lengths in some unit of text.  A page of it      *)
(* holds a rectangle of units, so its layout is the size it was made for.   *)
EXTENDS Integers, Sequences, FiniteSetsExt

CONSTANTS
    Kinds,        \* of "images", "fixed", "book": what is opened
    Pages,        \* pages of the images or of the fixed document
    Chapters,     \* the book: units of text of each chapter
    Unit,         \* the pixels one unit of text takes
    Native,       \* the size of an image or a fixed page, [w, h]
    Sizes,        \* the sizes the window may have
    InitSize,     \* the size a book is laid out for before there is a window
    Screen,       \* the size of a full-screen window
    Zooms,        \* the ladder, in percent
    KeysFor(_),   \* bound: the keys pressed, by the kind of what is open
    Fits, Rtl,    \* bound: the fits asked for, and whether reading runs from right to left
    MaxRequests,  \* bound: pages waiting to be decoded ahead
    None

VARIABLES
    source,    \* what is open: its kind, the unreadable pages, its layout
    view,      \* ViewState
    win,       \* the window: size, full screen, a resize still to be told
    laid,      \* the size on_viewport last saw
    drawn,     \* what was last rendered, and at what size
    title,     \* page, count and zoom of the title bar
    cache, requests, decoding,   \* PageCache and its worker
    place,     \* history: where in the text the page on screen was taken to be
    report     \* the page written at the end

vars == <<source, view, win, laid, drawn, title, cache, requests, decoding, place, report>>

-----------------------------------------------------------------------------
\* A book's layout.

Least(a, b) == IF a < b THEN a ELSE b
Most(a, b) == IF a > b THEN a ELSE b
Clamp(v, lo, hi) == IF v < lo THEN lo ELSE IF v > hi THEN hi ELSE v

PerPage(size) == Most(1, (size.w * size.h) \div Unit)
ChapterPages(c, size) == (Chapters[c] + PerPage(size) - 1) \div PerPage(size)
PagesBefore(c, size) == MapThenSumSet(LAMBDA d : ChapterPages(d, size), 1..(c - 1))
NumberOf(l, size) == PagesBefore(l.chapter, size) + l.page
LocationOf(n, size) ==
    LET c == CHOOSE c \in DOMAIN Chapters :
                PagesBefore(c, size) <= n /\ n < PagesBefore(c + 1, size)
    IN  [chapter |-> c, page |-> n - PagesBefore(c, size)]
Count(src) == IF src.kind = "book" THEN PagesBefore(Len(Chapters) + 1, src.layout) ELSE Pages

\* Where a page's text begins, and the page a place in the text is on.
Start(n, size) ==
    LET l == LocationOf(n, size)
    IN  [chapter |-> l.chapter, unit |-> l.page * PerPage(size)]
PageWith(p, size) ==
    NumberOf([chapter |-> p.chapter, page |-> p.unit \div PerPage(size)], size)

\* A bookmark: the place, where there is one (the last page of a chapter may
\* have none), and how far into its chapter the page is.
Mark(n, size, marked) ==
    LET l == LocationOf(n, size)
    IN  [at |-> IF marked \/ l.page < ChapterPages(l.chapter, size) - 1
                THEN Start(n, size) ELSE None,
         chapter |-> l.chapter, page |-> l.page,
         of |-> ChapterPages(l.chapter, size)]
Lookup(b, size) ==
    IF b.at # None THEN PageWith(b.at, size)
    ELSE LET n == ChapterPages(b.chapter, size)
             p == Clamp((2 * b.page * n + b.of) \div (2 * b.of), 0, n - 1)
         IN  NumberOf([chapter |-> b.chapter, page |-> p], size)

-----------------------------------------------------------------------------
\* Geometry: the size a page is drawn at.

Rounded(a, b) == (2 * a + b) \div (2 * b)
FitSize(page, size, fit) ==
    IF fit = "width" THEN [w |-> size.w, h |-> Rounded(page.h * size.w, page.w)]
    ELSE IF size.w * page.h < size.h * page.w
         THEN [w |-> size.w, h |-> Rounded(page.h * size.w, page.w)]
         ELSE [w |-> Rounded(page.w * size.h, page.h), h |-> size.h]
Zoomed(f, zoom) == [w |-> (f.w * zoom) \div 100, h |-> (f.h * zoom) \div 100]

ZoomNext(z) ==
    LET above == {x \in Zooms : x > z}
    IN  IF above = {} THEN CHOOSE x \in Zooms : \A y \in Zooms : y <= x
        ELSE CHOOSE x \in above : \A y \in above : x <= y
ZoomPrev(z) ==
    LET below == {x \in Zooms : x < z}
    IN  IF below = {} THEN CHOOSE x \in Zooms : \A y \in Zooms : x <= y
        ELSE CHOOSE x \in below : \A y \in below : y <= x

\* A page that cannot be read leaves the window black.
PageSize(src) == IF src.kind = "book" THEN src.layout ELSE Native
Content(src, v, size) ==
    IF v.page \in src.broken THEN [w |-> 0, h |-> 0]
    ELSE Zoomed(FitSize(PageSize(src), size, v.fit), v.zoom)
Picture(src, v, size) ==
    [page |-> v.page, layout |-> src.layout, fit |-> v.fit, zoom |-> v.zoom,
     for |-> size, size |-> Content(src, v, size)]

-----------------------------------------------------------------------------
\* advance(): what a key does to the state, given what is on screen.

Keys == {"next", "prev", "right", "left", "up", "down", "home", "end",
         "fit", "fullscreen", "in", "out", "reset", "quit", "escape"}

Go(v, p) ==
    LET np == Clamp(p, 0, v.count - 1)
    IN  IF np = v.page THEN v ELSE [v EXCEPT !.page = np, !.x = 0, !.y = 0]
MaxPan(size) == Most(0, drawn.size.w - size.w)
MaxScroll(size) == Most(0, drawn.size.h - size.h)
Scroll(v, dy, size) == [v EXCEPT !.y = Clamp(@ + dy, 0, MaxScroll(size))]
Pan(v, dx, size) == [v EXCEPT !.x = Clamp(@ + dx, 0, MaxPan(size))]
Recentred(offset, length, window, z0, z1) ==
    Clamp(((offset + window \div 2) * z1) \div z0 - window \div 2,
          0, Most(0, (length * z1) \div z0 - window))
Rezoom(v, z, size) ==
    IF z = v.zoom THEN v
    ELSE [v EXCEPT !.zoom = z,
                   !.x = Recentred(@, drawn.size.w, size.w, v.zoom, z),
                   !.y = Recentred(@, drawn.size.h, size.h, v.zoom, z)]

Advance(v, key, size) ==
    LET ahead == IF v.rtl THEN v.page - 1 ELSE v.page + 1
        back  == IF v.rtl THEN v.page + 1 ELSE v.page - 1
    IN  CASE key = "next" -> Go(v, v.page + 1)
          [] key = "prev" -> Go(v, v.page - 1)
          [] key = "right" -> IF v.x < MaxPan(size) THEN Pan(v, size.w \div 2, size) ELSE Go(v, ahead)
          [] key = "left" -> IF v.x > 0 THEN Pan(v, -(size.w \div 2), size) ELSE Go(v, back)
          [] key = "up" -> Scroll(v, -(size.h \div 2), size)
          [] key = "down" -> Scroll(v, size.h \div 2, size)
          [] key = "home" -> Go(v, 0)
          [] key = "end" -> Go(v, v.count - 1)
          [] key = "fit" -> [v EXCEPT !.fit = IF @ = "page" THEN "width" ELSE "page", !.x = 0, !.y = 0]
          [] key = "fullscreen" -> [v EXCEPT !.full = ~@]
          [] key = "in" -> Rezoom(v, ZoomNext(v.zoom), size)
          [] key = "out" -> Rezoom(v, ZoomPrev(v.zoom), size)
          [] key = "reset" -> Rezoom(v, 100, size)
          [] key = "quit" -> [v EXCEPT !.quit = TRUE]
          [] key = "escape" -> IF v.full THEN [v EXCEPT !.full = FALSE] ELSE [v EXCEPT !.quit = TRUE]

\* A zoom alone is taken not to scale the page again.
RescalesPage(v, w) == w.page # v.page \/ w.fit # v.fit

\* What a key changed that asks for another scaling of the page.
Rescales(v, w) == w.page # v.page \/ w.fit # v.fit \/ w.zoom # v.zoom

-----------------------------------------------------------------------------
\* The decode cache.

Near(p) == {p - 1, p, p + 1}
Retain(c, p) == c \cap Near(p)
Prefetch(q, c, n) == IF n \in 0..(Pages - 1) /\ n \notin c THEN Append(q, n) ELSE q
Prefetched(q, c, p) == Prefetch(Prefetch(q, c, p - 1), c, p + 1)

\* A page turn keeps its neighbours, asks for the missing ones, and rendering
\* it decodes the page itself when it is not there.
CacheTurns(p) ==
    IF source'.kind # "images" THEN UNCHANGED <<cache, requests>>
    ELSE LET kept == Retain(cache, p)
         IN  /\ requests' = Prefetched(requests, kept, p)
             /\ Len(requests') <= MaxRequests
             /\ cache' = kept \union {p}

DecodeBegins ==
    /\ decoding = None /\ requests # <<>> /\ report = None
    /\ requests' = Tail(requests)
    /\ decoding' = IF Head(requests) \in cache THEN None ELSE Head(requests)
    /\ UNCHANGED <<source, view, win, laid, drawn, title, cache, place, report>>

DecodeEnds ==
    /\ decoding # None
    /\ cache' = cache \union {decoding}
    /\ decoding' = None
    /\ UNCHANGED <<source, view, win, laid, drawn, title, requests, place, report>>

-----------------------------------------------------------------------------
\* The viewport.

\* What libmupdf may answer when a book is laid out again: it may have no mark
\* for the page, fail to take any bookmark, fail to look it up, or fail to lay
\* the book out, which leaves the layout there was.
Outcomes == {"marked", "unmarked", "lost", "unfound", "unlaid"}

Top == [at |-> None, chapter |-> 1, page |-> 0, of |-> 1]
Bookmark(v, outcome) ==
    IF outcome = "lost" THEN Top
    ELSE Mark(v.page, source.layout, outcome # "unmarked")
Relayout(size, outcome) ==
    IF outcome = "unlaid" THEN source ELSE [source EXCEPT !.layout = size]
Remapped(v, count, page) ==
    [v EXCEPT !.count = count, !.x = 0, !.y = 0,
              !.page = Clamp(IF page = None THEN @ ELSE page, 0, count - 1)]

\* relayout_and_remap: the mark is of the old layout, all else of the new one.
RelayoutAndRemap(v, size, outcome) ==
    LET src  == Relayout(size, outcome)
        page == IF outcome = "unfound" THEN None ELSE Lookup(Bookmark(v, outcome), src.layout)
    IN  Remapped(v, Count(src), page)

\* The place the page on screen stands for: where the page before the relayout
\* began, or its chapter when only that is known.
PlaceTaken(v, outcome) ==
    LET start == Start(v.page, source.layout)
    IN  IF outcome \in {"lost", "unfound"} THEN None
        ELSE IF Mark(v.page, source.layout, outcome # "unmarked").at = None
             THEN [start EXCEPT !.unit = None] ELSE start

\* on_viewport(): a book is laid out again, once for every new size.
OnViewport(v, size) ==
    IF size = laid \/ source.kind # "book"
    THEN /\ laid' = size /\ view' = v
         /\ UNCHANGED <<source, place>>
    ELSE \E outcome \in Outcomes :
            /\ laid' = size
            /\ view' = RelayoutAndRemap(v, size, outcome)
            /\ source' = Relayout(size, outcome)
            /\ place' = PlaceTaken(v, outcome)

\* sync_hud() and render(); `need` is need_rescale.
Render(need, size) ==
    /\ title' = [page |-> view'.page, count |-> view'.count, zoom |-> view'.zoom]
    /\ drawn' = IF need THEN Picture(source', view', size) ELSE drawn

-----------------------------------------------------------------------------
\* main().

Running == drawn # None /\ ~view.quit

\* What is opened, and the options of the command line.
Openable == {src \in [kind : Kinds, broken : {{}, {1}}, layout : {InitSize}] :
                src.kind = "book" => src.broken = {}}
Init ==
    /\ source \in Openable
    /\ view = None /\ win = None /\ drawn = None /\ title = None
    /\ laid = InitSize
    /\ cache = {} /\ requests = <<>> /\ decoding = None
    /\ place = None /\ report = None

Options == [start : 1..(Pages + 1), fit : Fits, rtl : Rtl]

\* Everything up to the first render; the window may not get the size it asks for.
Open(opt, size) ==
    LET count == Count(source)
        v == [page |-> Clamp(opt.start - 1, 0, count - 1), count |-> count,
              fit |-> opt.fit, rtl |-> opt.rtl, zoom |-> 100, x |-> 0, y |-> 0,
              full |-> FALSE, quit |-> FALSE]
    IN  /\ drawn = None
        /\ win' = [size |-> size, full |-> FALSE, pending |-> FALSE]
        /\ OnViewport(v, size)
        /\ Render(TRUE, size)
        /\ IF source.kind = "images"
           THEN cache' = {v.page} /\ requests' = Prefetched(<<>>, {v.page}, v.page)
           ELSE UNCHANGED <<cache, requests>>
        /\ UNCHANGED <<decoding, report>>

\* The window system.
SystemResizes(size) ==
    /\ Running /\ size # win.size
    /\ win' = [win EXCEPT !.size = size, !.pending = TRUE]
    /\ UNCHANGED <<source, view, laid, drawn, title, cache, requests, decoding, place, report>>

SystemToggles ==
    /\ Running
    /\ \E size \in IF win.full THEN Sizes ELSE {Screen} :
          win' = [size |-> size, full |-> ~win.full, pending |-> TRUE]
    /\ UNCHANGED <<source, view, laid, drawn, title, cache, requests, decoding, place, report>>

\* set_fullscreen(): the size follows at once or later.
Toggled(full) ==
    \E size \in {win.size} \union (IF full THEN {Screen} ELSE Sizes) :
        win' = [size |-> size, full |-> full, pending |-> TRUE]

\* A resize is told.
Resize ==
    /\ Running /\ win.pending
    /\ win' = [win EXCEPT !.pending = FALSE]
    /\ OnViewport(view, win.size)
    /\ Render(TRUE, win.size)
    /\ UNCHANGED <<cache, requests, decoding, report>>

\* A key.  The window says whether it is full screen; a key that changes
\* nothing renders nothing.
Press(key) ==
    LET v == [view EXCEPT !.full = win.full]
        w == Advance(v, key, win.size)
    IN  /\ Running
        /\ IF w = v
           THEN view' = v /\ UNCHANGED <<source, win, laid, drawn, title, cache, requests, place>>
           ELSE /\ IF w.full # v.full
                   THEN Toggled(w.full) /\ OnViewport(w, win'.size)
                   ELSE /\ view' = w
                        /\ place' = IF w.page # v.page /\ source.kind = "book"
                                    THEN Start(w.page, source.layout) ELSE place
                        /\ UNCHANGED <<source, win, laid>>
                /\ Render(Rescales(v, w) \/ w.full # v.full, win'.size)
                /\ IF w.page # v.page THEN CacheTurns(w.page) ELSE UNCHANGED <<cache, requests>>
        /\ UNCHANGED <<decoding, report>>

\* The window is closed.
Close ==
    /\ Running
    /\ view' = [view EXCEPT !.quit = TRUE]
    /\ UNCHANGED <<source, win, laid, drawn, title, cache, requests, decoding, place, report>>

\* The loop is left: the page is written for the reader that started it.
WriteReport ==
    /\ drawn # None /\ view.quit /\ report = None
    /\ report' = view.page + 1
    /\ UNCHANGED <<source, view, win, laid, drawn, title, cache, requests, decoding, place>>

\* The worker is joined and the process gone; the viewer may be started again.
Gone ==
    /\ report # None /\ decoding = None
    /\ source' \in Openable
    /\ view' = None /\ win' = None /\ drawn' = None /\ title' = None
    /\ laid' = InitSize
    /\ cache' = {} /\ requests' = <<>>
    /\ place' = None /\ report' = None
    /\ UNCHANGED decoding

Next ==
    \/ \E opt \in Options, size \in Sizes : Open(opt, size)
    \/ \E size \in Sizes : SystemResizes(size)
    \/ SystemToggles
    \/ Resize
    \/ \E key \in Keys \cap KeysFor(source.kind) : Press(key)
    \/ Close
    \/ WriteReport
    \/ Gone
    \/ DecodeBegins
    \/ DecodeEnds

Spec == Init /\ [][Next]_vars

-----------------------------------------------------------------------------
\* What is on screen is the page the state, the title and, at the end, the
\* report name, scaled for the window unless the window has just changed.
ShowsItsPage ==
    drawn # None =>
        /\ drawn.page = view.page
        /\ title = [page |-> view.page, count |-> view.count, zoom |-> view.zoom]
        /\ ~win.pending => drawn = Picture(source, view, win.size)
        /\ report # None => report = drawn.page + 1

\* A resize renumbers a book's pages under the reader: the page shown after it
\* holds the place the page before it began at, or is at least in its chapter
\* where libmupdf had no mark.
KeepsItsPlace ==
    drawn # None /\ source.kind = "book" =>
        /\ view.count = Count(source) /\ view.page \in 0..(view.count - 1)
        /\ place # None =>
              LET l == LocationOf(view.page, source.layout)
              IN  /\ l.chapter = place.chapter
                  /\ place.unit # None => l.page = place.unit \div PerPage(source.layout)

\* The neighbours of the page on screen are decoded, being decoded or asked for.
NeighboursAreWarm ==
    drawn # None /\ source.kind = "images" =>
        /\ view.page \in cache
        /\ \A n \in Near(view.page) \cap 0..(Pages - 1) :
              n \in cache \/ n = decoding \/ \E i \in DOMAIN requests : requests[i] = n

ReadsOn == ShowsItsPage /\ KeepsItsPlace /\ NeighboursAreWarm
=============================================================================
