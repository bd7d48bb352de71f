---------------------------- MODULE ScreenProofs ----------------------------
(***************************************************************************)
(* Proofs about what is on screen: Surface, the frames and their buffers,  *)
(* for every set of sizes and scales; and Panel, the picker that is drawn  *)
(* into them, for every configuration, output and size of the panel, any   *)
(* number of items and slots, and animations of any length.  Neither has a *)
(* bound on the events or moves.                                           *)
(***************************************************************************)
EXTENDS Surface, Panel, GridProofs

\* The fields of a buffer.
IsBuffer(b) == DOMAIN b = {"width", "released", "adopted", "copy", "panel", "pixels"}

\* A pool in which a name stands for one buffer.
Pool(pool) ==
  /\ IsFiniteSet(pool)
  /\ \A b \in pool : IsBuffer(b)
  /\ \A b, c \in pool : b.width = c.width /\ b.copy = c.copy => b = c

\* The compositor reads only what the pool knows it has.
Reads(pool, reads) ==
  \A name \in reads : \E b \in pool : ~b.released /\ name = <<b.width, b.copy>>

BuffersOk ==
  /\ Pool(buffers) /\ Reads(buffers, compositor.reads)
  /\ "reads" \in DOMAIN compositor

(* Every use and every collection of the pool leaves what is held.         *)
LEMMA PartKeeps ==
  ASSUME NEW pool, NEW reads, Pool(pool), Reads(pool, reads),
         NEW part \in SUBSET pool, Held(pool) \subseteq part
  PROVE  Pool(part) /\ Reads(part, reads)
<1>1. IsFiniteSet(part)
  BY FS_Subset DEF Pool
<1>2. Reads(part, reads)
  BY DEF Reads, Held
<1> QED
  BY <1>1, <1>2 DEF Pool

LEMMA CollectionsKeep ==
  ASSUME NEW pool, NEW reads, Pool(pool), Reads(pool, reads), NEW width
  PROVE  /\ Pool(CollectStale(pool, width)) /\ Reads(CollectStale(pool, width), reads)
         /\ Pool(Unadopted(pool)) /\ Reads(Unadopted(pool), reads)
         /\ Pool(CollectIdle(pool, width)) /\ Reads(CollectIdle(pool, width), reads)
<1>1. CollectStale(pool, width) \in SUBSET pool /\ Held(pool) \subseteq CollectStale(pool, width)
  BY DEF CollectStale, Held, Matching
<1>2. Unadopted(pool) \in SUBSET pool /\ Held(pool) \subseteq Unadopted(pool)
  BY DEF Unadopted, Held
<1>3. CollectIdle(pool, width) \in SUBSET pool /\ Held(pool) \subseteq CollectIdle(pool, width)
  <2> DEFINE spares == {b \in pool : b.width = width /\ b.released}
             busy == \E b \in Held(pool) : b.width = width
  <2>1. CASE busy \/ spares = {}
    BY <2>1 DEF CollectIdle, Held
  <2>2. CASE ~busy /\ spares # {}
    <3>1. (CHOOSE b \in spares : TRUE) \in spares
      BY <2>2
    <3> QED
      BY <2>2, <3>1 DEF CollectIdle, Held
  <2> QED
    BY <2>1, <2>2
<1> QED
  BY <1>1, <1>2, <1>3, PartKeeps

\* A new buffer has a name of its own: a pool does not use up all numbers.
LEMMA NewName ==
  ASSUME NEW pool, Pool(pool), NEW width, NEW adopted
  PROVE  /\ IsBuffer(NewBuffer(pool, width, adopted))
         /\ NewBuffer(pool, width, adopted).width = width
         /\ NewBuffer(pool, width, adopted).released
         /\ \A b \in pool : b.width = width => b.copy # NewBuffer(pool, width, adopted).copy
<1> DEFINE n == Cardinality(pool)
           numbers == 1 .. n + 1
           Taken(k) == \E b \in pool : b.width = width /\ b.copy = k
           new == NewBuffer(pool, width, adopted)
<1>1. n \in Nat /\ IsFiniteSet(pool)
  BY FS_CardinalityType DEF Pool
<1>2. IsFiniteSet(numbers) /\ n < Cardinality(numbers)
  BY <1>1, FS_Interval
<1>3. \E k \in numbers : ~Taken(k)
  <2>1. SUFFICES ASSUME \A k \in numbers : Taken(k) PROVE FALSE
    OBVIOUS
  <2> DEFINE f == [k \in numbers |-> CHOOSE b \in pool : b.width = width /\ b.copy = k]
  <2>2. \A k \in numbers : f[k] \in pool /\ f[k].copy = k
    BY <2>1
  <2>3. f \in [numbers -> pool]
    BY <2>2
  <2> HIDE DEF f, numbers, n
  <2>4. \E k, m \in numbers : k # m /\ f[k] = f[m]
    BY <1>1, <1>2, <2>3, FS_PigeonHole DEF n
  <2> QED
    BY <2>2, <2>4
<1>4. \E k \in numbers : \A b \in pool : b.width = width => b.copy # k
  BY <1>3
<1>5. new.copy = CHOOSE k \in numbers : \A b \in pool : b.width = width => b.copy # k
  BY DEF NewBuffer
<1>6. \A b \in pool : b.width = width => b.copy # new.copy
  <2> HIDE DEF new, numbers
  <2> QED
    BY <1>4, <1>5
<1>7. IsBuffer(new) /\ new.width = width /\ new.released
  BY DEF NewBuffer, IsBuffer
<1> QED
  BY <1>6, <1>7

MayUseNew(pool, b, width) ==
  /\ IsBuffer(b) /\ b.width = width /\ b.released
  /\ \A c \in pool : c.width = width => c.copy # b.copy

LEMMA NewNames ==
  ASSUME NEW pool, Pool(pool), NEW width
  PROVE  /\ MayUseNew(pool, NewBuffer(pool, width, FALSE), width)
         /\ MayUseNew(pool, NewBuffer(pool, width, TRUE), width)
<1> DEFINE some == NewBuffer(pool, width, 0)
<1>1. \A b \in pool : b.width = width => b.copy # some.copy
  BY NewName
<1>2. NewBuffer(pool, width, FALSE).copy = some.copy /\ NewBuffer(pool, width, TRUE).copy = some.copy
  BY DEF NewBuffer
<1> HIDE DEF some
<1>3. \A b \in pool : b.width = width => /\ b.copy # NewBuffer(pool, width, FALSE).copy
                                        /\ b.copy # NewBuffer(pool, width, TRUE).copy
  BY <1>1, <1>2
<1>4. /\ IsBuffer(NewBuffer(pool, width, FALSE)) /\ IsBuffer(NewBuffer(pool, width, TRUE))
      /\ NewBuffer(pool, width, FALSE).width = width /\ NewBuffer(pool, width, TRUE).width = width
      /\ NewBuffer(pool, width, FALSE).released /\ NewBuffer(pool, width, TRUE).released
  BY DEF NewBuffer, IsBuffer
<1> QED
  BY <1>3, <1>4 DEF MayUseNew

\* What may be drawn into: nobody reads it.
MayUse(pool, b) ==
  /\ IsBuffer(b) /\ b.released
  /\ b \in pool \/ \A c \in pool : c.width = b.width => c.copy # b.copy

LEMMA CommitKeeps ==
  ASSUME NEW pool, Pool(pool), Reads(pool, compositor.reads), NEW b, MayUse(pool, b),
         NEW drawn, IsBuffer(drawn), drawn.width = b.width, drawn.copy = b.copy,
         NEW l, NEW continue, NEW opaque, CommitFrame(l, pool, b, drawn, continue, opaque)
  PROVE  BuffersOk'
<1> DEFINE held == [drawn EXCEPT !.released = FALSE]
           others == pool \ {b}
<1>1. /\ buffers' = others \cup {held}
      /\ compositor'.reads = compositor.reads \cup {<<b.width, b.copy>>}
      /\ "reads" \in DOMAIN compositor'
  BY DEF CommitFrame, Name
<1>2. IsBuffer(held) /\ ~held.released /\ held.width = b.width /\ held.copy = b.copy
  BY DEF IsBuffer
<1>3. \A c \in others : c.width = b.width => c.copy # b.copy
  BY DEF MayUse, Pool
<1>4. Pool(others)
  <2>1. IsFiniteSet(others)
    BY FS_Subset DEF Pool
  <2> QED
    BY <2>1 DEF Pool
<1>5. Reads(others, compositor.reads)
  BY DEF Reads, MayUse
<1> HIDE DEF held, others
<1>6. IsFiniteSet(others \cup {held})
  BY <1>4, FS_AddElement DEF Pool
<1>7. Pool(others \cup {held})
  BY <1>2, <1>3, <1>4, <1>6 DEF Pool
<1>8. Reads(others \cup {held}, compositor.reads \cup {<<b.width, b.copy>>})
  BY <1>2, <1>5 DEF Reads
<1> QED
  BY <1>1, <1>7, <1>8 DEF BuffersOk

LEMMA IterateKeeps ==
  ASSUME BuffersOk, Iterate
  PROVE  BuffersOk'
<1> DEFINE s == Collected
<1>1. Pool(s.pool) /\ Reads(s.pool, compositor.reads)
  BY CollectionsKeep DEF Collected, BuffersOk
<1>2. ASSUME NEW pool, Pool(pool), Reads(pool, compositor.reads), buffers' = pool,
             UNCHANGED compositor
      PROVE  BuffersOk'
  BY <1>2 DEF BuffersOk
<1>3. CASE Fails(s)
  <2>1. UNCHANGED compositor /\ buffers' = IF kind.panel THEN s.pool ELSE CollectIdle(s.pool, 0)
    BY <1>3 DEF Fails
  <2> HIDE DEF s
  <2> QED
    BY <1>1, <1>2, <2>1, CollectionsKeep
<1>4. CASE Keep(s)
  BY <1>1, <1>2, <1>4 DEF Keep
<1>5. CASE RenderPanel(s) /\ ~Keep(s) /\ ~Fails(s)
  <2> DEFINE pool == CollectStale(s.pool, BufferSize(s.l))
             frames == Acquire(pool, BufferSize(s.l))
  <2>1. Pool(pool) /\ Reads(pool, compositor.reads)
    <3> HIDE DEF s
    <3> QED
      BY <1>1, CollectionsKeep
  <2>2. CASE Keep([s EXCEPT !.pool = pool])
    BY <1>2, <2>1, <2>2 DEF Keep, Collected
  <2>3. ASSUME NEW b \in frames, NEW continue \in BOOLEAN,
               CommitFrame(s.l, pool, b, FrameDraw(s.l, b), continue, FALSE)
        PROVE  BuffersOk'
    <3> HIDE DEF s, pool
    <3>1. MayUse(pool, b)
      <4>1. CASE b \in Usable(pool, BufferSize(s.l))
        BY <2>1, <4>1 DEF MayUse, Usable, Matching, Pool
      <4>2. CASE b = NewBuffer(pool, BufferSize(s.l), FALSE)
        <5>1. MayUseNew(pool, b, BufferSize(s.l))
          BY <2>1, <4>2, NewNames
        <5> QED
          BY <5>1 DEF MayUse, MayUseNew
      <4> QED
        BY <2>3, <4>1, <4>2 DEF Acquire
    <3>2. IsBuffer(FrameDraw(s.l, b)) /\ FrameDraw(s.l, b).width = b.width /\ FrameDraw(s.l, b).copy = b.copy
      BY <3>1 DEF MayUse, IsBuffer, FrameDraw
    <3> QED
      BY <2>1, <2>3, <3>1, <3>2, CommitKeeps
  <2>4. \/ Keep([s EXCEPT !.pool = pool])
        \/ \E b \in frames, continue \in BOOLEAN :
             CommitFrame(s.l, pool, b, FrameDraw(s.l, b), continue, FALSE)
    BY <1>5 DEF RenderPanel
  <2> QED
    BY <2>2, <2>3, <2>4
<1>6. CASE RenderBackdrop(s) /\ ~Keep(s) /\ ~Fails(s)
  <2> DEFINE pool == Unadopted(s.pool)
             b == NewBuffer(pool, image, TRUE)
  <2>1. Pool(pool) /\ Reads(pool, compositor.reads)
    <3> HIDE DEF s
    <3> QED
      BY <1>1, CollectionsKeep
  <2>2. CASE UNCHANGED compositor /\ buffers' = s.pool
    BY <1>1, <1>2, <2>2
  <2>3. CASE CommitFrame(s.l, pool, b, b, FALSE, TRUE)
    <3> HIDE DEF pool
    <3>1. MayUseNew(pool, b, image)
      BY <2>1, NewNames
    <3> HIDE DEF b
    <3>2. MayUse(pool, b)
      BY <3>1 DEF MayUse, MayUseNew
    <3> QED
      BY <2>1, <2>3, <3>2, CommitKeeps DEF MayUse
  <2>4. (UNCHANGED compositor /\ buffers' = s.pool) \/ CommitFrame(s.l, pool, b, b, FALSE, TRUE)
    BY <1>6 DEF RenderBackdrop
  <2> QED
    BY <2>2, <2>3, <2>4
<1>7. RenderPanel(s) \/ RenderBackdrop(s)
  BY DEF Iterate
<1> QED
  BY <1>3, <1>4, <1>5, <1>6, <1>7

LEMMA ReleaseKeeps ==
  ASSUME BuffersOk, NEW name, Release(name)
  PROVE  BuffersOk'
<1> DEFINE Given(b) == [b EXCEPT !.released = @ \/ Name(b) = name]
<1>1. buffers' = {Given(b) : b \in buffers} /\ compositor'.reads = compositor.reads \ {name}
  <2>1. compositor' = [compositor EXCEPT !.reads = @ \ {name}] /\ "reads" \in DOMAIN compositor
    BY DEF Release, BuffersOk
  <2>2. compositor'.reads = compositor.reads \ {name}
    BY <2>1
  <2> QED
    BY <2>2 DEF Release
<1>2. IsFiniteSet(buffers')
  <2> DEFINE f == [b \in buffers |-> Given(b)]
  <2> HIDE DEF Given
  <2>1. f \in Surjection(buffers, buffers')
    BY <1>1 DEF Surjection
  <2> QED
    BY <2>1, FS_Surjection DEF BuffersOk, Pool
<1>3. \A b \in buffers : /\ IsBuffer(Given(b)) /\ Given(b).width = b.width /\ Given(b).copy = b.copy
                         /\ Name(b) # name /\ ~b.released => ~Given(b).released
  BY DEF BuffersOk, Pool, IsBuffer
<1> HIDE DEF Given
<1>4. Pool(buffers')
  BY <1>1, <1>2, <1>3 DEF BuffersOk, Pool
<1>5. Reads(buffers', compositor'.reads)
  BY <1>1, <1>3 DEF BuffersOk, Reads, Name
<1>6. "reads" \in DOMAIN compositor'
  BY DEF Release, BuffersOk
<1> QED
  BY <1>4, <1>5, <1>6 DEF BuffersOk

LEMMA InitBuffers == Init => BuffersOk
<1> SUFFICES ASSUME Init PROVE BuffersOk
  OBVIOUS
<1>1. PICK width : \/ buffers = {} /\ compositor.reads = {}
                   \/ /\ buffers = {[width |-> width, released |-> FALSE, adopted |-> FALSE,
                                     copy |-> 1, panel |-> {}, pixels |-> {}]}
                      /\ compositor.reads = {<<width, 1>>}
  <2>1. PICK width, a, s, f, d :
          /\ buffers = IF ~kind.panel /\ ~kind.viewport
                       THEN {[width |-> width, released |-> FALSE, adopted |-> FALSE, copy |-> 1,
                              panel |-> {}, pixels |-> {}]}
                       ELSE {}
          /\ compositor = [attached |-> a,
                           reads |-> IF ~kind.panel /\ ~kind.viewport THEN {<<width, 1>>} ELSE {},
                           scale |-> s, opaque |-> None, fits |-> f, destination |-> d]
    BY Zenon DEF Init
  <2>2. compositor.reads = IF ~kind.panel /\ ~kind.viewport THEN {<<width, 1>>} ELSE {}
    BY <2>1
  <2> QED
    BY <2>1, <2>2, Zenon
<1>2. "reads" \in DOMAIN compositor
  <2>1. PICK a, r, s, o, f, d :
          compositor = [attached |-> a, reads |-> r, scale |-> s, opaque |-> o, fits |-> f,
                        destination |-> d]
    BY Zenon DEF Init
  <2> QED
    BY <2>1
<1>3. IsFiniteSet(buffers)
  <2>1. buffers = {} \/ \E b : buffers = {b}
    BY <1>1, Zenon
  <2> QED
    BY <2>1, FS_EmptySet, FS_Singleton
<1>4. CASE buffers = {} /\ compositor.reads = {}
  BY <1>2, <1>3, <1>4 DEF BuffersOk, Pool, Reads
<1>5. CASE /\ buffers = {[width |-> width, released |-> FALSE, adopted |-> FALSE,
                          copy |-> 1, panel |-> {}, pixels |-> {}]}
           /\ compositor.reads = {<<width, 1>>}
  BY <1>2, <1>3, <1>5 DEF BuffersOk, Pool, Reads, IsBuffer
<1> QED
  BY <1>1, <1>4, <1>5

LEMMA NextBuffers == BuffersOk /\ [Next]_vars => BuffersOk'
<1> SUFFICES ASSUME BuffersOk, [Next]_vars PROVE BuffersOk'
  OBVIOUS
<1> DEFINE Same == UNCHANGED <<buffers, compositor>>
<1>1. CASE Same
  BY <1>1 DEF BuffersOk
<1>2. CASE Iterate
  BY <1>2, IterateKeeps
<1>3. ASSUME NEW name, Release(name) PROVE BuffersOk'
  BY <1>3, ReleaseKeeps
<1>4. ASSUME NEW x, NEW y, \/ Configure(x) \/ PreferBufferScale(x) \/ PreferScale(x)
                           \/ InheritScale(x, y) \/ Change
      PROVE  Same
  BY <1>4 DEF Configure, PreferBufferScale, PreferScale, InheritScale, Change, Event
<1>5. CASE FrameDone \/ Quiet \/ UNCHANGED vars
  BY <1>1, <1>5 DEF FrameDone, Quiet, vars
<1> QED
  BY <1>1, <1>2, <1>3, <1>4, <1>5 DEF Next

(* Whatever sizes come and go and whenever buffers are collected: what the *)
(* compositor reads is a buffer of the pool that is marked as held, which  *)
(* no acquire returns and no collection frees.                             *)
THEOREM HeldStays == Spec => []HeldUntouched
<1>1. BuffersOk => HeldUntouched
  BY DEF BuffersOk, Reads, HeldUntouched, Held, Name
<1> QED
  BY <1>1, InitBuffers, NextBuffers, PTL DEF Spec

-----------------------------------------------------------------------------
(* The geometry: what was sent is what the compositor has.                 *)

IsLayer(l) ==
  DOMAIN l = {"width", "scale", "fraction", "opaque", "sent", "needs_repaint", "frame_callback", "collect"}

\* What matters of the layer; the sent geometry never names a stale width.
LayerOk(l) ==
  /\ IsLayer(l)
  /\ l.width \in Widths /\ l.scale \in Scales \cup {1}
  /\ ~kind.fractional => l.fraction = None

Sends == [scale : Scales \cup {1}, width : Widths \cup {None}]

SentOk(l, c) ==
  /\ l.sent = None => kind.panel /\ c.destination = None
  /\ l.sent # None => /\ l.sent \in Sends
                      /\ c.scale = l.sent.scale /\ c.destination = l.sent.width
                      /\ ~kind.viewport => l.sent.width = None
                      /\ IF c.destination # None THEN c.destination = c.fits
                         ELSE c.attached[1] = c.fits * c.scale
  /\ c.opaque = l.opaque /\ c.opaque \in {None, c.fits}

GeometryOk == kind \in Kinds /\ LayerOk(layer) /\ SentOk(layer, compositor)

LEMMA GeometryType ==
  ASSUME NEW l, LayerOk(l), NEW b
  PROVE  /\ Geometry(l, b) \in Sends
         /\ ~kind.viewport => Geometry(l, b).width = None
         /\ Geometry(l, b).width \in {None, l.width}
<1>1. PICK s \in Scales \cup {1}, x \in {None, l.width} :
        Geometry(l, b) = [scale |-> s, width |-> x] /\ (~kind.viewport => x = None)
  BY DEF Geometry, LayerOk
<1>2. [scale |-> s, width |-> x] \in Sends
  <2>1. x \in Widths \cup {None}
    BY DEF LayerOk
  <2> QED
    BY <2>1 DEF Sends
<1> QED
  BY <1>1, <1>2

LEMMA CommitFits ==
  ASSUME NEW l, kind \in Kinds, LayerOk(l), SentOk(l, compositor), UNCHANGED kind,
         NEW pool, NEW b, NEW drawn, NEW continue, NEW opaque,
         kind.viewport \/ b.width = BufferSize(l),
         CommitFrame(l, pool, b, drawn, continue, opaque)
  PROVE  GeometryOk'
<1> DEFINE g == Geometry(l, b)
           c == compositor
<1>1. g \in Sends /\ (~kind.viewport => g.width = None) /\ g.width \in {None, l.width}
  BY GeometryType
<1>2. /\ compositor'.attached = Name(b) /\ compositor'.fits = l.width
      /\ compositor'.scale = IF l.sent = g THEN c.scale ELSE g.scale
      /\ compositor'.destination = IF l.sent = g THEN c.destination ELSE Destination(l, g)
      /\ compositor'.opaque = IF l.opaque = (IF opaque THEN l.width ELSE None)
                              THEN c.opaque ELSE (IF opaque THEN l.width ELSE None)
  BY DEF CommitFrame
<1>3. /\ IsLayer(layer') /\ layer'.width = l.width /\ layer'.scale = l.scale
      /\ layer'.fraction = l.fraction /\ layer'.sent = g
      /\ layer'.opaque = IF opaque THEN l.width ELSE None
  <2> HIDE DEF g
  <2> QED
    BY DEF CommitFrame, LayerOk, IsLayer, g
<1>4. g # None
  BY <1>1, NoneAssumption DEF Sends
<1>5. compositor'.scale = g.scale
  BY <1>2, <1>4 DEF SentOk
<1>6. compositor'.destination = g.width
  <2>1. CASE l.sent = g
    BY <1>2, <1>4, <2>1 DEF SentOk
  <2>2. CASE l.sent # g /\ g.width # None
    BY <1>2, <2>2 DEF Destination
  <2>3. CASE l.sent # g /\ g.width = None
    BY <1>2, <2>3 DEF Destination, SentOk
  <2> QED
    BY <2>1, <2>2, <2>3
<1>7. g.width = None => b.width = l.width * g.scale
  <2>1. SUFFICES ASSUME g.width = None PROVE b.width = l.width * g.scale
    OBVIOUS
  <2>2. l.width # None
    BY NoneAssumption DEF LayerOk
  <2>3. g.scale = l.scale /\ b.width = BufferSize(l) /\ (kind.viewport => l.fraction = None)
    BY <2>1, <2>2 DEF Geometry
  <2>4. l.fraction = None
    BY <2>3 DEF LayerOk, Kinds
  <2> QED
    BY <2>3, <2>4 DEF BufferSize
<1>8. compositor'.opaque = layer'.opaque /\ layer'.opaque \in {None, l.width}
  BY <1>2, <1>3 DEF SentOk
<1>9. LayerOk(layer')
  BY <1>3 DEF LayerOk
<1> HIDE DEF g
<1>10. SentOk(layer', compositor')
  BY <1>1, <1>2, <1>3, <1>4, <1>5, <1>6, <1>7, <1>8 DEF SentOk, Name
<1> QED
  BY <1>9, <1>10 DEF GeometryOk, LayerOk, SentOk

LEMMA IterateFits ==
  ASSUME GeometryOk, Iterate
  PROVE  GeometryOk'
<1> DEFINE s == Collected
<1>1. LayerOk(s.l) /\ SentOk(s.l, compositor) /\ kind \in Kinds /\ UNCHANGED kind
  <2>1. s.l = layer \/ s.l = [layer EXCEPT !.collect = "none"]
    BY DEF Collected
  <2>2. IsLayer(s.l) /\ s.l.width = layer.width /\ s.l.scale = layer.scale
        /\ s.l.fraction = layer.fraction /\ s.l.sent = layer.sent /\ s.l.opaque = layer.opaque
    BY <2>1 DEF GeometryOk, LayerOk, IsLayer
  <2> HIDE DEF s
  <2> QED
    BY <2>2 DEF GeometryOk, LayerOk, SentOk, Iterate
<1> HIDE DEF s
<1>2. CASE layer' = s.l /\ UNCHANGED compositor
  BY <1>1, <1>2 DEF GeometryOk, LayerOk, SentOk
<1>3. CASE Keep(s) \/ Fails(s)
  BY <1>2, <1>3 DEF Keep, Fails
<1>4. CASE RenderPanel(s) /\ ~Keep(s) /\ ~Fails(s)
  <2> DEFINE pool == CollectStale(s.pool, BufferSize(s.l))
             frames == Acquire(pool, BufferSize(s.l))
  <2>1. CASE Keep([s EXCEPT !.pool = pool])
    <3>1. [s EXCEPT !.pool = pool].l = s.l
      BY DEF s, Collected
    <3> QED
      BY <1>2, <2>1, <3>1 DEF Keep
  <2>2. ASSUME NEW b \in frames, NEW continue \in BOOLEAN,
               CommitFrame(s.l, pool, b, FrameDraw(s.l, b), continue, FALSE)
        PROVE  GeometryOk'
    <3> HIDE DEF pool
    <3>1. b.width = BufferSize(s.l)
      <4>1. CASE b \in Usable(pool, BufferSize(s.l))
        BY <4>1 DEF Usable, Matching
      <4>2. CASE b = NewBuffer(pool, BufferSize(s.l), FALSE)
        BY <4>2 DEF NewBuffer
      <4> QED
        BY <2>2, <4>1, <4>2 DEF Acquire
    <3> QED
      BY <1>1, <2>2, <3>1, CommitFits
  <2>3. \/ Keep([s EXCEPT !.pool = pool])
        \/ \E b \in frames, continue \in BOOLEAN :
             CommitFrame(s.l, pool, b, FrameDraw(s.l, b), continue, FALSE)
    BY <1>4 DEF RenderPanel
  <2> QED
    BY <2>1, <2>2, <2>3
<1>5. CASE RenderBackdrop(s) /\ ~Keep(s) /\ ~Fails(s)
  <2> DEFINE pool == Unadopted(s.pool)
             b == NewBuffer(pool, image, TRUE)
  <2>1. CASE layer' = [s.l EXCEPT !.needs_repaint = FALSE] /\ UNCHANGED compositor
    <3>1. IsLayer(layer') /\ layer'.width = s.l.width /\ layer'.scale = s.l.scale
          /\ layer'.fraction = s.l.fraction /\ layer'.sent = s.l.sent /\ layer'.opaque = s.l.opaque
      BY <1>1, <2>1 DEF LayerOk, IsLayer
    <3> QED
      BY <1>1, <2>1, <3>1 DEF GeometryOk, LayerOk, SentOk
  <2>2. CASE image = Target(s.l) /\ CommitFrame(s.l, pool, b, b, FALSE, TRUE)
    <3>1. b.width = image
      BY DEF NewBuffer
    <3>2. kind.viewport \/ b.width = BufferSize(s.l)
      BY <2>2, <3>1 DEF Target
    <3> HIDE DEF b, pool
    <3> QED
      BY <1>1, <2>2, <3>2, CommitFits
  <2>3. \/ layer' = [s.l EXCEPT !.needs_repaint = FALSE] /\ UNCHANGED compositor
        \/ image = Target(s.l) /\ CommitFrame(s.l, pool, b, b, FALSE, TRUE)
    BY <1>5 DEF RenderBackdrop
  <2> QED
    BY <2>1, <2>2, <2>3
<1>6. RenderPanel(s) \/ RenderBackdrop(s)
  BY DEF Iterate, s
<1> QED
  BY <1>3, <1>4, <1>5, <1>6

\* An event changes the size, a scale or flags, and nothing that was sent.
LEMMA EventFits ==
  ASSUME GeometryOk, UNCHANGED <<kind, compositor>>, IsLayer(layer'),
         layer'.width \in Widths, layer'.scale \in Scales \cup {1},
         ~kind.fractional => layer'.fraction = None,
         layer'.sent = layer.sent, layer'.opaque = layer.opaque
  PROVE  GeometryOk'
BY DEF GeometryOk, LayerOk, SentOk

LEMMA NextFits == GeometryOk /\ [Next]_vars => GeometryOk'
<1> SUFFICES ASSUME GeometryOk, [Next]_vars PROVE GeometryOk'
  OBVIOUS
<1>1. /\ IsLayer(layer) /\ layer.width \in Widths /\ layer.scale \in Scales \cup {1}
      /\ ~kind.fractional => layer.fraction = None
  BY DEF GeometryOk, LayerOk
<1>2. ASSUME NEW width \in Widths, Configure(width) PROVE GeometryOk'
  <2>1. layer' = [layer EXCEPT !.width = width, !.needs_repaint = TRUE] /\ UNCHANGED <<kind, compositor>>
    BY <1>2 DEF Configure, Event
  <2> QED
    BY <1>1, <2>1, EventFits DEF IsLayer
<1>3. ASSUME NEW scale \in Scales, PreferBufferScale(scale) PROVE GeometryOk'
  <2>1. layer' = [layer EXCEPT !.scale = scale, !.needs_repaint = TRUE] /\ UNCHANGED <<kind, compositor>>
    BY <1>3 DEF PreferBufferScale, Event
  <2> QED
    BY <1>1, <2>1, EventFits DEF IsLayer
<1>4. ASSUME NEW fraction, PreferScale(fraction) PROVE GeometryOk'
  <2>1. layer' = [layer EXCEPT !.fraction = fraction, !.needs_repaint = TRUE]
        /\ UNCHANGED <<kind, compositor>> /\ kind.fractional
    BY <1>4 DEF PreferScale, Event
  <2> QED
    BY <1>1, <2>1, EventFits DEF IsLayer
<1>5. ASSUME NEW fraction, NEW scale \in Scales, InheritScale(fraction, scale) PROVE GeometryOk'
  <2> DEFINE f == IF layer.fraction = None /\ kind.fractional THEN fraction ELSE layer.fraction
             n == IF layer.scale = 1 THEN scale ELSE layer.scale
  <2>1. layer' = [layer EXCEPT !.fraction = f, !.scale = n] /\ UNCHANGED <<kind, compositor>>
    BY <1>5 DEF InheritScale, Event
  <2>2. n \in Scales \cup {1} /\ (~kind.fractional => f = None)
    BY <1>1
  <2> HIDE DEF f, n
  <2> QED
    BY <1>1, <2>1, <2>2, EventFits DEF IsLayer
<1>6. ASSUME Change PROVE GeometryOk'
  <2>1. layer' = [layer EXCEPT !.needs_repaint = TRUE] /\ UNCHANGED <<kind, compositor>>
    BY <1>6 DEF Change, Event
  <2> QED
    BY <1>1, <2>1, EventFits DEF IsLayer
<1>7. ASSUME FrameDone \/ Quiet PROVE GeometryOk'
  <2>1. \/ layer' = [layer EXCEPT !.frame_callback = FALSE]
        \/ layer' = [layer EXCEPT !.collect = "over"]
    BY <1>7 DEF FrameDone, Quiet
  <2>2. UNCHANGED <<kind, compositor>>
    BY <1>7 DEF FrameDone, Quiet
  <2> QED
    BY <1>1, <2>1, <2>2, EventFits DEF IsLayer
<1>8. ASSUME NEW name, Release(name) PROVE GeometryOk'
  <2>1. compositor' = [compositor EXCEPT !.reads = @ \ {name}] /\ UNCHANGED <<kind, layer>>
    BY <1>8 DEF Release
  <2>2. /\ compositor'.attached = compositor.attached /\ compositor'.fits = compositor.fits
        /\ compositor'.scale = compositor.scale /\ compositor'.destination = compositor.destination
        /\ compositor'.opaque = compositor.opaque
    BY <2>1
  <2> QED
    BY <2>1, <2>2 DEF GeometryOk, LayerOk, SentOk
<1>9. CASE UNCHANGED vars
  BY <1>9 DEF vars, GeometryOk, LayerOk, SentOk
<1> QED
  BY <1>2, <1>3, <1>4, <1>5, <1>6, <1>7, <1>8, <1>9, IterateFits DEF Next

LEMMA InitFits == Init => GeometryOk
<1> SUFFICES ASSUME Init PROVE GeometryOk
  OBVIOUS
<1> DEFINE stretched == ~kind.panel /\ kind.viewport
           framed == ~kind.panel /\ ~kind.viewport
<1>1. PICK width \in Widths :
       /\ layer = [width |-> width, scale |-> 1, fraction |-> None, opaque |-> None,
                   sent |-> IF kind.panel THEN None
                            ELSE [scale |-> 1, width |-> IF stretched THEN width ELSE None],
                   needs_repaint |-> ~framed, frame_callback |-> framed,
                   collect |-> IF framed THEN "wait" ELSE "none"]
       /\ compositor = [attached |-> IF framed THEN <<width, 1>> ELSE <<1, None>>,
                        reads |-> IF framed THEN {<<width, 1>>} ELSE {},
                        scale |-> 1, opaque |-> None, fits |-> width,
                        destination |-> IF stretched THEN width ELSE None]
  BY DEF Init
<1>2. kind \in Kinds
  BY DEF Init
<1>3. LayerOk(layer)
  BY <1>1 DEF LayerOk, IsLayer
<1>4. width \in Nat /\ width # None
  BY WidthsAssumption, NoneAssumption
<1>5. SentOk(layer, compositor)
  BY <1>1, <1>2, <1>4, NoneAssumption DEF SentOk, Sends, Kinds
<1> QED
  BY <1>2, <1>3, <1>5 DEF GeometryOk

(* What persists from commit to commit, sent only when it changes, is what *)
(* the buffer on the screen needs, for every sequence of sizes and scales. *)
THEOREM GeometryStays == Spec => []GeometryFits
<1>1. GeometryOk => GeometryFits
  BY DEF GeometryOk, SentOk, GeometryFits
<1> QED
  BY <1>1, InitFits, NextFits, PTL DEF Spec

-----------------------------------------------------------------------------
(* What a buffer that is used again holds.                                 *)

LEMMA QuotientBound ==
  ASSUME NEW n \in Nat, NEW d \in Nat \ {0}, NEW q \in Nat, n < d * (q + 1)
  PROVE  n \div d \in Nat /\ n \div d <= q
OBVIOUS

\* A place of w, rounded to p pixels as lround does, is a place of p.
LEMMA RoundedInside ==
  ASSUME NEW w \in Nat \ {0}, NEW p \in Nat, NEW a \in 0 .. w
  PROVE  (2 * a * p + w) \div (2 * w) \in 0 .. p
<1> DEFINE n == 2 * a * p + w
           d == 2 * w
<1>1. a * p <= w * p /\ a * p \in Nat /\ w * p \in Nat
  OBVIOUS
<1>2. n \in Nat /\ d \in Nat \ {0} /\ n < d * (p + 1)
  BY <1>1
<1> HIDE DEF n, d
<1>3. n \div d \in Nat /\ n \div d <= p
  BY <1>2, QuotientBound
<1> QED
  BY <1>3 DEF n, d

\* The panel is inside of the buffer, whatever the sizes.
LEMMA PanelInside ==
  ASSUME NEW w \in Widths, NEW p \in Nat
  PROVE  PanelPixels(w, p) \subseteq 0 .. p - 1
<1> DEFINE place == IF Needed < w THEN Needed ELSE w
           free == w - place
           x == IF Gap < free THEN Gap ELSE free
           px(logical) == (2 * logical * p + w) \div (2 * w)
<1>1. w \in Nat \ {0} /\ Needed \in Nat /\ Gap \in Nat
  BY WidthsAssumption, PanelAssumption
<1>2. x \in 0 .. w /\ x + place \in 0 .. w
  BY <1>1
<1>3. PanelPixels(w, p) = px(x) .. px(x + place) - 1
  BY DEF PanelPixels
<1>4. \A a \in 0 .. w : px(a) \in 0 .. p
  BY <1>1, RoundedInside
<1> HIDE DEF place, x, px
<1>5. px(x) \in 0 .. p /\ px(x + place) \in 0 .. p
  BY <1>2, <1>4
<1> QED
  BY <1>3, <1>5

\* A buffer of the panel: nothing but the panel of its last frame is in it.
Clean(b) == b.width \in Nat /\ b.panel \subseteq 0 .. b.width - 1 /\ b.pixels = b.panel

LEMMA FrameIsClean ==
  ASSUME NEW l, l.width \in Widths, NEW b, IsBuffer(b), Clean(b)
  PROVE  /\ Clean(FrameDraw(l, b))
         /\ FrameDraw(l, b).panel = PanelPixels(l.width, b.width)
<1> DEFINE place == PanelPixels(l.width, b.width)
           drawn == FrameDraw(l, b)
<1>1. place \subseteq 0 .. b.width - 1
  BY PanelInside DEF Clean
<1>2. b.pixels \subseteq Damage(l, b)
  <2>1. CASE b.panel = {}
    BY <2>1 DEF Clean
  <2>2. CASE b.panel # {}
    <3>1. SUFFICES ASSUME NEW p \in b.panel PROVE p \in Damage(l, b)
      BY DEF Clean
    <3>2. p \in 0 .. b.width - 1 /\ p <= p
      BY DEF Clean
    <3> QED
      BY <2>2, <3>2 DEF Damage
  <2> QED
    BY <2>1, <2>2
<1>3. /\ drawn.width = b.width /\ drawn.panel = place
      /\ drawn.pixels = (b.pixels \ Damage(l, b)) \cup place
  <2> HIDE DEF place
  <2> QED
    BY DEF FrameDraw, IsBuffer, place
<1>4. drawn.pixels = place
  BY <1>2, <1>3
<1> QED
  BY <1>1, <1>3, <1>4 DEF Clean

\* Every buffer is clean, and the one on the screen has the panel of its size.
Painted(pool, c) ==
  \A b \in pool : /\ Clean(b)
                  /\ Name(b) = c.attached => b.panel = PanelPixels(c.fits, b.width)

SizesOk ==
  /\ IsLayer(layer) /\ layer.width \in Widths /\ layer.scale \in Scales \cup {1}
  /\ layer.fraction \in Fractions \cup {None}

DrawnOk == BuffersOk /\ SizesOk /\ (kind.panel => Painted(buffers, compositor))

LEMMA SizeIsNat ==
  ASSUME NEW l, l.width \in Widths, l.scale \in Scales \cup {1}, l.fraction \in Fractions \cup {None}
  PROVE  BufferSize(l) \in Nat
<1>1. l.width \in Nat /\ l.scale \in Nat
  <2>1. \A n \in Scales \cup {1} : n \in Nat
    BY ScalesAssumption
  <2> QED
    BY <2>1, WidthsAssumption
<1>2. CASE l.fraction = None
  BY <1>1, <1>2 DEF BufferSize
<1>3. CASE l.fraction # None
  <2>1. l.fraction \in Nat
    BY <1>3, ScalesAssumption
  <2> DEFINE n == l.width * l.fraction + 60
  <2>2. n \in Nat
    BY <1>1, <2>1
  <2> HIDE DEF n
  <2>3. n \div 120 \in Nat
    BY <2>2
  <2> QED
    BY <1>3, <2>3 DEF BufferSize, n
<1> QED
  BY <1>2, <1>3

LEMMA CommitDraws ==
  ASSUME NEW l, l.width \in Widths, NEW pool, Pool(pool), Painted(pool, compositor),
         NEW b, MayUse(pool, b), Clean(b), NEW continue, NEW opaque,
         CommitFrame(l, pool, b, FrameDraw(l, b), continue, opaque)
  PROVE  Painted(buffers', compositor')
<1> DEFINE drawn == FrameDraw(l, b)
           held == [drawn EXCEPT !.released = FALSE]
<1>1. Clean(drawn) /\ drawn.panel = PanelPixels(l.width, b.width)
  BY FrameIsClean DEF MayUse
<1>2. IsBuffer(drawn) /\ drawn.width = b.width /\ drawn.copy = b.copy
  BY DEF MayUse, IsBuffer, FrameDraw
<1>3. /\ buffers' = (pool \ {b}) \cup {held}
      /\ compositor'.attached = <<b.width, b.copy>> /\ compositor'.fits = l.width
  BY DEF CommitFrame, Name
<1> HIDE DEF drawn
<1>4. /\ held.width = b.width /\ held.copy = b.copy
      /\ held.panel = drawn.panel /\ held.pixels = drawn.pixels
  BY <1>2 DEF IsBuffer
<1> HIDE DEF held
<1>5. Clean(held) /\ held.panel = PanelPixels(l.width, held.width)
  BY <1>1, <1>2, <1>4 DEF Clean
<1>6. \A c \in pool \ {b} : Clean(c) /\ Name(c) # <<b.width, b.copy>>
  BY DEF Painted, MayUse, Pool, Name
<1> QED
  BY <1>3, <1>5, <1>6 DEF Painted

LEMMA IterateDraws ==
  ASSUME DrawnOk, Iterate
  PROVE  DrawnOk'
<1> DEFINE s == Collected
<1>1. BuffersOk'
  BY IterateKeeps DEF DrawnOk
<1>2. Pool(s.pool) /\ s.pool \subseteq buffers
  <2>1. s.pool = buffers \/ \E width : s.pool = CollectIdle(buffers, width)
    BY DEF Collected
  <2>2. \A width : CollectIdle(buffers, width) \subseteq buffers
    <3> SUFFICES ASSUME NEW width PROVE CollectIdle(buffers, width) \subseteq buffers
      OBVIOUS
    <3> DEFINE spares == {b \in buffers : b.width = width /\ b.released}
    <3>1. spares # {} => (CHOOSE b \in spares : TRUE) \in spares
      OBVIOUS
    <3> QED
      BY <3>1 DEF CollectIdle, Held
  <2> HIDE DEF s
  <2>3. Pool(buffers) /\ Reads(buffers, compositor.reads)
    BY DEF DrawnOk, BuffersOk
  <2> QED
    BY <2>1, <2>2, <2>3, CollectionsKeep
<1>3. /\ IsLayer(s.l) /\ s.l.width = layer.width /\ s.l.scale = layer.scale
      /\ s.l.fraction = layer.fraction
  <2>1. s.l = layer \/ s.l = [layer EXCEPT !.collect = "none"]
    BY DEF Collected
  <2> HIDE DEF s
  <2> QED
    BY <2>1 DEF DrawnOk, SizesOk, IsLayer
<1>4. SizesOk'
  <2>1. \/ layer' = s.l \/ layer' = [s.l EXCEPT !.needs_repaint = FALSE]
        \/ \E pool, b, drawn, continue, opaque : CommitFrame(s.l, pool, b, drawn, continue, opaque)
    <3> HIDE DEF s
    <3>1. CASE RenderPanel(s)
      <4>1. \A pool : [s EXCEPT !.pool = pool].l = s.l
        BY DEF s, Collected
      <4> QED
        BY <3>1, <4>1, Zenon DEF RenderPanel, Keep, Fails
    <3>2. CASE RenderBackdrop(s)
      BY <3>2, Zenon DEF RenderBackdrop, Keep, Fails
    <3> QED
      BY <3>1, <3>2 DEF Iterate, s
  <2> HIDE DEF s
  <2>2. ASSUME NEW pool, NEW b, NEW drawn, NEW continue, NEW opaque,
               CommitFrame(s.l, pool, b, drawn, continue, opaque)
        PROVE  IsLayer(layer') /\ layer'.width = s.l.width /\ layer'.scale = s.l.scale
               /\ layer'.fraction = s.l.fraction
    <3> DEFINE g == Geometry(s.l, b)
    <3>1. \E region : layer' = [s.l EXCEPT !.sent = g, !.opaque = region, !.needs_repaint = continue,
                                     !.frame_callback = TRUE, !.collect = "wait"]
      BY <2>2, Zenon DEF CommitFrame
    <3> HIDE DEF g
    <3> QED
      BY <1>3, <3>1 DEF IsLayer
  <2>3. IsLayer(layer') /\ layer'.width = s.l.width /\ layer'.scale = s.l.scale
        /\ layer'.fraction = s.l.fraction
    BY <1>3, <2>1, <2>2 DEF IsLayer
  <2> QED
    BY <1>3, <2>3 DEF DrawnOk, SizesOk
<1>5. SUFFICES ASSUME kind.panel PROVE Painted(buffers', compositor')
  BY <1>1, <1>4 DEF DrawnOk, Iterate, Painted
<1>6. RenderPanel(s) /\ Painted(s.pool, compositor)
  BY <1>2, <1>5 DEF Iterate, DrawnOk, Painted
<1>7. s.l.width \in Widths /\ BufferSize(s.l) \in Nat
  BY <1>3, SizeIsNat DEF DrawnOk, SizesOk
<1> HIDE DEF s
<1> DEFINE pool == CollectStale(s.pool, BufferSize(s.l))
           frames == Acquire(pool, BufferSize(s.l))
<1>8. pool \subseteq s.pool
  BY DEF CollectStale, Held, Matching
<1>9. Pool(pool) /\ Painted(pool, compositor)
  <2>1. IsFiniteSet(pool)
    BY <1>2, <1>8, FS_Subset DEF Pool
  <2> HIDE DEF pool
  <2> QED
    BY <1>2, <1>6, <1>8, <2>1 DEF Pool, Painted
<1>10. CASE UNCHANGED compositor /\ (buffers' = s.pool \/ buffers' = pool)
  BY <1>6, <1>9, <1>10
<1>11. ASSUME NEW b \in frames, NEW continue \in BOOLEAN,
              CommitFrame(s.l, pool, b, FrameDraw(s.l, b), continue, FALSE)
       PROVE  Painted(buffers', compositor')
  <2> HIDE DEF pool
  <2>1. CASE b \in Usable(pool, BufferSize(s.l))
    <3>1. MayUse(pool, b) /\ Clean(b)
      BY <1>9, <2>1 DEF MayUse, Usable, Matching, Pool, Painted
    <3> QED
      BY <1>7, <1>9, <1>11, <3>1, CommitDraws
  <2>2. CASE b = NewBuffer(pool, BufferSize(s.l), FALSE)
    <3>1. MayUseNew(pool, b, BufferSize(s.l))
      BY <1>9, <2>2, NewNames
    <3>2. b.panel = {} /\ b.pixels = {}
      BY <2>2 DEF NewBuffer
    <3>3. MayUse(pool, b) /\ Clean(b)
      BY <1>7, <3>1, <3>2 DEF MayUse, MayUseNew, Clean
    <3> QED
      BY <1>7, <1>9, <1>11, <3>3, CommitDraws
  <2> QED
    BY <1>11, <2>1, <2>2 DEF Acquire
<1>12. \/ UNCHANGED compositor /\ (buffers' = s.pool \/ buffers' = pool)
       \/ \E b \in frames, continue \in BOOLEAN :
            CommitFrame(s.l, pool, b, FrameDraw(s.l, b), continue, FALSE)
  <2>1. [s EXCEPT !.pool = pool].pool = pool
    <3> HIDE DEF pool
    <3> QED
      BY DEF s, Collected
  <2> QED
    BY <1>5, <1>6, <2>1, Zenon DEF RenderPanel, Keep, Fails
<1> QED
  BY <1>10, <1>11, <1>12

LEMMA ReleaseDraws ==
  ASSUME DrawnOk, NEW name, Release(name)
  PROVE  DrawnOk'
<1> DEFINE Given(b) == [b EXCEPT !.released = @ \/ Name(b) = name]
<1>1. BuffersOk' /\ SizesOk'
  BY ReleaseKeeps DEF DrawnOk, SizesOk, Release
<1>2. buffers' = {Given(b) : b \in buffers}
  BY DEF Release
<1>3. compositor'.attached = compositor.attached /\ compositor'.fits = compositor.fits
  <2>1. compositor' = [compositor EXCEPT !.reads = @ \ {name}]
    BY DEF Release
  <2> QED
    BY <2>1
<1>4. \A b \in buffers : /\ Given(b).width = b.width /\ Given(b).copy = b.copy
                         /\ Given(b).panel = b.panel /\ Given(b).pixels = b.pixels
  BY DEF DrawnOk, BuffersOk, Pool, IsBuffer
<1> HIDE DEF Given
<1>5. kind.panel => Painted(buffers', compositor')
  BY <1>2, <1>3, <1>4 DEF DrawnOk, Painted, Clean, Name
<1> QED
  BY <1>1, <1>5 DEF DrawnOk, Release

LEMMA NextDraws == DrawnOk /\ [Next]_vars => DrawnOk'
<1> SUFFICES ASSUME DrawnOk, [Next]_vars PROVE DrawnOk'
  OBVIOUS
<1> DEFINE Same == UNCHANGED <<kind, buffers, compositor>>
<1>1. IsLayer(layer) /\ layer.width \in Widths /\ layer.scale \in Scales \cup {1}
      /\ layer.fraction \in Fractions \cup {None} /\ BuffersOk'
  BY NextBuffers DEF DrawnOk, SizesOk
<1>2. ASSUME Same, SizesOk' PROVE DrawnOk'
  BY <1>1, <1>2 DEF DrawnOk, Painted
<1>3. ASSUME NEW width \in Widths, Configure(width) PROVE DrawnOk'
  <2>1. layer' = [layer EXCEPT !.width = width, !.needs_repaint = TRUE] /\ Same
    BY <1>3 DEF Configure, Event
  <2> QED
    BY <1>1, <1>2, <2>1 DEF SizesOk, IsLayer
<1>4. ASSUME NEW scale \in Scales, PreferBufferScale(scale) PROVE DrawnOk'
  <2>1. layer' = [layer EXCEPT !.scale = scale, !.needs_repaint = TRUE] /\ Same
    BY <1>4 DEF PreferBufferScale, Event
  <2> QED
    BY <1>1, <1>2, <2>1 DEF SizesOk, IsLayer
<1>5. ASSUME NEW fraction \in Fractions, PreferScale(fraction) PROVE DrawnOk'
  <2>1. layer' = [layer EXCEPT !.fraction = fraction, !.needs_repaint = TRUE] /\ Same
    BY <1>5 DEF PreferScale, Event
  <2> QED
    BY <1>1, <1>2, <2>1 DEF SizesOk, IsLayer
<1>6. ASSUME NEW fraction \in Fractions \cup {None}, NEW scale \in Scales, InheritScale(fraction, scale)
      PROVE  DrawnOk'
  <2> DEFINE f == IF layer.fraction = None /\ kind.fractional THEN fraction ELSE layer.fraction
             n == IF layer.scale = 1 THEN scale ELSE layer.scale
  <2>1. layer' = [layer EXCEPT !.fraction = f, !.scale = n] /\ Same
    BY <1>6 DEF InheritScale, Event
  <2>2. n \in Scales \cup {1} /\ f \in Fractions \cup {None}
    BY <1>1
  <2> HIDE DEF f, n
  <2> QED
    BY <1>1, <1>2, <2>1, <2>2 DEF SizesOk, IsLayer
<1>7. ASSUME Change PROVE DrawnOk'
  <2>1. layer' = [layer EXCEPT !.needs_repaint = TRUE] /\ Same
    BY <1>7 DEF Change, Event
  <2> QED
    BY <1>1, <1>2, <2>1 DEF SizesOk, IsLayer
<1>8. ASSUME FrameDone \/ Quiet PROVE DrawnOk'
  <2>1. \/ layer' = [layer EXCEPT !.frame_callback = FALSE]
        \/ layer' = [layer EXCEPT !.collect = "over"]
    BY <1>8 DEF FrameDone, Quiet
  <2>2. Same
    BY <1>8 DEF FrameDone, Quiet
  <2> QED
    BY <1>1, <1>2, <2>1, <2>2 DEF SizesOk, IsLayer
<1>9. CASE UNCHANGED vars
  BY <1>1, <1>2, <1>9 DEF vars, SizesOk
<1> QED
  BY <1>3, <1>4, <1>5, <1>6, <1>7, <1>8, <1>9, IterateDraws, ReleaseDraws DEF Next

LEMMA InitDraws == Init => DrawnOk
<1> SUFFICES ASSUME Init PROVE DrawnOk
  OBVIOUS
<1>1. BuffersOk
  BY InitBuffers
<1>2. SizesOk
  <2>1. PICK width \in Widths : \E o, s, n, f, c :
          layer = [width |-> width, scale |-> 1, fraction |-> None, opaque |-> o, sent |-> s,
                   needs_repaint |-> n, frame_callback |-> f, collect |-> c]
    BY Zenon DEF Init
  <2> QED
    BY <2>1 DEF SizesOk, IsLayer
<1>3. kind.panel => buffers = {}
  BY DEF Init
<1> QED
  BY <1>1, <1>2, <1>3 DEF DrawnOk, Painted

(* A buffer that comes back after the panel has moved or been resized, and *)
(* other buffers have been shown, is drawn from where the panel was in it  *)
(* to where it is now: of any earlier frame nothing is left, for all sizes *)
(* and scales and every place of the panel (frame.c:237).                  *)
THEOREM NothingStays == Spec => []NothingLeftBehind
<1>1. DrawnOk => NothingLeftBehind
  BY DEF DrawnOk, Painted, Clean, NothingLeftBehind
<1> QED
  BY <1>1, InitDraws, NextDraws, PTL DEF Spec

-----------------------------------------------------------------------------
(* The layout and the panel.                                               *)

ConfigOk(c) ==
  c \in [width : Nat \ {0}, height : Nat \ {0}, spacing : Nat, margin : Nat,
         columns : Nat \ {0}, rows : Nat \ {0}, carousel : BOOLEAN,
         position : {"center", "top", "bottom", "left", "right"}, edge : {"clip", "fade", "peek"},
         edge_margin : Nat, overflow : Nat, zoom : BOOLEAN, animated : BOOLEAN]

SizeOk(size) == size \in [width : Nat, height : Nat]

LEMMA ConfigFields ==
  ASSUME NEW c, ConfigOk(c)
  PROVE  /\ c.width \in Nat \ {0} /\ c.height \in Nat \ {0} /\ c.spacing \in Nat /\ c.margin \in Nat
         /\ c.columns \in Nat \ {0} /\ c.rows \in Nat \ {0} /\ c.edge_margin \in Nat
         /\ c.overflow \in Nat /\ c.edge \in {"clip", "fade", "peek"} /\ c.zoom \in BOOLEAN
         /\ c.width + c.spacing \in Nat \ {0} /\ c.height + c.spacing \in Nat \ {0}
BY DEF ConfigOk

\* As many cells as there is room for, and at least one.
LEMMA CellsFit ==
  ASSUME NEW c, ConfigOk(c), NEW available \in Nat, NEW tile \in Nat \ {0}, NEW maximum \in Nat \ {0}
  PROVE  LET cells == FitCells(c, available, tile, maximum)
         IN  /\ cells \in Nat \ {0}
             /\ available >= tile + 2 * c.margin =>
                  cells * (tile + c.spacing) <= available - 2 * c.margin + c.spacing
<1> DEFINE room == available - 2 * c.margin + c.spacing
           step == tile + c.spacing
           fit == room \div step
           cells == FitCells(c, available, tile, maximum)
<1>1. c.margin \in Nat /\ c.spacing \in Nat /\ step \in Nat \ {0}
  BY ConfigFields
<1>2. CASE available <= 2 * c.margin
  BY <1>1, <1>2 DEF FitCells
<1>3. CASE available > 2 * c.margin
  <2>1. room \in Nat
    BY <1>1, <1>3
  <2>2. fit \in Nat /\ step * fit <= room
    <3> HIDE DEF step, room
    <3> QED
      BY <1>1, <2>1, Quotient
  <2>3. cells = Larger(1, Smaller(maximum, fit))
    BY <1>1, <1>3 DEF FitCells
  <2> HIDE DEF room, step, fit, cells
  <2>4. cells \in Nat \ {0} /\ (fit >= 1 => cells <= fit)
    BY <2>2, <2>3 DEF Larger, Smaller
  <2>5. ASSUME room >= step PROVE cells * step <= room
    <3>1. fit >= 1
      <4>1. fit = 0 => room < step
        BY <1>1, <2>1, Quotient DEF fit
      <4> QED
        BY <1>1, <2>1, <2>2, <2>5, <4>1
    <3>2. cells * step <= fit * step
      BY <1>1, <2>2, <2>4, <3>1
    <3> QED
      BY <1>1, <2>1, <2>2, <2>4, <3>2
  <2>6. available >= tile + 2 * c.margin => room >= step
    BY <1>1 DEF room, step
  <2> QED
    BY <2>4, <2>5, <2>6 DEF room, step, cells
<1> QED
  BY <1>1, <1>2, <1>3

\* The layouts of matuwall_layout_adapt.
Adapted(l) ==
  /\ l \in [flow : Flows, columns : Nat \ {0}, visible_rows : Nat \ {0}]
  /\ l.flow = "vertical" => l.columns = 1
  /\ l.flow = "horizontal" => l.visible_rows = 1

LEMMA RoomFacts ==
  ASSUME NEW c, ConfigOk(c), NEW size, SizeOk(size)
  PROVE  LET room == Available(c, size)
         IN  /\ room.width \in Nat /\ room.width <= size.width
             /\ room.height \in Nat /\ room.height <= size.height
BY ConfigFields DEF Available, Monus, Larger, SizeOk

LEMMA AdaptFacts ==
  ASSUME NEW c, ConfigOk(c), NEW size, SizeOk(size)
  PROVE  LET l == Adapt(c, size)
             room == Available(c, size)
         IN  /\ Adapted(l)
             /\ l.flow # "vertical" /\ room.width >= c.width + 2 * c.margin =>
                  l.columns * (c.width + c.spacing) <= room.width - 2 * c.margin + c.spacing
<1> DEFINE room == Available(c, size)
           columns == FitCells(c, room.width, c.width, c.columns)
           rows(n) == FitCells(c, room.height, c.height, n)
<1>1. room.width \in Nat /\ room.height \in Nat
  BY RoomFacts
<1>2. /\ c.width \in Nat \ {0} /\ c.height \in Nat \ {0}
      /\ c.columns \in Nat \ {0} /\ c.rows \in Nat \ {0}
  BY ConfigFields
<1> HIDE DEF room
<1>3. /\ columns \in Nat \ {0}
      /\ room.width >= c.width + 2 * c.margin =>
           columns * (c.width + c.spacing) <= room.width - 2 * c.margin + c.spacing
  BY <1>1, <1>2, CellsFit
<1>4. rows(c.columns) \in Nat \ {0} /\ rows(c.rows) \in Nat \ {0}
  BY <1>1, <1>2, CellsFit
<1>5. Adapt(c, size) \in
        {[flow |-> "vertical", columns |-> 1, visible_rows |-> rows(c.columns)],
         [flow |-> "horizontal", columns |-> columns, visible_rows |-> 1],
         [flow |-> "grid", columns |-> columns, visible_rows |-> rows(c.rows)]}
  BY DEF Adapt, room
<1> HIDE DEF columns, rows
<1> QED
  BY <1>3, <1>4, <1>5 DEF Adapted, Flows, room

LEMMA RowsFacts ==
  ASSUME NEW l, l.columns \in Nat \ {0}, NEW n \in Nat \ {0}
  PROVE  Rows(l, n) \in Nat \ {0}
<1> DEFINE k == n + l.columns - 1
<1>1. k \in Nat /\ k >= l.columns
  OBVIOUS
<1>2. k \div l.columns \in Nat /\ l.columns * (k \div l.columns) <= k
      /\ k < l.columns * (k \div l.columns) + l.columns
  BY <1>1, Quotient
<1>3. Rows(l, n) = k \div l.columns
  BY DEF Rows
<1> HIDE DEF k
<1>4. k \div l.columns # 0
  BY <1>1, <1>2
<1> QED
  BY <1>2, <1>3, <1>4

\* What the panel needs, with so many columns and rows.
LEMMA SurfaceSizeFacts ==
  ASSUME NEW c, ConfigOk(c), NEW l, Adapted(l), NEW n \in Nat \ {0}
  PROVE  LET need == SurfaceSize(c, l, n)
             columns == IF l.flow = "grid" THEN Smaller(l.columns, n) ELSE l.columns
             rows == IF l.flow = "vertical" THEN l.visible_rows ELSE Smaller(Rows(l, n), l.visible_rows)
         IN  /\ columns \in Nat \ {0} /\ rows \in Nat \ {0}
             /\ need.width = 2 * c.margin + columns * (c.width + c.spacing) - c.spacing
             /\ need.height = 2 * c.margin + rows * (c.height + c.spacing) - c.spacing
             /\ need.width \in Nat /\ need.height \in Nat
<1> DEFINE columns == IF l.flow = "grid" THEN Smaller(l.columns, n) ELSE l.columns
           rows == IF l.flow = "vertical" THEN l.visible_rows ELSE Smaller(Rows(l, n), l.visible_rows)
           need == SurfaceSize(c, l, n)
<1>1. l.columns \in Nat \ {0} /\ l.visible_rows \in Nat \ {0} /\ Rows(l, n) \in Nat \ {0}
  BY RowsFacts DEF Adapted
<1>2. columns \in Nat \ {0} /\ rows \in Nat \ {0}
  BY <1>1 DEF Smaller
<1>3. need = [width |-> 2 * c.margin + columns * (c.width + c.spacing) - c.spacing,
              height |-> 2 * c.margin + rows * (c.height + c.spacing) - c.spacing]
  BY DEF SurfaceSize
<1> HIDE DEF columns, rows, need
<1>4. c.margin \in Nat /\ c.spacing \in Nat /\ c.width \in Nat /\ c.height \in Nat
  BY ConfigFields
<1>5. \A k \in Nat \ {0}, a \in Nat, s \in Nat : k * (a + s) \in Nat /\ k * (a + s) >= s
  OBVIOUS
<1>6. columns * (c.width + c.spacing) \in Nat /\ columns * (c.width + c.spacing) >= c.spacing
      /\ rows * (c.height + c.spacing) \in Nat /\ rows * (c.height + c.spacing) >= c.spacing
  BY <1>2, <1>4, <1>5
<1>7. need.width \in Nat /\ need.height \in Nat
  BY <1>3, <1>4, <1>6
<1> QED
  BY <1>2, <1>3, <1>7 DEF columns, rows, need

RectOk(p) == p \in [width : Nat, height : Nat, x : Nat, y : Nat]

LEMMA PanelRectFacts ==
  ASSUME NEW c, ConfigOk(c), NEW l, Adapted(l), NEW n \in Nat \ {0}, NEW size, SizeOk(size)
  PROVE  LET p == PanelRect(c, l, n, size)
             need == SurfaceSize(c, l, n)
         IN  /\ RectOk(p)
             /\ p.width = Smaller(need.width, size.width)
             /\ p.height = Smaller(need.height, size.height)
<1> DEFINE need == SurfaceSize(c, l, n)
           width == Smaller(need.width, size.width)
           height == Smaller(need.height, size.height)
           p == PanelRect(c, l, n, size)
<1>1. need.width \in Nat /\ need.height \in Nat /\ size.width \in Nat /\ size.height \in Nat
      /\ c.edge_margin \in Nat
  BY SurfaceSizeFacts, ConfigFields DEF SizeOk
<1> HIDE DEF need
<1>2. width \in Nat /\ height \in Nat /\ width <= size.width /\ height <= size.height
  BY <1>1 DEF Smaller
<1>3. p.width = width /\ p.height = height /\ DOMAIN p = {"width", "height", "x", "y"}
  BY DEF PanelRect, need
<1> DEFINE free_x == size.width - width
           free_y == size.height - height
<1>4. /\ p.x \in {Smaller(c.edge_margin, free_x), free_x - Smaller(c.edge_margin, free_x), free_x \div 2}
      /\ p.y \in {Smaller(c.edge_margin, free_y), free_y - Smaller(c.edge_margin, free_y), free_y \div 2}
  BY DEF PanelRect, need
<1> HIDE DEF width, height
<1>5. free_x \in Nat /\ free_y \in Nat
  BY <1>1, <1>2
<1> HIDE DEF free_x, free_y
<1>6. p.x \in Nat /\ p.y \in Nat
  BY <1>1, <1>4, <1>5 DEF Smaller
<1>7. p = [width |-> p.width, height |-> p.height, x |-> p.x, y |-> p.y]
  BY DEF PanelRect
<1> HIDE DEF p
<1> QED
  BY <1>2, <1>3, <1>6, <1>7 DEF RectOk, width, height, need, p

\* The rows of tiles between the margins of a panel.
LEMMA VisibleRowsFacts ==
  ASSUME NEW c, ConfigOk(c), NEW height \in Nat
  PROVE  LET rows == VisibleRows(c, height)
         IN  /\ rows \in Nat \ {0}
             /\ height >= c.height + 2 * c.margin =>
                  rows * (c.height + c.spacing) <= height - 2 * c.margin + c.spacing
<1> DEFINE room == Monus(height, 2 * c.margin) + c.spacing
           step == c.height + c.spacing
           fit == room \div step
           rows == VisibleRows(c, height)
<1>1. c.margin \in Nat /\ c.spacing \in Nat /\ c.height \in Nat \ {0} /\ step \in Nat \ {0}
  BY ConfigFields
<1>2. room \in Nat /\ (height >= 2 * c.margin => room = height - 2 * c.margin + c.spacing)
  BY <1>1 DEF Monus, Larger
<1>3. rows = Larger(1, fit)
  BY DEF VisibleRows
<1> HIDE DEF room, step, rows
<1>4. fit \in Nat /\ step * fit <= room /\ room < step * fit + step
  BY <1>1, <1>2, Quotient
<1> HIDE DEF fit
<1>5. rows \in Nat \ {0} /\ (fit >= 1 => rows = fit)
  BY <1>3, <1>4 DEF Larger
<1>6. ASSUME height >= c.height + 2 * c.margin PROVE rows * step <= height - 2 * c.margin + c.spacing
  <2>1. room = height - 2 * c.margin + c.spacing /\ room >= step
    BY <1>1, <1>2, <1>6 DEF step
  <2>2. fit # 0
    BY <1>1, <1>2, <1>4, <2>1
  <2>3. rows = fit
    BY <1>4, <1>5, <2>2
  <2>4. rows * step = step * fit
    BY <1>1, <1>4, <2>3
  <2> QED
    BY <1>4, <2>1, <2>4
<1> QED
  BY <1>5, <1>6 DEF step, rows

LEMMA FittedIsOk ==
  ASSUME NEW c, ConfigOk(c), NEW l, Adapted(l), NEW p, RectOk(p)
  PROVE  /\ LayoutOk(GridLayout(c, l, p))
         /\ GridLayout(c, l, p).flow = l.flow /\ GridLayout(c, l, p).columns = l.columns
         /\ GridLayout(c, l, p).rows = VisibleRows(c, p.height)
BY VisibleRowsFacts DEF GridLayout, LayoutOk, Adapted, RectOk

LEMMA ScrollIsInt ==
  ASSUME NEW c, ConfigOk(c), NEW l, NEW p, RectOk(p), NEW g, GridOk(g)
  PROVE  Scroll(c, l, p, g) \in Int
<1>1. /\ c.margin \in Int /\ c.width \in Int /\ c.height \in Int
      /\ c.width + c.spacing \in Int /\ c.height + c.spacing \in Int
  BY ConfigFields
<1>2. g.cursor \in Int /\ g.first_row \in Int /\ p.width \in Int /\ p.height \in Int
  BY DEF GridOk, RectOk
<1>3. \A a, b \in Int : a * b \in Int
  OBVIOUS
<1>4. g.cursor * (c.width + c.spacing) \in Int /\ g.cursor * (c.height + c.spacing) \in Int
      /\ 2 * g.first_row * (c.height + c.spacing) \in Int
  BY <1>1, <1>2, <1>3
<1> QED
  BY <1>1, <1>2, <1>4 DEF Scroll

LEMMA EasedIsInt ==
  ASSUME NEW from \in Int, NEW to \in Int, NEW tick \in Int
  PROVE  Eased(from, to, tick) \in Int
<1> DEFINE left == (Duration - tick) * (Duration - tick) * (Duration - tick)
           whole == Duration * Duration * Duration
<1>1. Duration \in Nat \ {0}
  BY PaceAssumption
<1>2. \A a, b \in Int : a * b \in Int
  OBVIOUS
<1>3. \A a, b \in Nat \ {0} : a * b \in Nat \ {0}
  OBVIOUS
<1>4. left \in Int
  <2>1. Duration - tick \in Int
    BY <1>1
  <2> QED
    BY <1>2, <2>1
<1>5. whole \in Nat \ {0}
  BY <1>1, <1>3
<1>6. Eased(from, to, tick) = from + ((to - from) * (whole - left)) \div whole
  BY DEF Eased
<1> HIDE DEF left, whole
<1>7. (to - from) * (whole - left) \in Int
  <2>1. to - from \in Int /\ whole - left \in Int
    BY <1>4, <1>5
  <2> QED
    BY <1>2, <2>1
<1>8. \A a \in Int, d \in Nat \ {0} : a \div d \in Int
  OBVIOUS
<1> QED
  BY <1>5, <1>6, <1>7, <1>8

-----------------------------------------------------------------------------
(* The selection: an item of the folder, in the place of the cursor.       *)

\* slot_index of the cursor.
Placed(g, l, c) ==
  /\ GridOk(g) /\ g.selected < c
  /\ g.cursor \in MinSlot .. MaxSlot
  /\ l.flow = "grid" => g.cursor = g.selected
  /\ l.flow # "grid" => CarouselIndex(g.cursor, c) = g.selected

\* The row of the selected item is on screen; a carousel has no rows.
InView(g, l) ==
  l.flow = "grid" => /\ g.first_row <= RowOf(l, g.selected)
                     /\ RowOf(l, g.selected) < g.first_row + l.rows

LEMMA RowIsBelowRows ==
  ASSUME NEW c \in Nat \ {0}, NEW l, l.columns \in Nat \ {0}, NEW i \in Nat, i < c
  PROVE  RowOf(l, i) \in Nat /\ RowOf(l, i) < Rows(l, c)
<1> DEFINE k == c + l.columns - 1
           row == i \div l.columns
           rows == k \div l.columns
<1>1. k \in Nat /\ l.columns \in Nat \ {0} /\ i <= k - l.columns
  OBVIOUS
<1>2. row \in Nat /\ l.columns * row <= i
  BY Quotient
<1>3. rows \in Nat /\ k < l.columns * rows + l.columns
  <2> HIDE DEF k
  <2> QED
    BY <1>1, Quotient
<1> HIDE DEF row, rows, k
<1>4. ASSUME rows <= row PROVE FALSE
  <2>1. l.columns * rows <= l.columns * row
    BY <1>1, <1>2, <1>3, <1>4
  <2>2. l.columns * rows \in Nat /\ l.columns * row \in Nat
    BY <1>1, <1>2, <1>3
  <2> QED
    BY <1>1, <1>2, <1>3, <2>1, <2>2
<1>5. row < rows
  BY <1>2, <1>3, <1>4
<1> QED
  BY <1>2, <1>5 DEF RowOf, Rows, row, rows, k

LEMMA ScrollShows ==
  ASSUME NEW c \in Nat \ {0}, NEW l, LayoutOk(l), NEW g, GridOk(g), g.selected < c
  PROVE  LET h == ScrollIntoView(g, l, c)
         IN  /\ GridOk(h) /\ h.selected = g.selected /\ h.cursor = g.cursor
             /\ InView(h, l)
             /\ l.flow # "grid" => h.first_row = 0
<1> DEFINE row == RowOf(l, g.selected)
           total == Rows(l, c)
           first == IF row < g.first_row THEN row
                    ELSE IF row >= g.first_row + l.rows THEN row - l.rows + 1
                    ELSE g.first_row
           max_first == IF total > l.rows THEN total - l.rows ELSE 0
           h == ScrollIntoView(g, l, c)
<1>1. l.columns \in Nat \ {0} /\ l.rows \in Nat \ {0} /\ g.selected \in Nat /\ g.first_row \in Nat
  BY DEF LayoutOk, GridOk
<1>2. row \in Nat /\ total \in Nat /\ row < total
  BY <1>1, RowIsBelowRows, RowsFacts
<1>3. GridOk(h)
  BY ScrollKeeps
<1>4. h = [g EXCEPT !.first_row = IF l.flow # "grid" THEN 0 ELSE Smaller(first, max_first)]
  BY DEF ScrollIntoView
<1> HIDE DEF h, first
<1>5. /\ h.selected = g.selected /\ h.cursor = g.cursor
      /\ h.first_row = IF l.flow # "grid" THEN 0 ELSE Smaller(first, max_first)
  BY <1>4 DEF GridOk
<1>6. Smaller(first, max_first) <= row /\ row < Smaller(first, max_first) + l.rows
  <2> HIDE DEF row, total
  <2>1. first \in Nat /\ first <= row /\ row < first + l.rows
    BY <1>1, <1>2 DEF first
  <2>2. max_first \in Nat /\ row < max_first + l.rows
    BY <1>1, <1>2
  <2> HIDE DEF max_first
  <2> QED
    BY <1>1, <1>2, <2>1, <2>2 DEF Smaller
<1> QED
  BY <1>3, <1>5, <1>6 DEF InView, h, row

LEMMA OwnIndex ==
  ASSUME NEW c \in Nat \ {0}, NEW i \in 0 .. c - 1
  PROVE  CarouselIndex(i, c) = i
BY DEF CarouselIndex

LEMMA ScrollPlaces ==
  ASSUME NEW c \in Nat \ {0}, NEW l, LayoutOk(l), NEW g, Placed(g, l, c)
  PROVE  Placed(ScrollIntoView(g, l, c), l, c) /\ InView(ScrollIntoView(g, l, c), l)
BY ScrollShows DEF Placed

LEMMA MovePlaces ==
  ASSUME NEW c \in 1 .. MaxSlot + 1, NEW l, LayoutOk(l), NEW g, Placed(g, l, c), NEW move \in Moves
  PROVE  Placed(GridMove(g, l, c, move), l, c) /\ InView(GridMove(g, l, c, move), l)
<1> DEFINE step == CarouselStep(l.flow, move)
           ahead == IF g.cursor + step \in MinSlot .. MaxSlot THEN g.cursor + step ELSE g.cursor
           moved == Stepped(g, l, c, move)
           aligned == IF l.flow = "grid" THEN [moved EXCEPT !.cursor = moved.selected] ELSE moved
<1>0. c \in Nat \ {0} /\ c - 1 <= MaxSlot /\ MinSlot \in Int /\ MaxSlot \in Int /\ MinSlot < 0 /\ MaxSlot > 0
  BY SlotAssumption
<1>1. GridOk(g) /\ g.selected < c /\ GridOk(moved) /\ moved.selected < c
  BY <1>0, SteppedKeeps DEF Placed
<1>2. GridMove(g, l, c, move) = ScrollIntoView(aligned, l, c)
  BY DEF GridMove
<1>3. CASE l.flow = "grid"
  <2> HIDE DEF moved
  <2>1. GridOk(aligned) /\ aligned.selected = moved.selected /\ aligned.cursor = moved.selected
    BY <1>1, <1>3 DEF GridOk
  <2>2. moved.selected \in MinSlot .. MaxSlot
    BY <1>0, <1>1 DEF GridOk
  <2> HIDE DEF aligned
  <2>3. Placed(aligned, l, c)
    BY <1>1, <1>3, <2>1, <2>2 DEF Placed
  <2> QED
    BY <1>0, <1>2, <2>3, ScrollPlaces
<1>4. CASE l.flow # "grid"
  <2>1. moved.cursor \in MinSlot .. MaxSlot /\ CarouselIndex(moved.cursor, c) = moved.selected
    <3>1. CASE step # 0
      <4>1. moved = [g EXCEPT !.cursor = ahead, !.selected = CarouselIndex(ahead, c)]
        BY <1>4, <3>1 DEF Stepped, step, ahead
      <4>2. step \in Int /\ g.cursor \in MinSlot .. MaxSlot
        BY DEF Placed, CarouselStep
      <4> HIDE DEF step
      <4>3. ahead \in MinSlot .. MaxSlot
        BY <4>2
      <4> HIDE DEF ahead, moved
      <4>4. moved.cursor = ahead /\ moved.selected = CarouselIndex(ahead, c)
        BY <1>1, <4>1 DEF GridOk
      <4> QED
        BY <4>3, <4>4
    <3>2. CASE step = 0 /\ move \in {"first", "last"}
      <4> DEFINE i == IF move = "first" THEN 0 ELSE c - 1
      <4>1. moved = [g EXCEPT !.selected = i, !.cursor = i]
        BY <3>2 DEF Stepped
      <4>2. i \in 0 .. c - 1 /\ i \in MinSlot .. MaxSlot
        BY <1>0
      <4> HIDE DEF i, moved
      <4>3. moved.cursor = i /\ moved.selected = i
        BY <1>1, <4>1 DEF GridOk
      <4> QED
        BY <1>0, <4>2, <4>3, OwnIndex
    <3>3. CASE step = 0 /\ move \notin {"first", "last"}
      <4>1. moved = g
        BY <1>4, <3>3 DEF Stepped
      <4> HIDE DEF moved
      <4> QED
        BY <1>4, <4>1 DEF Placed
    <3> QED
      BY <3>1, <3>2, <3>3
  <2> HIDE DEF moved
  <2>2. Placed(aligned, l, c)
    BY <1>1, <1>4, <2>1 DEF Placed
  <2> HIDE DEF aligned
  <2> QED
    BY <1>0, <1>2, <2>2, ScrollPlaces
<1> QED
  BY <1>3, <1>4

LEMMA SelectPlaces ==
  ASSUME NEW c \in 1 .. MaxSlot + 1, NEW l, LayoutOk(l), NEW g, GridOk(g),
         NEW index \in 0 .. c - 1, NEW slot \in MinSlot .. MaxSlot
  PROVE  Placed(GridSelect(g, l, c, index, slot), l, c) /\ InView(GridSelect(g, l, c, index, slot), l)
<1> DEFINE names == l.flow # "grid" /\ CarouselIndex(slot, c) = index
           cursor == IF names THEN slot ELSE index
           picked == [g EXCEPT !.selected = index, !.cursor = cursor]
<1>0. c \in Nat \ {0} /\ c - 1 <= MaxSlot /\ MinSlot \in Int /\ MaxSlot \in Int /\ MinSlot < 0
  BY SlotAssumption
<1>1. GridSelect(g, l, c, index, slot) = ScrollIntoView(picked, l, c)
  BY DEF GridSelect
<1>2. cursor \in MinSlot .. MaxSlot /\ (l.flow = "grid" => cursor = index)
      /\ CarouselIndex(cursor, c) = index
  BY <1>0, OwnIndex
<1> HIDE DEF cursor
<1>3. picked.selected = index /\ picked.cursor = cursor /\ GridOk(picked)
  <2>1. g = [selected |-> g.selected, cursor |-> g.cursor, first_row |-> g.first_row]
        /\ g.first_row \in Nat
    BY DEF GridOk
  <2>2. picked = [g EXCEPT !.cursor = cursor, !.selected = index]
    BY <2>1
  <2>3. index \in Nat /\ cursor \in Int /\ index < c
    BY <1>0, <1>2
  <2> HIDE DEF picked
  <2>4. GridOk(picked)
    BY <2>2, <2>3, PlacedAt
  <2> QED
    BY <2>1, <2>2, <2>4
<1> HIDE DEF picked
<1>4. Placed(picked, l, c)
  BY <1>0, <1>2, <1>3 DEF Placed
<1> QED
  BY <1>0, <1>1, <1>4, ScrollPlaces

-----------------------------------------------------------------------------
(* The picker.                                                             *)

IndexOf(l, n, slot) == IF l.flow = "grid" THEN slot ELSE CarouselIndex(slot, n)

Animations ==
  [from_scroll : Int, to_scroll : Int, from : Int, to : Int, from_item : Nat, to_item : Nat,
   from_zoomed : BOOLEAN, to_zoomed : BOOLEAN, tick : 0 .. Duration]

\* It ends at the selection, and comes from a slot with the item of that slot.
Follows(a, c, l, p, n, g) ==
  /\ a \in Animations
  /\ a.to = g.cursor /\ a.to_item = g.selected
  /\ a.to_scroll = Scroll(c, l, p, g)
  /\ a.from_item = IndexOf(l, n, a.from)

PanelOk ==
  /\ config \in Configs /\ output \in Outputs /\ count \in Counts
  /\ layout = Adapt(config, output)
  /\ SizeOk(surface) /\ RectOk(panel)
  /\ ~dirty => panel = PanelRect(config, layout, count, surface)

(* The inductive invariant.  It speaks of the panel there is: between a    *)
(* configure and the refresh it asks for, the panel is still the old one,  *)
(* and selection and animation are moved by it.                            *)
PanelInv ==
  /\ PanelOk
  /\ Placed(grid, Fitted, count) /\ InView(grid, Fitted)
  /\ Follows(animation, config, layout, panel, count, grid)

LEMMA Setting ==
  ASSUME PanelOk
  PROVE  /\ ConfigOk(config) /\ SizeOk(output)
         /\ count \in 1 .. MaxSlot + 1 /\ count \in Nat \ {0}
         /\ Adapted(layout)
         /\ LayoutOk(Fitted) /\ Fitted.flow = layout.flow /\ Fitted.columns = layout.columns
         /\ Fitted.rows = VisibleRows(config, panel.height)
<1>1. ConfigOk(config)
  BY ConfigsAssumption DEF PanelOk, ConfigOk
<1>2. SizeOk(output) /\ count \in 1 .. MaxSlot + 1
  BY CountsAssumption, SizesAssumption DEF PanelOk, SizeOk
<1>3. Adapted(layout)
  BY <1>1, <1>2, AdaptFacts DEF PanelOk
<1>4. RectOk(panel)
  BY DEF PanelOk
<1>5. count \in Nat \ {0}
  BY <1>2, SlotAssumption
<1> QED
  BY <1>1, <1>2, <1>3, <1>4, <1>5, FittedIsOk DEF Fitted

LEMMA SnappedFollows ==
  ASSUME NEW c, ConfigOk(c), NEW l, NEW p, RectOk(p), NEW n, NEW g, NEW f, Placed(g, f, n), f.flow = l.flow
  PROVE  Follows(Snapped(c, l, p, g), c, l, p, n, g)
<1> DEFINE scroll == Scroll(c, l, p, g)
           a == Snapped(c, l, p, g)
<1>1. scroll \in Int
  BY ScrollIsInt DEF Placed
<1>2. g.cursor \in Int /\ g.selected \in Nat /\ g.selected = IndexOf(l, n, g.cursor)
  BY DEF Placed, GridOk, IndexOf
<1>3. c.zoom \in BOOLEAN /\ Duration \in 0 .. Duration
  BY ConfigFields, PaceAssumption
<1>4. a = [from_scroll |-> scroll, to_scroll |-> scroll, from |-> g.cursor, to |-> g.cursor,
           from_item |-> g.selected, to_item |-> g.selected,
           from_zoomed |-> c.zoom, to_zoomed |-> c.zoom, tick |-> Duration]
  BY DEF Snapped
<1> HIDE DEF a
<1>5. a \in Animations
  <2> HIDE DEF scroll
  <2> QED
    BY <1>1, <1>2, <1>3, <1>4 DEF Animations
<1> QED
  BY <1>2, <1>4, <1>5 DEF Follows, a

LEMMA MovedFollows ==
  ASSUME PanelInv, NEW g, Placed(g, Fitted, count)
  PROVE  Follows(Moved(g), config, layout, panel, count, g)
<1> DEFINE target == Snapped(config, layout, panel, g)
           slides == Adjacent(grid.cursor, g.cursor) \/ NeighboringRow(grid.cursor, g.cursor)
           a == Moved(g)
<1>1. PanelOk /\ ConfigOk(config) /\ RectOk(panel) /\ Fitted.flow = layout.flow
      /\ Placed(grid, Fitted, count) /\ animation \in Animations
  BY Setting DEF PanelInv, PanelOk, Follows
<1>2. Follows(target, config, layout, panel, count, g)
  BY <1>1, SnappedFollows
<1>3. SampleScroll \in Int
  BY <1>1, EasedIsInt DEF SampleScroll, Animations
<1>4. CASE ~config.animated
  BY <1>2, <1>4 DEF Moved
<1>5. CASE config.animated
  <2>1. a = [target EXCEPT !.from_scroll = IF slides THEN SampleScroll ELSE @,
                           !.from = grid.cursor, !.from_item = grid.selected,
                           !.from_zoomed = grid.cursor \in Focused,
                           !.to_zoomed = g.cursor \in Focused,
                           !.tick = 0]
    BY <1>5 DEF Moved
  <2>2. grid.cursor \in Int /\ grid.selected \in Nat /\ 0 \in 0 .. Duration
        /\ grid.selected = IndexOf(layout, count, grid.cursor)
    BY <1>1, PaceAssumption DEF Placed, GridOk, IndexOf
  <2>3. target \in Animations
    BY <1>2 DEF Follows
  <2> HIDE DEF a, target, slides
  <2>4. /\ a \in Animations
        /\ a.from = grid.cursor /\ a.from_item = grid.selected
        /\ a.to = target.to /\ a.to_item = target.to_item /\ a.to_scroll = target.to_scroll
    <3>1. PICK from_scroll \in Int, from_zoomed \in BOOLEAN, to_zoomed \in BOOLEAN :
            a = [target EXCEPT !.from_scroll = from_scroll,
                               !.from = grid.cursor, !.from_item = grid.selected,
                               !.from_zoomed = from_zoomed, !.to_zoomed = to_zoomed, !.tick = 0]
      <4>1. target.from_scroll \in Int
        BY <2>3 DEF Animations
      <4>2. (IF slides THEN SampleScroll ELSE target.from_scroll) \in Int
        BY <1>3, <4>1
      <4>3. (grid.cursor \in Focused) \in BOOLEAN /\ (g.cursor \in Focused) \in BOOLEAN
        OBVIOUS
      <4> QED
        BY <2>1, <4>2, <4>3
    <3> QED
      BY <2>2, <2>3, <3>1 DEF Animations
  <2> QED
    BY <1>2, <2>2, <2>4 DEF Follows, a
<1> QED
  BY <1>4, <1>5 DEF a

LEMMA SelectionKeepsPanel ==
  ASSUME PanelInv, NEW g, Selection(g), Placed(g, Fitted, count), InView(g, Fitted)
  PROVE  PanelInv'
<1>1. /\ grid' = g /\ animation' = Moved(g)
      /\ UNCHANGED <<config, output, count, surface, dirty, layout, panel>>
  BY DEF Selection
<1>2. Fitted' = Fitted
  BY <1>1 DEF Fitted
<1>3. PanelOk'
  BY <1>1 DEF PanelInv, PanelOk
<1>4. Follows(Moved(g), config, layout, panel, count, g)
  BY MovedFollows
<1> QED
  BY <1>1, <1>2, <1>3, <1>4 DEF PanelInv

LEMMA KeyKeepsPanel ==
  ASSUME PanelInv, NEW move \in Moves, Key(move)
  PROVE  PanelInv'
<1>1. Placed(grid, Fitted, count) /\ LayoutOk(Fitted) /\ count \in 1 .. MaxSlot + 1
  BY Setting DEF PanelInv
<1> QED
  BY <1>1, MovePlaces, SelectionKeepsPanel DEF Key

LEMMA HoverKeepsPanel ==
  ASSUME PanelInv, NEW slot \in UnderPointer, Hover(slot)
  PROVE  PanelInv'
<1>1. /\ Placed(grid, Fitted, count) /\ GridOk(grid) /\ LayoutOk(Fitted)
      /\ count \in 1 .. MaxSlot + 1 /\ count \in Nat \ {0}
  BY Setting DEF PanelInv, Placed
<1>2. slot \in MinSlot .. MaxSlot /\ slot \in Int
  BY SlotAssumption DEF UnderPointer
<1>3. SlotIndex(slot) \in 0 .. count - 1
  <2>1. CASE layout.flow # "grid"
    BY <1>1, <1>2, <2>1, CarouselIndexType DEF SlotIndex
  <2>2. CASE layout.flow = "grid"
    <3>1. PICK p \in Points : slot \in Hit(SampleScroll, p[1], p[2])
      BY DEF UnderPointer
    <3> DEFINE scroll == SampleScroll
               cx == 2 * (p[1] - panel.x - config.margin) + IF Horizontal THEN scroll ELSE 0
               cy == 2 * (p[2] - panel.y - config.margin) + IF Horizontal THEN 0 ELSE scroll
               column == Cell(cx, StepX)
               row == Cell(cy, StepY)
               index == row * layout.columns + column
    <3> HIDE DEF column, row, cx, cy
    <3>2. slot = index /\ cx >= 0 /\ cy >= 0 /\ index < count
      BY <2>2, <3>1 DEF Hit, column, row, cx, cy
    <3>3. cx \in Int /\ cy \in Int
      <4>1. PanelOk /\ ConfigOk(config) /\ animation \in Animations
        BY Setting DEF PanelInv, Follows
      <4>2. panel.x \in Int /\ panel.y \in Int /\ config.margin \in Int /\ p[1] \in Int /\ p[2] \in Int
        BY <4>1, ConfigFields DEF PanelOk, RectOk, Points, SizeOk
      <4>3. SampleScroll \in Int
        BY <4>1, EasedIsInt DEF SampleScroll, Animations
      <4> QED
        BY <4>2, <4>3 DEF cx, cy
    <3>4. StepX \in Nat \ {0} /\ StepY \in Nat \ {0}
      BY Setting, ConfigFields DEF PanelInv, StepX, StepY
    <3>5. column \in Nat /\ row \in Nat
      BY <3>2, <3>3, <3>4 DEF column, row, Cell
    <3>6. index \in Nat
      BY <1>1, <3>5, Setting DEF PanelInv, Adapted
    <3> QED
      BY <1>1, <2>2, <3>2, <3>6 DEF SlotIndex
  <2> QED
    BY <2>1, <2>2
<1> QED
  BY <1>1, <1>2, <1>3, SelectPlaces, SelectionKeepsPanel DEF Hover

TurnsAre(f, n, move) ==
  f = [k \in 0 .. n |-> IF k = 0 THEN grid ELSE GridMove(f[k - 1], Fitted, count, move)]

LEMMA TurnsPlace ==
  ASSUME PanelInv, NEW n \in Nat, NEW move \in Moves
  PROVE  Placed(Turns(n, move)[n], Fitted, count) /\ InView(Turns(n, move)[n], Fitted)
<1> DEFINE S == {g \in [selected : Nat, cursor : Int, first_row : Nat] :
                   Placed(g, Fitted, count) /\ InView(g, Fitted)}
           step == [p \in (1 .. n) \X S |-> GridMove(p[2], Fitted, count, move)]
           turns == Turns(n, move)
<1>1. grid \in S
  BY DEF PanelInv, Placed, GridOk
<1>2. \A g \in S : GridMove(g, Fitted, count, move) \in S
  BY Setting, MovePlaces DEF PanelInv, Placed, GridOk
<1> HIDE DEF S
<1>3. \A k \in 1 .. n, g \in S : step[<<k, g>>] = GridMove(g, Fitted, count, move)
  OBVIOUS
<1> HIDE DEF step
<1>4. PICK f \in [0 .. n -> S] : IsLoop(f, n, grid, step)
  <2>1. \A k \in 1 .. n, g \in S : step[<<k, g>>] \in S
    BY <1>2, <1>3
  <2> QED
    BY <1>1, <2>1, LoopExists
<1>5. \A k \in 0 .. n : (IF k = 0 THEN grid ELSE step[<<k, f[k - 1]>>]) =
                        (IF k = 0 THEN grid ELSE GridMove(f[k - 1], Fitted, count, move))
  <2> SUFFICES ASSUME NEW k \in 0 .. n, k # 0
               PROVE  step[<<k, f[k - 1]>>] = GridMove(f[k - 1], Fitted, count, move)
    OBVIOUS
  <2>1. k \in 1 .. n /\ k - 1 \in 0 .. n
    OBVIOUS
  <2> QED
    BY <1>3, <1>4, <2>1
<1>6. TurnsAre(f, n, move)
  BY <1>4, <1>5 DEF TurnsAre, IsLoop
<1>7. TurnsAre(turns, n, move)
  <2>1. turns = CHOOSE g : TurnsAre(g, n, move)
    BY DEF Turns, TurnsAre
  <2> HIDE DEF turns
  <2> QED
    BY <1>6, <2>1
<1> HIDE DEF turns
<1>8. turns[0] = grid /\ \A k \in 1 .. n : turns[k] = GridMove(turns[k - 1], Fitted, count, move)
  <2>1. 0 \in 0 .. n /\ \A k \in 1 .. n : k \in 0 .. n /\ k # 0
    OBVIOUS
  <2> QED
    BY <1>7, <2>1 DEF TurnsAre
<1> DEFINE T == {k \in 0 .. n : turns[k] \in S}
<1>9. 0 .. n \subseteq T
  <2>1. 0 \in T
    BY <1>1, <1>8
  <2>2. ASSUME NEW k \in 1 .. n, k - 1 \in T PROVE k \in T
    BY <1>2, <1>8, <2>2
  <2> HIDE DEF T
  <2> QED
    BY <2>1, <2>2, Upwards
<1>10. turns[n] \in S
  BY <1>9
<1> QED
  BY <1>10 DEF S, turns

LEMMA WheelKeepsPanel ==
  ASSUME PanelInv, NEW steps \in Steps, Wheel(steps)
  PROVE  PanelInv'
<1> DEFINE forward == IF Horizontal THEN "right" ELSE "down"
           back == IF Horizontal THEN "left" ELSE "up"
<1>1. forward \in Moves /\ back \in Moves /\ steps \in Int
  BY PaceAssumption DEF Moves
<1>2. CASE steps > 0
  BY <1>1, <1>2, TurnsPlace, SelectionKeepsPanel DEF Wheel
<1>3. CASE ~(steps > 0)
  <2>1. -steps \in Nat
    BY <1>1, <1>3
  <2> QED
    BY <1>1, <1>3, <2>1, TurnsPlace, SelectionKeepsPanel DEF Wheel
<1> QED
  BY <1>2, <1>3

LEMMA TickKeepsPanel ==
  ASSUME PanelInv, Tick
  PROVE  PanelInv'
<1>1. UNCHANGED <<config, output, count, surface, dirty, layout, panel, grid>>
  BY DEF Tick
<1>2. PanelOk' /\ Placed(grid', Fitted', count') /\ InView(grid', Fitted')
  BY <1>1 DEF PanelInv, PanelOk, Fitted
<1>3. animation \in Animations /\ Follows(animation, config, layout, panel, count, grid)
      /\ Duration \in Nat /\ config.zoom \in BOOLEAN
      /\ grid.selected = IndexOf(layout, count, grid.cursor)
  BY Setting, ConfigFields, PaceAssumption DEF PanelInv, Follows, Placed, IndexOf
<1>4. CASE animation.tick + 1 < Duration
  <2>1. animation' = [animation EXCEPT !.tick = animation.tick + 1]
    BY <1>4 DEF Tick
  <2>2. animation.tick + 1 \in 0 .. Duration
    BY <1>3, <1>4 DEF Animations
  <2>3. Follows(animation', config, layout, panel, count, grid)
    BY <1>3, <2>1, <2>2 DEF Follows, Animations
  <2> QED
    BY <1>1, <1>2, <2>3 DEF PanelInv
<1>5. CASE ~(animation.tick + 1 < Duration)
  <2>1. animation' = [animation EXCEPT !.tick = Duration, !.from_scroll = animation.to_scroll,
                        !.from = animation.to, !.from_item = animation.to_item,
                        !.from_zoomed = config.zoom, !.to_zoomed = config.zoom]
    BY <1>5 DEF Tick
  <2>2. /\ animation = [from_scroll |-> animation.from_scroll, to_scroll |-> animation.to_scroll,
                        from |-> animation.from, to |-> animation.to,
                        from_item |-> animation.from_item, to_item |-> animation.to_item,
                        from_zoomed |-> animation.from_zoomed, to_zoomed |-> animation.to_zoomed,
                        tick |-> animation.tick]
        /\ animation.to_scroll \in Int /\ animation.to \in Int /\ animation.to_item \in Nat
    BY <1>3 DEF Animations
  <2>3. animation' = [from_scroll |-> animation.to_scroll, to_scroll |-> animation.to_scroll,
                      from |-> animation.to, to |-> animation.to,
                      from_item |-> animation.to_item, to_item |-> animation.to_item,
                      from_zoomed |-> config.zoom, to_zoomed |-> config.zoom, tick |-> Duration]
    BY <2>1, <2>2
  <2>4. animation' \in Animations
    BY <1>3, <2>2, <2>3 DEF Animations
  <2>5. animation.to = grid.cursor /\ animation.to_item = grid.selected
        /\ animation.to_scroll = Scroll(config, layout, panel, grid)
    BY <1>3 DEF Follows
  <2>6. Follows(animation', config, layout, panel, count, grid)
    BY <1>3, <2>3, <2>4, <2>5 DEF Follows
  <2> QED
    BY <1>1, <1>2, <2>6 DEF PanelInv
<1> QED
  BY <1>4, <1>5

LEMMA ConfigureKeepsPanel ==
  ASSUME PanelInv, NEW size \in Surfaces \cup {Requested}, ConfigurePanel(size)
  PROVE  PanelInv'
<1>1. /\ surface' = size /\ dirty' = TRUE
      /\ UNCHANGED <<config, output, count, layout, panel, grid, animation>>
  BY DEF ConfigurePanel
<1>2. SizeOk(size)
  <2>1. PanelRect(config, layout, count, output).width \in Nat
        /\ PanelRect(config, layout, count, output).height \in Nat
    BY Setting, PanelRectFacts DEF PanelInv, RectOk
  <2> QED
    BY <2>1, SizesAssumption DEF Requested, SizeOk
<1>3. Fitted' = Fitted
  BY <1>1 DEF Fitted
<1> QED
  BY <1>1, <1>2, <1>3 DEF PanelInv, PanelOk

LEMMA RefreshKeepsPanel ==
  ASSUME PanelInv, Refresh
  PROVE  PanelInv'
<1>1. /\ dirty' = FALSE
      /\ layout' = Adapt(config, output)
      /\ panel' = PanelRect(config, layout', count, surface)
      /\ grid' = ScrollIntoView(grid, GridLayout(config, layout', panel'), count)
      /\ UNCHANGED <<config, output, count, surface>>
  BY DEF Refresh
<1>2. layout' = layout /\ ConfigOk(config) /\ Adapted(layout) /\ count \in Nat \ {0} /\ SizeOk(surface)
  BY <1>1, Setting DEF PanelInv, PanelOk
<1>3. RectOk(panel')
  BY <1>1, <1>2, PanelRectFacts
<1>4. PanelOk'
  BY <1>1, <1>2, <1>3 DEF PanelInv, PanelOk
<1>5. Fitted' = GridLayout(config, layout', panel') /\ LayoutOk(Fitted') /\ Fitted'.flow = layout.flow
      /\ Fitted.flow = layout.flow
  BY <1>1, <1>2, <1>3, FittedIsOk, Setting DEF Fitted, PanelInv
<1>6. Placed(grid, Fitted', count)
  BY <1>5 DEF PanelInv, Placed
<1>7. Placed(grid', Fitted', count) /\ InView(grid', Fitted')
  BY <1>1, <1>2, <1>5, <1>6, ScrollPlaces
<1>8. grid'.selected = grid.selected /\ grid'.cursor = grid.cursor
  <2>1. grid' = ScrollIntoView(grid, Fitted', count) /\ GridOk(grid) /\ grid.selected < count
    BY <1>1, <1>5, <1>6 DEF Placed
  <2>2. /\ ScrollIntoView(grid, Fitted', count).selected = grid.selected
        /\ ScrollIntoView(grid, Fitted', count).cursor = grid.cursor
    BY <1>2, <1>5, <2>1, ScrollShows
  <2> QED
    BY <2>1, <2>2
<1>9. CASE Stays
  <2>1. animation' = animation /\ panel' = panel /\ grid'.first_row = grid.first_row
    BY <1>9 DEF Refresh, Stays
  <2>2. Scroll(config, layout, panel, grid') = Scroll(config, layout, panel, grid)
    BY <1>8, <2>1 DEF Scroll
  <2>3. Follows(animation, config, layout, panel, count, grid')
    BY <1>8, <2>2 DEF PanelInv, Follows
  <2> QED
    BY <1>1, <1>2, <1>4, <1>7, <2>1, <2>3 DEF PanelInv
<1>10. CASE ~Stays
  <2>1. animation' = Snapped(config, layout', panel', grid')
    BY <1>10 DEF Refresh
  <2>2. Follows(animation', config, layout', panel', count, grid')
    BY <1>2, <1>3, <1>5, <1>7, <2>1, SnappedFollows
  <2> QED
    BY <1>1, <1>4, <1>7, <2>2 DEF PanelInv
<1> QED
  BY <1>9, <1>10

LEMMA PanelStarts == PanelInit => PanelInv
<1> SUFFICES ASSUME PanelInit PROVE PanelInv
  OBVIOUS
<1>1. /\ config \in Configs /\ output \in Outputs /\ count \in Counts
      /\ layout = Adapt(config, output)
      /\ surface = Requested
      /\ panel = PanelRect(config, layout, count, surface)
      /\ animation = Snapped(config, layout, panel, grid)
  BY DEF PanelInit
<1>2. ConfigOk(config) /\ SizeOk(output) /\ count \in 1 .. MaxSlot + 1 /\ count \in Nat \ {0}
  BY <1>1, ConfigsAssumption, CountsAssumption, SizesAssumption, SlotAssumption DEF ConfigOk, SizeOk
<1>3. Adapted(layout)
  BY <1>1, <1>2, AdaptFacts
<1>4. SizeOk(surface)
  BY <1>1, <1>2, <1>3, PanelRectFacts DEF Requested, RectOk, SizeOk
<1>5. RectOk(panel)
  BY <1>1, <1>2, <1>3, <1>4, PanelRectFacts
<1>6. PanelOk
  BY <1>1, <1>4, <1>5 DEF PanelOk
<1>7. PICK restored \in 0 .. count - 1 :
        grid = GridSelect([selected |-> 0, cursor |-> 0, first_row |-> 0], Fitted, count,
                          restored, restored)
  BY DEF PanelInit
<1>8. restored \in MinSlot .. MaxSlot
  BY <1>2, SlotAssumption
<1>9. GridOk([selected |-> 0, cursor |-> 0, first_row |-> 0])
  BY DEF GridOk
<1>10. Placed(grid, Fitted, count) /\ InView(grid, Fitted)
  BY <1>2, <1>6, <1>7, <1>8, <1>9, Setting, SelectPlaces
<1>11. Follows(animation, config, layout, panel, count, grid)
  BY <1>1, <1>2, <1>5, <1>6, <1>10, Setting, SnappedFollows
<1> QED
  BY <1>6, <1>10, <1>11 DEF PanelInv

LEMMA PanelKeeps ==
  ASSUME PanelInv, [PanelNext]_screen
  PROVE  PanelInv'
<1>1. CASE UNCHANGED screen
  <2>1. UNCHANGED <<config, output, count, surface, dirty, layout, panel, grid, animation>>
    BY <1>1 DEF screen
  <2>2. Fitted' = Fitted
    BY <2>1 DEF Fitted
  <2> QED
    BY <2>1, <2>2 DEF PanelInv, PanelOk
<1> QED
  BY <1>1, KeyKeepsPanel, WheelKeepsPanel, HoverKeepsPanel, TickKeepsPanel, RefreshKeepsPanel,
     ConfigureKeepsPanel DEF PanelNext

LEMMA PanelHolds == PanelSpec => []PanelInv
<1>1. PanelInv /\ [PanelNext]_screen => PanelInv'
  BY PanelKeeps
<1> QED
  BY <1>1, PanelStarts, PTL DEF PanelSpec

LEMMA EndsAtTheSelection ==
  ASSUME PanelInv
  PROVE  VisualFollows
<1>1. \A slot : SlotIndex(slot) = IndexOf(layout, count, slot)
  BY DEF SlotIndex, IndexOf
<1>2. grid.selected = IndexOf(layout, count, grid.cursor)
  BY Setting DEF PanelInv, Placed, IndexOf
<1>3. /\ animation.to = grid.cursor /\ animation.to_item = grid.selected
      /\ animation.to_scroll = RestScroll
      /\ animation.from_item = IndexOf(layout, count, animation.from)
  BY DEF PanelInv, Follows, RestScroll
<1>4. \A f \in Focuses : f.item = SlotIndex(f.slot)
  <2> DEFINE from == [slot |-> animation.from, item |-> animation.from_item]
             to == [slot |-> animation.to, item |-> animation.to_item]
  <2>1. \A f \in Focuses : f = from \/ f = to
    BY DEF Focuses
  <2>2. from.slot = animation.from /\ from.item = animation.from_item
        /\ to.slot = animation.to /\ to.item = animation.to_item
    OBVIOUS
  <2> QED
    BY <1>1, <1>2, <1>3, <2>1, <2>2
<1> QED
  BY <1>1, <1>2, <1>3, <1>4 DEF VisualFollows

\* Every selection starts an animation that ends at it, and every resize of the
\* panel snaps to it or leaves both alone.
THEOREM AnimationFollowsSelection == PanelSpec => []VisualFollows
BY PanelHolds, EndsAtTheSelection, PTL

-----------------------------------------------------------------------------
(* The slots of a carousel count its items round and round.                *)

LEMMA OnceOrTwice ==
  ASSUME NEW c \in Nat \ {0}, NEW m \in Int, -c < m * c, m * c < 2 * c
  PROVE  m \in {0, 1}
<1>1. ASSUME m <= -1 PROVE FALSE
  <2>1. m * c <= (-1) * c
    BY <1>1
  <2> QED
    BY <2>1
<1>2. ASSUME m >= 2 PROVE FALSE
  <2>1. m * c >= 2 * c
    BY <1>2
  <2> QED
    BY <2>1
<1> QED
  BY <1>1, <1>2

LEMMA CarouselCounts ==
  ASSUME NEW c \in Nat \ {0}, NEW slot \in Int
  PROVE  \E q \in Int : slot = q * c + CarouselIndex(slot, c)
<1>1. \A n \in Nat : n \div c \in Int /\ n = (n \div c) * c + (n % c)
  OBVIOUS
<1>2. CASE slot >= 0
  <2>1. CarouselIndex(slot, c) = slot % c
    BY <1>2 DEF CarouselIndex
  <2>2. slot \div c \in Int /\ slot = (slot \div c) * c + CarouselIndex(slot, c)
    BY <1>1, <1>2, <2>1
  <2> QED
    BY <2>2
<1>3. CASE slot < 0
  <2> DEFINE n == -slot
             remainder == n % c
             q == n \div c
  <2>1. n \in Nat /\ (-(slot + 1) + 1) = n
    BY <1>3
  <2>2. CarouselIndex(slot, c) = IF remainder = 0 THEN 0 ELSE c - remainder
    BY <1>3, <2>1 DEF CarouselIndex
  <2>3. q \in Int /\ n = q * c + remainder /\ remainder \in Int
    BY <1>1, <2>1
  <2> HIDE DEF q, remainder
  <2>4. CASE remainder = 0
    <3>1. slot = (-q) * c + 0 /\ -q \in Int
      BY <2>1, <2>3, <2>4
    <3> QED
      BY <2>2, <2>4, <3>1
  <2>5. CASE remainder # 0
    <3>1. slot = (-q - 1) * c + (c - remainder) /\ -q - 1 \in Int
      BY <2>1, <2>3, <2>5
    <3> QED
      BY <2>2, <2>5, <3>1
  <2> QED
    BY <2>4, <2>5
<1> QED
  BY <1>2, <1>3

\* Fewer slots on than there are items.
LEMMA CarouselAhead ==
  ASSUME NEW c \in Nat \ {0}, NEW slot \in Int, NEW d \in 0 .. c - 1
  PROVE  LET i == CarouselIndex(slot, c)
         IN  CarouselIndex(slot + d, c) = IF i + d < c THEN i + d ELSE i + d - c
<1> DEFINE i == CarouselIndex(slot, c)
           j == CarouselIndex(slot + d, c)
<1>1. i \in 0 .. c - 1 /\ j \in 0 .. c - 1
  BY CarouselIndexType
<1>2. PICK q \in Int : slot = q * c + i
  BY CarouselCounts
<1>3. PICK r \in Int : slot + d = r * c + j
  <2>1. slot + d \in Int
    OBVIOUS
  <2> QED
    BY <2>1, CarouselCounts
<1> HIDE DEF i, j
<1>4. (r - q) * c = i + d - j
  BY <1>1, <1>2, <1>3
<1>5. r - q \in {0, 1}
  <2> DEFINE m == r - q
  <2>1. m \in Int /\ -c < m * c /\ m * c < 2 * c
    BY <1>1, <1>4
  <2> HIDE DEF m
  <2>2. m \in {0, 1}
    BY <2>1, OnceOrTwice
  <2> QED
    BY <2>2 DEF m
<1>6. j = i + d \/ j = i + d - c
  <2>1. CASE r - q = 0
    BY <1>1, <1>4, <2>1
  <2>2. CASE r - q = 1
    BY <1>1, <1>4, <2>2
  <2> QED
    BY <1>5, <2>1, <2>2
<1> QED
  BY <1>1, <1>6 DEF i, j

-----------------------------------------------------------------------------
(* The selected tile.                                                      *)

LEMMA SelectedIsVisible ==
  ASSUME NEW c \in 1 .. MaxSlot + 1, NEW l, LayoutOk(l), NEW g, Placed(g, l, c), InView(g, l)
  PROVE  InVisibleRange(g.selected, VisibleRanges(g, l, c))
<1>0. c \in Nat \ {0} /\ MinSlot \in Int /\ l.columns \in Nat \ {0} /\ l.rows \in Nat \ {0}
      /\ g.selected \in Nat /\ g.selected < c /\ g.cursor \in Int /\ g.first_row \in Nat
  BY SlotAssumption DEF LayoutOk, Placed, GridOk
<1> DEFINE r == VisibleRanges(g, l, c)
<1>1. CASE l.flow = "grid"
  <2> DEFINE row == g.selected \div l.columns
             top == g.first_row * l.columns
             size == l.rows * l.columns
  <2>1. row \in Nat /\ l.columns * row <= g.selected /\ g.selected < l.columns * row + l.columns
    BY <1>0, Quotient
  <2>2. g.first_row <= row /\ row + 1 <= g.first_row + l.rows
    BY <1>0, <1>1, <2>1 DEF InView, RowOf
  <2>3. r = IF top >= c THEN Interval(c, c, 0) ELSE Interval(top, top + Smaller(size, c - top), 0)
    BY <1>1, <1>0 DEF VisibleRanges
  <2> HIDE DEF row
  <2>4. g.first_row * l.columns <= row * l.columns
        /\ (row + 1) * l.columns <= (g.first_row + l.rows) * l.columns
    BY <1>0, <2>1, <2>2
  <2>5. top \in Nat /\ size \in Nat /\ top <= g.selected /\ g.selected < top + size
    BY <1>0, <2>1, <2>4
  <2> HIDE DEF top, size
  <2>6. r = Interval(top, top + Smaller(size, c - top), 0)
    BY <1>0, <2>3, <2>5
  <2> HIDE DEF r
  <2> QED
    BY <1>0, <2>5, <2>6 DEF InVisibleRange, Interval, Smaller, r
<1>2. CASE l.flow # "grid"
  <2> DEFINE visible == Smaller(IF l.flow = "horizontal" THEN l.columns ELSE l.rows, c)
             before == visible \div 2
             start == IF g.cursor >= MinSlot + before THEN g.cursor - before ELSE MinSlot
             first == CarouselIndex(start, c)
             d == g.cursor - start
  <2>1. visible \in Nat \ {0} /\ visible <= c
    BY <1>0 DEF Smaller
  <2>2. r = IF visible <= c - first THEN Interval(first, first + visible, 0)
            ELSE Interval(first, c, visible - (c - first))
    <3>1. r = CASE l.flow # "grid" /\ visible <= c - first -> Interval(first, first + visible, 0)
                [] l.flow # "grid" /\ visible > c - first -> Interval(first, c, visible - (c - first))
                [] l.flow = "grid" /\ g.first_row * l.columns >= c -> Interval(c, c, 0)
                [] l.flow = "grid" /\ g.first_row * l.columns < c ->
                     Interval(g.first_row * l.columns,
                              g.first_row * l.columns
                                + Smaller(l.rows * l.columns, c - g.first_row * l.columns), 0)
      BY DEF VisibleRanges
    <3>2. first \in Int
      BY <1>0, <2>1, CarouselIndexType
    <3> HIDE DEF visible, first
    <3> QED
      BY <1>0, <1>2, <2>1, <3>1, <3>2
  <2> HIDE DEF visible
  <2>3. before \in Nat /\ before < visible
    BY <2>1
  <2> HIDE DEF before
  <2>4. start \in Int /\ d \in 0 .. visible - 1
    <3>1. g.cursor >= MinSlot
      BY <1>0 DEF Placed
    <3> QED
      BY <1>0, <2>1, <2>3, <3>1
  <2>5. first \in 0 .. c - 1
    BY <1>0, <2>4, CarouselIndexType
  <2>6. g.selected = IF first + d < c THEN first + d ELSE first + d - c
    <3>1. g.selected = CarouselIndex(start + d, c)
      <4>1. start + d = g.cursor
        BY <1>0, <2>4
      <4> QED
        BY <1>2, <4>1 DEF Placed
    <3>2. d \in 0 .. c - 1
      BY <2>1, <2>4
    <3> HIDE DEF d, start
    <3> QED
      BY <1>0, <2>4, <3>1, <3>2, CarouselAhead
  <2> HIDE DEF first, d
  <2>7. CASE visible <= c - first
    BY <1>0, <2>1, <2>2, <2>4, <2>5, <2>6, <2>7 DEF InVisibleRange, Interval
  <2>8. CASE visible > c - first
    BY <1>0, <2>1, <2>2, <2>4, <2>5, <2>6, <2>8 DEF InVisibleRange, Interval
  <2> QED
    BY <1>0, <2>1, <2>5, <2>7, <2>8
<1> QED
  BY <1>1, <1>2

\* Between the margins along the axis of the scroll.
LEMMA SelectedIsWhole ==
  ASSUME PanelInv, Length >= Extent + 2 * config.margin
  PROVE  LET along == 2 * Start(grid.cursor) - RestScroll
         IN  along >= 2 * config.margin /\ along + 2 * Extent <= 2 * (Length - config.margin)
<1>0. /\ config.margin \in Nat /\ config.width \in Nat /\ config.height \in Nat
      /\ config.spacing \in Nat /\ StepX \in Nat \ {0} /\ StepY \in Nat \ {0}
      /\ panel.width \in Nat /\ panel.height \in Nat
      /\ grid.cursor \in Int /\ grid.selected \in Nat /\ grid.first_row \in Nat
      /\ layout.flow \in Flows /\ layout.columns \in Nat \ {0}
  BY Setting, ConfigFields DEF PanelInv, PanelOk, RectOk, Placed, GridOk, StepX, StepY, Adapted
<1>1. CASE layout.flow = "grid"
  <2> DEFINE row == grid.selected \div layout.columns
             rows == VisibleRows(config, panel.height)
             below == row - grid.first_row
  <2>1. grid.cursor = grid.selected /\ row \in Nat /\ grid.first_row <= row /\ row < grid.first_row + rows
    <3>1. Fitted.flow = "grid" /\ Fitted.columns = layout.columns /\ Fitted.rows = rows
      BY <1>1, Setting DEF PanelInv
    <3>2. row \in Nat
      BY <1>0, Quotient
    <3> HIDE DEF rows
    <3> QED
      BY <1>1, <3>1, <3>2 DEF PanelInv, Placed, InView, RowOf
  <2>2. rows \in Nat /\ rows * StepY <= panel.height - 2 * config.margin + config.spacing
    <3>1. Length = panel.height /\ Extent = config.height
      BY <1>1 DEF Length, Extent, Horizontal
    <3> QED
      BY <1>0, <3>1, Setting, VisibleRowsFacts DEF PanelInv, StepY
  <2>3. Start(grid.cursor) = config.margin + row * StepY
    BY <1>1, <2>1 DEF Start, SlotRect, Horizontal
  <2>4. RestScroll = 2 * grid.first_row * StepY
    BY <1>1 DEF RestScroll, Scroll, StepY
  <2>5. Extent = config.height /\ Length = panel.height /\ StepY = config.height + config.spacing
    BY <1>1 DEF Extent, Length, Horizontal, StepY
  <2> HIDE DEF row, rows
  <2>6. below \in Nat /\ below + 1 <= rows
    BY <1>0, <2>1, <2>2
  <2>7. 2 * Start(grid.cursor) - RestScroll = 2 * config.margin + 2 * (below * StepY)
    BY <1>0, <2>1, <2>3, <2>4
  <2> HIDE DEF below
  <2>8. below * StepY \in Nat /\ below * StepY + StepY <= rows * StepY /\ rows * StepY \in Nat
    <3>1. (below + 1) * StepY <= rows * StepY
      BY <1>0, <2>2, <2>6
    <3> QED
      BY <1>0, <2>2, <2>6, <3>1
  <2> QED
    BY <1>0, <2>2, <2>5, <2>7, <2>8
<1>2. CASE layout.flow = "horizontal"
  <2>1. /\ RestScroll = 2 * (config.margin + grid.cursor * StepX) + config.width - panel.width
        /\ Start(grid.cursor) = config.margin + grid.cursor * StepX
        /\ Extent = config.width /\ Length = panel.width
    BY <1>2 DEF RestScroll, Scroll, StepX, Start, SlotRect, Horizontal, Extent, Length
  <2>2. grid.cursor * StepX \in Int
    BY <1>0
  <2> QED
    BY <1>0, <2>1, <2>2
<1>3. CASE layout.flow = "vertical"
  <2>1. /\ RestScroll = 2 * (config.margin + grid.cursor * StepY) + config.height - panel.height
        /\ Start(grid.cursor) = config.margin + grid.cursor * StepY
        /\ Extent = config.height /\ Length = panel.height
    BY <1>3 DEF RestScroll, Scroll, StepY, Start, SlotRect, Horizontal, Extent, Length
  <2>2. grid.cursor * StepY \in Int
    BY <1>0
  <2> QED
    BY <1>0, <2>1, <2>2
<1> QED
  BY <1>0, <1>1, <1>2, <1>3 DEF Flows

\* Across it, when the panel has the size that was asked for.
LEMMA SelectedIsAcross ==
  ASSUME PanelInv, surface = Requested, ~dirty,
         LET room == Available(config, output)
             tile == IF Horizontal THEN config.height ELSE config.width
         IN  (IF Horizontal THEN room.height ELSE room.width) >= tile + 2 * config.margin
  PROVE  LET across == IF Horizontal THEN SlotRect(grid.cursor).y ELSE SlotRect(grid.cursor).x
             tile == IF Horizontal THEN config.height ELSE config.width
         IN  across + tile + config.margin <= IF Horizontal THEN panel.height ELSE panel.width
<1> DEFINE need == SurfaceSize(config, layout, count)
           room == Available(config, output)
           columns == IF layout.flow = "grid" THEN Smaller(layout.columns, count) ELSE layout.columns
           rows == IF layout.flow = "vertical" THEN layout.visible_rows
                   ELSE Smaller(Rows(layout, count), layout.visible_rows)
<1>0. /\ config.margin \in Nat /\ config.width \in Nat /\ config.height \in Nat
      /\ config.spacing \in Nat /\ StepX \in Nat \ {0} /\ StepY \in Nat \ {0}
      /\ grid.selected \in Nat /\ grid.selected < count /\ count \in Nat \ {0}
      /\ layout.flow \in Flows /\ layout.columns \in Nat \ {0}
      /\ output.width \in Nat /\ output.height \in Nat
      /\ StepX = config.width + config.spacing /\ StepY = config.height + config.spacing
  BY Setting, ConfigFields DEF PanelInv, Placed, GridOk, StepX, StepY, Adapted, SizeOk
<1>1. ConfigOk(config) /\ Adapted(layout) /\ SizeOk(output) /\ SizeOk(surface)
      /\ layout = Adapt(config, output) /\ panel = PanelRect(config, layout, count, surface)
  BY Setting DEF PanelInv, PanelOk
<1>2. /\ columns \in Nat \ {0} /\ rows \in Nat \ {0}
      /\ need.width = 2 * config.margin + columns * StepX - config.spacing
      /\ need.height = 2 * config.margin + rows * StepY - config.spacing
      /\ need.width \in Nat /\ need.height \in Nat
  BY <1>0, <1>1, SurfaceSizeFacts DEF StepX, StepY
<1>3. /\ surface.width = Smaller(need.width, output.width)
      /\ surface.height = Smaller(need.height, output.height)
  BY <1>0, <1>1, PanelRectFacts DEF Requested
<1>4. panel.width = Smaller(need.width, surface.width) /\ panel.height = Smaller(need.height, surface.height)
  BY <1>0, <1>1, PanelRectFacts
<1>5. room.width \in Nat /\ room.width <= output.width /\ room.height \in Nat /\ room.height <= output.height
  BY <1>1, RoomFacts
<1>6. layout.flow # "vertical" /\ room.width >= config.width + 2 * config.margin =>
        layout.columns * StepX <= room.width - 2 * config.margin + config.spacing
  BY <1>0, <1>1, AdaptFacts
<1> HIDE DEF need, room, rows
<1>7. /\ panel.width = Smaller(need.width, output.width)
      /\ panel.height = Smaller(need.height, output.height)
  BY <1>0, <1>2, <1>3, <1>4 DEF Smaller
<1>8. CASE layout.flow = "horizontal"
  <2>1. SlotRect(grid.cursor).y = config.margin /\ Horizontal
    BY <1>0, <1>8 DEF SlotRect, Horizontal
  <2>2. rows * StepY >= StepY /\ rows * StepY \in Nat
    BY <1>0, <1>2
  <2>3. room.height >= config.height + 2 * config.margin
    BY <2>1 DEF room
  <2>4. need.height >= config.height + 2 * config.margin
    BY <1>0, <1>2, <2>2
  <2>5. panel.height >= config.height + 2 * config.margin
    BY <1>0, <1>2, <1>5, <1>7, <2>3, <2>4 DEF Smaller
  <2>6. panel.height \in Nat
    BY <1>0, <1>2, <1>7 DEF Smaller
  <2> QED
    BY <1>0, <2>1, <2>5, <2>6
<1>9. CASE layout.flow # "horizontal"
  <2> DEFINE column == IF layout.flow = "grid" THEN grid.selected % layout.columns ELSE 0
             across == config.margin + column * StepX
  <2>1. SlotRect(grid.cursor).x = across /\ ~Horizontal
    <3>1. layout.flow = "grid" => grid.cursor = grid.selected
      BY Setting DEF PanelInv, Placed
    <3> QED
      BY <1>9, <3>1 DEF SlotRect, Horizontal
  <2>2. column \in Nat /\ column + 1 <= columns /\ column + 1 <= layout.columns
    <3>1. CASE layout.flow = "grid"
      <4>1. grid.selected % layout.columns \in 0 .. layout.columns - 1
            /\ grid.selected % layout.columns <= grid.selected
        BY <1>0
      <4> QED
        BY <1>0, <3>1, <4>1 DEF Smaller
    <3>2. CASE layout.flow # "grid"
      BY <1>0, <1>2, <3>2
    <3> QED
      BY <3>1, <3>2
  <2>3. room.width >= config.width + 2 * config.margin
    BY <2>1 DEF room
  <2> HIDE DEF column, columns
  <2>4. column * StepX \in Nat /\ column * StepX + StepX <= columns * StepX
        /\ column * StepX + StepX <= layout.columns * StepX
    <3>1. (column + 1) * StepX <= columns * StepX
      BY <1>0, <1>2, <2>2
    <3>2. (column + 1) * StepX <= layout.columns * StepX
      BY <1>0, <2>2
    <3>3. (column + 1) * StepX = column * StepX + StepX /\ column * StepX \in Nat
      <4>1. \A a, s \in Nat : (a + 1) * s = a * s + s /\ a * s \in Nat
        OBVIOUS
      <4> QED
        BY <1>0, <2>2, <4>1
    <3> QED
      BY <3>1, <3>2, <3>3
  <2>5. across + config.width + config.margin <= need.width
    <3>1. columns * StepX \in Nat
      BY <1>0, <1>2
    <3> QED
      BY <1>0, <1>2, <2>4, <3>1
  <2>6. across + config.width + config.margin <= output.width
    <3>1. CASE layout.flow = "grid"
      <4>1. layout.columns * StepX <= room.width - 2 * config.margin + config.spacing
            /\ layout.columns * StepX \in Nat
        BY <1>0, <1>6, <2>3, <3>1
      <4> QED
        BY <1>0, <1>5, <2>4, <4>1
    <3>2. CASE layout.flow = "vertical"
      <4>1. column * StepX = 0
        BY <1>0, <3>2 DEF column
      <4> QED
        BY <1>0, <1>5, <2>3, <4>1
    <3> QED
      BY <1>0, <1>9, <3>1, <3>2 DEF Flows
  <2>7. across \in Nat
    BY <1>0, <2>4
  <2> HIDE DEF across
  <2>8. across + config.width + config.margin <= panel.width
    BY <1>7, <2>5, <2>6 DEF Smaller
  <2> QED
    BY <2>1, <2>8
<1> QED
  BY <1>8, <1>9

\* Whatever moves the selection or the panel leaves the selected tile where it
\* can be seen: in the rows or slots the store counts, and between the margins.
THEOREM SelectionStaysInView == PanelSpec => []SelectedInView
<1>1. PanelInv => SelectedInView
  <2> SUFFICES ASSUME PanelInv PROVE SelectedInView
    OBVIOUS
  <2>1. InVisibleRange(grid.selected, Ranges)
    BY Setting, SelectedIsVisible DEF PanelInv, Ranges
  <2> QED
    BY <2>1, SelectedIsWhole, SelectedIsAcross DEF SelectedInView
<1> QED
  BY <1>1, PanelHolds, PTL

-----------------------------------------------------------------------------
(* The pointer.                                                            *)

\* The cell of a slot along one axis, by dividing and by its edges.
LEMMA CellFacts ==
  ASSUME NEW offset \in Int, NEW stride \in Nat \ {0}, NEW size \in Nat, size <= stride, NEW q \in Int
  PROVE  LET cell == Cell(offset, stride)
         IN  /\ cell \in Int /\ (offset >= 0 => cell >= 0)
             /\ 0 <= offset - 2 * q * stride /\ offset - 2 * q * stride < 2 * size
                  <=> q = cell /\ offset - 2 * cell * stride < 2 * size
<1> DEFINE cell == Cell(offset, stride)
           d == 2 * stride
<1>1. d \in Nat \ {0}
  OBVIOUS
<1>2. \A n \in Int, e \in Nat \ {0} : /\ n \div e \in Int /\ e * (n \div e) <= n
                                      /\ n < e * (n \div e) + e /\ (n >= 0 => n \div e >= 0)
  OBVIOUS
<1>3. cell = offset \div d
  BY DEF Cell
<1> HIDE DEF d, cell
<1>4. cell \in Int /\ d * cell <= offset /\ offset < d * cell + d /\ (offset >= 0 => cell >= 0)
  BY <1>1, <1>2, <1>3
<1>5. 2 * q * stride = d * q /\ 2 * cell * stride = d * cell
  BY <1>4 DEF d
<1>6. 2 * size <= d
  BY DEF d
<1>7. ASSUME d * q <= offset, offset < d * q + d PROVE q = cell
  <2>1. ASSUME q <= cell - 1 PROVE FALSE
    <3>1. d * q <= d * (cell - 1)
      BY <1>1, <1>4, <2>1
    <3>2. d * (cell - 1) = d * cell - d
      BY <1>1, <1>4
    <3>3. d * q \in Int /\ d * cell \in Int
      BY <1>1, <1>4
    <3> QED
      BY <1>1, <1>4, <1>7, <3>1, <3>2, <3>3
  <2>2. ASSUME cell <= q - 1 PROVE FALSE
    <3>1. d * cell <= d * (q - 1)
      BY <1>1, <1>4, <2>2
    <3>2. d * (q - 1) = d * q - d
      BY <1>1
    <3>3. d * q \in Int /\ d * cell \in Int
      BY <1>1, <1>4
    <3> QED
      BY <1>1, <1>4, <1>7, <3>1, <3>2, <3>3
  <2> QED
    BY <1>4, <2>1, <2>2
<1>8. d * q \in Int /\ d * cell \in Int
  BY <1>1, <1>4
<1>9. /\ 0 <= offset - d * q /\ offset - d * q < 2 * size
        <=> q = cell /\ offset - d * cell < 2 * size
  <2>1. ASSUME 0 <= offset - d * q, offset - d * q < 2 * size
        PROVE  q = cell /\ offset - d * cell < 2 * size
    BY <1>1, <1>6, <1>7, <1>8, <2>1
  <2>2. ASSUME q = cell, offset - d * cell < 2 * size
        PROVE  0 <= offset - d * q /\ offset - d * q < 2 * size
    BY <1>4, <1>8, <2>2
  <2> QED
    BY <2>1, <2>2
<1> QED
  BY <1>4, <1>5, <1>9 DEF cell

\* The points of the panel over which a tile lies that begins at half.
Span(half, size, from, length) ==
  Larger((half + 1) \div 2, from) .. Smaller((half + 1) \div 2 + size, from + length) - 1

LEMMA SpanMeans ==
  ASSUME NEW half \in Int, NEW size \in Nat, NEW from \in Int, NEW length \in Nat, NEW p \in Int
  PROVE  p \in Span(half, size, from, length)
           <=> /\ from <= p /\ p < from + length
               /\ 0 <= 2 * p - half /\ 2 * p - half < 2 * size
<1> DEFINE start == (half + 1) \div 2
<1>1. start \in Int /\ 2 * start <= half + 1 /\ half <= 2 * start
  OBVIOUS
<1>2. Span(half, size, from, length) = Larger(start, from) .. Smaller(start + size, from + length) - 1
  BY DEF Span
<1> HIDE DEF start
<1> QED
  BY <1>1, <1>2 DEF Larger, Smaller

\* The rectangle of a slot, cut by the panel alone.
TileAt(scroll, s) ==
  (Span(2 * (panel.x + SlotRect(s).x) - (IF Horizontal THEN scroll ELSE 0),
        config.width, panel.x, panel.width)
    \X Span(2 * (panel.y + SlotRect(s).y) - (IF Horizontal THEN 0 ELSE scroll),
            config.height, panel.y, panel.height)) \cap Points

ColumnOf(slot) ==
  CASE layout.flow = "horizontal" -> slot
    [] layout.flow = "grid" -> slot % layout.columns
    [] OTHER -> 0
LineOf(slot) ==
  CASE layout.flow = "vertical" -> slot
    [] layout.flow = "grid" -> slot \div layout.columns
    [] OTHER -> 0

LEMMA HitIsTile ==
  ASSUME PanelInv, NEW scroll \in Int, NEW p \in Points, NEW s \in AllSlots
  PROVE  s \in Hit(scroll, p[1], p[2]) <=> p \in TileAt(scroll, s)
<1> DEFINE x == p[1]
           y == p[2]
           inside == x >= panel.x /\ y >= panel.y /\ x < panel.x + panel.width /\ y < panel.y + panel.height
           sx == IF Horizontal THEN scroll ELSE 0
           sy == IF Horizontal THEN 0 ELSE scroll
           cx == 2 * (x - panel.x - config.margin) + sx
           cy == 2 * (y - panel.y - config.margin) + sy
           column == Cell(cx, StepX)
           row == Cell(cy, StepY)
           index == row * layout.columns + column
           on_tile == cx - 2 * column * StepX < 2 * config.width /\ cy - 2 * row * StepY < 2 * config.height
           a == ColumnOf(s)
           b == LineOf(s)
<1>0. /\ config.margin \in Nat /\ config.width \in Nat \ {0} /\ config.height \in Nat \ {0}
      /\ config.spacing \in Nat /\ StepX \in Nat \ {0} /\ StepY \in Nat \ {0}
      /\ config.width <= StepX /\ config.height <= StepY
      /\ panel.width \in Nat /\ panel.height \in Nat /\ panel.x \in Nat /\ panel.y \in Nat
      /\ layout.flow \in Flows /\ layout.columns \in Nat \ {0} /\ count \in Nat \ {0}
      /\ x \in Int /\ y \in Int /\ p = <<x, y>> /\ sx \in Int /\ sy \in Int
  <2>1. PanelOk /\ SizeOk(surface)
    BY DEF PanelInv, PanelOk
  <2>2. x \in Int /\ y \in Int /\ p = <<x, y>>
    BY <2>1 DEF Points, SizeOk
  <2> QED
    BY <2>1, <2>2, Setting, ConfigFields DEF PanelOk, RectOk, StepX, StepY, Adapted
<1>1. cx \in Int /\ cy \in Int
  BY <1>0
<1>2. s \in Int /\ (layout.flow = "grid" => s \in 0 .. count - 1)
  BY <1>0, SlotAssumption DEF AllSlots
<1>3. a \in Int /\ b \in Int
  <2>1. layout.flow = "grid" => s % layout.columns \in Int /\ s \div layout.columns \in Int
    BY <1>0, <1>2
  <2> QED
    BY <1>2, <2>1 DEF ColumnOf, LineOf
<1>4. SlotRect(s).x = config.margin + a * StepX /\ SlotRect(s).y = config.margin + b * StepY
  BY DEF SlotRect, ColumnOf, LineOf
<1>5. TileAt(scroll, s) = (Span(2 * (panel.x + SlotRect(s).x) - sx, config.width, panel.x, panel.width)
         \X Span(2 * (panel.y + SlotRect(s).y) - sy, config.height, panel.y, panel.height)) \cap Points
  BY DEF TileAt
<1>6. Hit(scroll, x, y) = IF ~inside \/ ~on_tile THEN {}
      ELSE CASE layout.flow = "grid" ->
                  IF cx >= 0 /\ cy >= 0 /\ column < layout.columns /\ index < count THEN {index} ELSE {}
             [] layout.flow = "vertical" -> IF column = 0 THEN {row} ELSE {}
             [] layout.flow = "horizontal" -> IF row = 0 THEN {column} ELSE {}
  BY DEF Hit
<1> HIDE DEF sx, sy, a, b
<1>7. a * StepX \in Int /\ b * StepY \in Int
  BY <1>0, <1>3
<1>8. p \in TileAt(scroll, s)
        <=> /\ inside
            /\ 0 <= cx - 2 * a * StepX /\ cx - 2 * a * StepX < 2 * config.width
            /\ 0 <= cy - 2 * b * StepY /\ cy - 2 * b * StepY < 2 * config.height
  <2> DEFINE left == 2 * (panel.x + SlotRect(s).x) - sx
             top == 2 * (panel.y + SlotRect(s).y) - sy
  <2>1. left \in Int /\ top \in Int
    BY <1>0, <1>4, <1>7
  <2>2. 2 * x - left = cx - 2 * a * StepX /\ 2 * y - top = cy - 2 * b * StepY
    <3>1. 2 * a * StepX = 2 * (a * StepX) /\ 2 * b * StepY = 2 * (b * StepY)
      BY <1>0, <1>3
    <3> QED
      BY <1>0, <1>4, <1>7, <3>1
  <2>3. p \in TileAt(scroll, s)
          <=> x \in Span(left, config.width, panel.x, panel.width)
              /\ y \in Span(top, config.height, panel.y, panel.height)
    BY <1>0, <1>5
  <2> HIDE DEF left, top, cx, cy, x, y
  <2>0. /\ config.width \in Nat /\ config.height \in Nat /\ panel.x \in Int /\ panel.y \in Int
        /\ panel.width \in Nat /\ panel.height \in Nat /\ x \in Int /\ y \in Int
    BY <1>0
  <2>4. x \in Span(left, config.width, panel.x, panel.width)
          <=> /\ panel.x <= x /\ x < panel.x + panel.width
              /\ 0 <= 2 * x - left /\ 2 * x - left < 2 * config.width
    BY <2>0, <2>1, SpanMeans
  <2>5. y \in Span(top, config.height, panel.y, panel.height)
          <=> /\ panel.y <= y /\ y < panel.y + panel.height
              /\ 0 <= 2 * y - top /\ 2 * y - top < 2 * config.height
    BY <2>0, <2>1, SpanMeans
  <2> QED
    BY <1>0, <2>2, <2>3, <2>4, <2>5
<1> HIDE DEF cx, cy, inside, column, row
<1>9. column \in Int /\ row \in Int /\ (cx >= 0 => column >= 0) /\ (cy >= 0 => row >= 0)
  BY <1>0, <1>1, CellFacts DEF column, row
<1>10. 0 <= cx - 2 * a * StepX /\ cx - 2 * a * StepX < 2 * config.width
         <=> a = column /\ cx - 2 * column * StepX < 2 * config.width
  BY <1>0, <1>1, <1>3, CellFacts DEF column
<1>11. 0 <= cy - 2 * b * StepY /\ cy - 2 * b * StepY < 2 * config.height
         <=> b = row /\ cy - 2 * row * StepY < 2 * config.height
  BY <1>0, <1>1, <1>3, CellFacts DEF row
<1> HIDE DEF on_tile
<1>12. p \in TileAt(scroll, s) <=> inside /\ on_tile /\ a = column /\ b = row
  BY <1>8, <1>10, <1>11 DEF on_tile
<1>13. CASE layout.flow = "horizontal"
  <2>1. a = s /\ b = 0
    BY <1>13 DEF a, b, ColumnOf, LineOf
  <2> QED
    BY <1>6, <1>12, <1>13, <2>1
<1>14. CASE layout.flow = "vertical"
  <2>1. a = 0 /\ b = s
    BY <1>14 DEF a, b, ColumnOf, LineOf
  <2> QED
    BY <1>6, <1>12, <1>14, <2>1
<1>15. CASE layout.flow = "grid"
  <2>1. a = s % layout.columns /\ b = s \div layout.columns
    BY <1>15 DEF a, b, ColumnOf, LineOf
  <2>2. s \in Nat /\ s < count
    BY <1>0, <1>2, <1>15
  <2>3. \A n \in Nat, d \in Nat \ {0} : /\ n % d \in Nat /\ n % d < d /\ n \div d \in Nat
                                        /\ n = (n \div d) * d + (n % d)
    OBVIOUS
  <2>4. \A q, k \in Nat, d \in Nat \ {0} : k < d => (q * d + k) % d = k /\ (q * d + k) \div d = q
    <3> SUFFICES ASSUME NEW q \in Nat, NEW k \in Nat, NEW d \in Nat \ {0}, k < d
                 PROVE  (q * d + k) % d = k /\ (q * d + k) \div d = q
      OBVIOUS
    <3> DEFINE n == q * d + k
               u == n \div d
               v == n % d
    <3>1. n \in Nat
      <4>1. q * d \in Nat
        OBVIOUS
      <4> QED
        BY <4>1
    <3>2. u \in Nat /\ v \in Nat /\ v < d /\ n = u * d + v
      <4> HIDE DEF n
      <4> QED
        BY <2>3, <3>1
    <3> HIDE DEF u, v
    <3>3. (u - q) * d = k - v
      BY <3>2
    <3>4. u = q
      <4>1. ASSUME u - q >= 1 PROVE FALSE
        <5>1. (u - q) * d >= 1 * d
          BY <3>2, <4>1
        <5> QED
          BY <3>2, <3>3, <5>1
      <4>2. ASSUME u - q <= -1 PROVE FALSE
        <5>1. (u - q) * d <= (-1) * d
          BY <3>2, <4>2
        <5> QED
          BY <3>2, <3>3, <5>1
      <4> QED
        BY <3>2, <4>1, <4>2
    <3>5. v = k
      BY <3>2, <3>4
    <3> QED
      BY <3>4, <3>5 DEF u, v
  <2>5. ASSUME s \in Hit(scroll, x, y) PROVE p \in TileAt(scroll, s)
    <3>1. inside /\ on_tile /\ cx >= 0 /\ cy >= 0 /\ column < layout.columns /\ s = index
      BY <1>6, <1>15, <2>5
    <3>2. column \in Nat /\ row \in Nat
      BY <1>9, <3>1
    <3>3. s % layout.columns = column /\ s \div layout.columns = row
      BY <1>0, <2>4, <3>1, <3>2
    <3> QED
      BY <1>12, <2>1, <3>1, <3>3
  <2>6. ASSUME p \in TileAt(scroll, s) PROVE s \in Hit(scroll, x, y)
    <3>1. inside /\ on_tile /\ a = column /\ b = row
      BY <1>12, <2>6
    <3>2. a \in Nat /\ b \in Nat /\ a < layout.columns /\ s = b * layout.columns + a
      BY <1>0, <2>1, <2>2, <2>3
    <3>3. cx >= 0 /\ cy >= 0
      <4>1. 0 <= cx - 2 * a * StepX /\ 0 <= cy - 2 * b * StepY
        BY <1>8, <2>6
      <4>2. 2 * a * StepX \in Nat /\ 2 * b * StepY \in Nat
        BY <1>0, <3>2
      <4> QED
        BY <1>1, <4>1, <4>2
    <3>4. column < layout.columns /\ index = s
      BY <3>1, <3>2
    <3> QED
      BY <1>6, <1>15, <2>2, <3>1, <3>3, <3>4
  <2> QED
    BY <2>5, <2>6
<1> QED
  BY <1>0, <1>13, <1>14, <1>15 DEF Flows

-----------------------------------------------------------------------------
(* The tiles of a frame at rest.                                           *)

LEMMA AlongFacts ==
  ASSUME PanelInv
  PROVE  /\ Extent \in Nat \ {0} /\ Step \in Nat \ {0} /\ Extent <= Step
         /\ Length \in Nat /\ Origin \in Nat /\ config.margin \in Nat
         /\ layout.columns \in Nat \ {0} /\ count \in Nat \ {0} /\ grid.cursor \in Int
         /\ MinSlot \in Int /\ MaxSlot \in Int
<1>1. PanelOk /\ grid.cursor \in Int
  BY DEF PanelInv, Placed, GridOk
<1> QED
  BY <1>1, Setting, ConfigFields, SlotAssumption DEF PanelOk, RectOk, Extent, Step, Length, Origin, Adapted

\* Where the rows of a grid and the slots of a carousel begin.
LEMMA RowStarts ==
  ASSUME PanelInv, layout.flow = "grid", NEW s \in Nat
  PROVE  /\ s \div layout.columns \in Nat
         /\ Start(s) = config.margin + (s \div layout.columns) * Step
         /\ grid.first_row \in Nat /\ RestScroll = 2 * (grid.first_row * Step)
<1>1. layout.columns \in Nat \ {0} /\ grid.first_row \in Nat /\ Step \in Nat
  BY AlongFacts DEF PanelInv, Placed, GridOk
<1>2. s \div layout.columns \in Nat
  BY <1>1, Quotient
<1>3. Step = config.height + config.spacing /\ Step = StepY
  BY DEF Step, Extent, Horizontal, StepY
<1>4. Start(s) = config.margin + (s \div layout.columns) * Step
  BY <1>3 DEF Start, SlotRect, Horizontal
<1>5. RestScroll = 2 * grid.first_row * Step
  BY <1>3 DEF RestScroll, Scroll
<1> QED
  BY <1>1, <1>2, <1>4, <1>5

LEMMA SlotStarts ==
  ASSUME PanelInv, layout.flow # "grid", NEW s \in Int
  PROVE  /\ Start(s) = config.margin + s * Step
         /\ RestScroll = 2 * (config.margin + grid.cursor * Step) + Extent - Length
<1>1. layout.flow \in {"horizontal", "vertical"}
  BY Setting DEF PanelInv, Adapted, Flows
<1>2. CASE layout.flow = "horizontal"
  BY <1>2 DEF Start, SlotRect, Horizontal, RestScroll, Scroll, Step, Extent, Length, StepX
<1>3. CASE layout.flow = "vertical"
  BY <1>3 DEF Start, SlotRect, Horizontal, RestScroll, Scroll, Step, Extent, Length, StepY
<1> QED
  BY <1>1, <1>2, <1>3

LEMMA RowsInOrder ==
  ASSUME NEW m \in Nat, NEW n \in Nat, m <= n, NEW d \in Nat \ {0}
  PROVE  m \div d <= n \div d
<1> DEFINE u == m \div d
           v == n \div d
<1>1. u \in Nat /\ v \in Nat /\ d * u <= m /\ n < d * v + d
  BY Quotient
<1> HIDE DEF u, v
<1>2. ASSUME v + 1 <= u PROVE FALSE
  <2>1. d * (v + 1) <= d * u /\ d * (v + 1) = d * v + d
    BY <1>1, <1>2
  <2>2. d * u \in Nat /\ d * v \in Nat
    BY <1>1
  <2> QED
    BY <1>1, <2>1, <2>2
<1> QED
  BY <1>1, <1>2 DEF u, v

LEMMA SlotsAreInt ==
  ASSUME PanelInv
  PROVE  \A s \in AllSlots : s \in Int /\ (layout.flow = "grid" => s \in Nat)
BY AlongFacts DEF AllSlots

\* Where a tile begins, from the beginning of the panel.
AtRest(s) == 2 * Start(s) - RestScroll

LEMMA StartIsInt ==
  ASSUME PanelInv
  PROVE  RestScroll \in Int /\ \A s \in AllSlots : Start(s) \in Int /\ AtRest(s) \in Int
<1>1. RestScroll \in Int
  BY Setting, ScrollIsInt DEF RestScroll, PanelInv, PanelOk, Placed
<1>2. ASSUME NEW s \in AllSlots PROVE Start(s) \in Int
  <2>1. s \in Int /\ Step \in Nat /\ config.margin \in Nat
    BY SlotsAreInt, AlongFacts
  <2>2. \A k \in Int : config.margin + k * Step \in Int
    BY <2>1
  <2>3. CASE layout.flow = "grid"
    <3>1. s \in Nat
      BY <2>3, SlotsAreInt
    <3> QED
      BY <2>2, <2>3, <3>1, RowStarts
  <2>4. CASE layout.flow # "grid"
    BY <2>1, <2>2, <2>4, SlotStarts
  <2> QED
    BY <2>3, <2>4
<1> QED
  BY <1>1, <1>2 DEF AtRest

LEMMA AtRestOrder ==
  ASSUME PanelInv, NEW s \in AllSlots, NEW t \in AllSlots, t <= s
  PROVE  s \in Int /\ t \in Int /\ AtRest(s) \in Int /\ AtRest(t) \in Int /\ AtRest(t) <= AtRest(s)
<1>1. CASE layout.flow = "grid"
  <2> DEFINE a == s \div layout.columns
             b == t \div layout.columns
  <2>1. s \in Nat /\ t \in Nat
    BY <1>1, AlongFacts DEF AllSlots
  <2>2. a \in Nat /\ b \in Nat /\ Start(s) = config.margin + a * Step
        /\ Start(t) = config.margin + b * Step /\ RestScroll = 2 * (grid.first_row * Step)
        /\ grid.first_row \in Nat
    BY <1>1, <2>1, RowStarts
  <2>3. b <= a
    BY <2>1, RowsInOrder, AlongFacts
  <2> HIDE DEF a, b
  <2>4. Step \in Nat /\ config.margin \in Nat
    BY AlongFacts
  <2>5. b * Step <= a * Step /\ a * Step \in Nat /\ b * Step \in Nat /\ grid.first_row * Step \in Nat
    BY <2>2, <2>3, <2>4
  <2> QED
    BY <2>1, <2>2, <2>4, <2>5 DEF AtRest
<1>2. CASE layout.flow # "grid"
  <2>1. s \in Int /\ t \in Int /\ Step \in Nat /\ config.margin \in Nat /\ Extent \in Nat /\ Length \in Nat
        /\ grid.cursor \in Int
    BY <1>2, AlongFacts DEF AllSlots
  <2>2. Start(s) = config.margin + s * Step /\ Start(t) = config.margin + t * Step
        /\ RestScroll = 2 * (config.margin + grid.cursor * Step) + Extent - Length
    BY <1>2, <2>1, SlotStarts
  <2>3. t * Step <= s * Step /\ s * Step \in Int /\ t * Step \in Int /\ grid.cursor * Step \in Int
    BY <2>1
  <2> QED
    BY <2>1, <2>2, <2>3 DEF AtRest
<1> QED
  BY <1>1, <1>2

LEMMA RoundedFacts ==
  ASSUME NEW h \in Int, NEW c \in Int
  PROVE  /\ Rounded(h) \in Int
         /\ Rounded(h) < c => h < 2 * c
         /\ Rounded(h) > c => h > 2 * c
         /\ Rounded(h) >= c => h >= 2 * c - 1
         /\ \A k \in Int : k <= h => Rounded(k) <= Rounded(h)
<1>1. \A n \in Int : n \div 2 \in Int /\ 2 * (n \div 2) <= n /\ n <= 2 * (n \div 2) + 1
  OBVIOUS
<1>2. \A n \in Int : /\ Rounded(n) \in Int
                     /\ n >= 0 => n <= 2 * Rounded(n) /\ 2 * Rounded(n) <= n + 1
                     /\ n < 0 => n - 1 <= 2 * Rounded(n) /\ 2 * Rounded(n) <= n
  <2> SUFFICES ASSUME NEW n \in Int
               PROVE /\ Rounded(n) \in Int
                     /\ n >= 0 => n <= 2 * Rounded(n) /\ 2 * Rounded(n) <= n + 1
                     /\ n < 0 => n - 1 <= 2 * Rounded(n) /\ 2 * Rounded(n) <= n
    OBVIOUS
  <2>1. n + 1 \in Int /\ 1 - n \in Int
    OBVIOUS
  <2> QED
    BY <1>1, <2>1 DEF Rounded
<1> QED
  BY <1>2

\* The clips end inside the panel, that of the tiles inside that of the focused ones.
LEMMA ClipFacts ==
  ASSUME PanelInv
  PROVE  /\ TileClip[1] \in Int /\ TileClip[2] \in Int /\ ContentClip[1] \in Int /\ ContentClip[2] \in Int
         /\ Origin <= ContentClip[1] /\ ContentClip[1] <= TileClip[1]
         /\ TileClip[2] <= ContentClip[2] /\ ContentClip[2] <= Origin + Length
         /\ Fades => TileClip[2] >= Origin + Length - config.margin
<1> DEFINE inset == Monus(config.margin, config.overflow)
<1>1. Origin \in Nat /\ Length \in Nat /\ config.margin \in Nat /\ config.overflow \in Nat
  BY AlongFacts, Setting, ConfigFields DEF PanelInv
<1>2. inset \in Nat /\ inset <= config.margin
  BY <1>1 DEF Monus, Larger
<1>3. ContentClip = <<Origin + inset, Origin + Length - inset>>
  BY DEF ContentClip
<1> HIDE DEF inset
<1>4. ContentClip[1] = Origin + inset /\ ContentClip[2] = Origin + Length - inset
  BY <1>3
<1>5. CASE Clips /\ 2 * config.margin < Length
  <2>1. /\ TileClip[1] = Larger(ContentClip[1], Origin + config.margin)
        /\ TileClip[2] = Smaller(ContentClip[2], Origin + Length - config.margin)
    BY <1>5 DEF TileClip
  <2>2. ~Fades
    BY <1>5 DEF Clips
  <2> QED
    BY <1>1, <1>2, <1>4, <2>1, <2>2 DEF Larger, Smaller
<1>6. CASE ~(Clips /\ 2 * config.margin < Length)
  <2>1. TileClip = ContentClip
    BY <1>6 DEF TileClip
  <2> QED
    BY <1>1, <1>2, <1>4, <2>1
<1> QED
  BY <1>5, <1>6

LEMMA PlaceMeans ==
  ASSUME PanelInv, NEW clip, clip[1] \in Int, clip[2] \in Int, NEW s \in AllSlots
  PROVE  LET start == 2 * Origin + AtRest(s)
         IN  /\ start \in Int
             /\ Place(clip, RestScroll, s) = "visible"
                  <=> Fading(RestScroll, s) \/ (Rounded(start) < clip[2] /\ Rounded(start + 2 * Extent) > clip[1])
             /\ Place(clip, RestScroll, s) = "after" <=> ~Fading(RestScroll, s) /\ Rounded(start) >= clip[2]
<1> DEFINE start == 2 * Origin + AtRest(s)
<1>1. Origin \in Nat /\ Extent \in Nat /\ Start(s) \in Int /\ RestScroll \in Int /\ AtRest(s) \in Int
  BY AlongFacts, StartIsInt
<1>2. start \in Int /\ start + 2 * Extent \in Int
  BY <1>1
<1>3. 2 * (Origin + Start(s)) - RestScroll = start
  BY <1>1 DEF AtRest
<1>4. Place(clip, RestScroll, s) =
        IF Fading(RestScroll, s) THEN "visible"
        ELSE IF Rounded(start) >= clip[2] THEN "after"
        ELSE IF Rounded(start + 2 * Extent) <= clip[1] THEN "before"
        ELSE "visible"
  BY <1>3 DEF Place
<1> HIDE DEF start
<1>5. Rounded(start) \in Int /\ Rounded(start + 2 * Extent) \in Int
  BY <1>2, RoundedFacts
<1> QED
  BY <1>2, <1>4, <1>5 DEF start

\* How far a tile is past the margins, at rest.
LEMMA OverMeans ==
  ASSUME PanelInv, NEW s \in AllSlots
  PROVE  /\ Over(RestScroll, s) = Larger(2 * config.margin - AtRest(s),
                                         AtRest(s) + 2 * Extent - 2 * (Length - config.margin))
         /\ Over(RestScroll, s) \in Int
<1>1. Extent \in Int /\ Length \in Int /\ config.margin \in Int /\ AtRest(s) \in Int
  BY AlongFacts, StartIsInt
<1>2. Over(RestScroll, s) = Larger(2 * config.margin - AtRest(s),
                                   AtRest(s) + 2 * Extent - 2 * (Length - config.margin))
  BY DEF Over, AtRest
<1> QED
  BY <1>1, <1>2 DEF Larger

LEMMA GridBounds ==
  ASSUME PanelInv, layout.flow = "grid", NEW s \in AllSlots, Place(TileClip, RestScroll, s) = "visible"
  PROVE  s \in SlotBounds(TileClip, RestScroll)
<1> DEFINE boundary == 2 * (TileClip[1] - Origin - config.margin - Extent) + RestScroll
           row == boundary \div (2 * Step)
           own == s \div layout.columns
           start == 2 * Origin + AtRest(s)
<1>1. /\ Extent \in Nat \ {0} /\ Step \in Nat \ {0} /\ Origin \in Nat /\ config.margin \in Nat
      /\ layout.columns \in Nat \ {0} /\ count \in Nat \ {0} /\ TileClip[1] \in Int /\ TileClip[2] \in Int
  BY AlongFacts, ClipFacts
<1>2. s \in Nat /\ s < count
  BY <1>1 DEF AllSlots
<1>3. own \in Nat /\ Start(s) = config.margin + own * Step
      /\ grid.first_row \in Nat /\ RestScroll = 2 * (grid.first_row * Step)
  BY <1>2, RowStarts
<1>4. Rounded(start + 2 * Extent) > TileClip[1]
  <2>1. ~Fading(RestScroll, s)
    BY DEF Fading, Fades
  <2> QED
    BY <1>1, <2>1, PlaceMeans
<1>5. grid.first_row * Step \in Nat /\ own * Step \in Nat
  BY <1>1, <1>3
<1>6. start = 2 * (Origin + config.margin + own * Step - grid.first_row * Step)
  BY <1>1, <1>3, <1>5 DEF AtRest
<1> HIDE DEF own, start
<1>7. boundary \in Int /\ own * (2 * Step) > boundary
  <2>1. start + 2 * Extent \in Int
    BY <1>1, <1>5, <1>6
  <2>2. start + 2 * Extent > 2 * TileClip[1]
    BY <1>1, <1>4, <2>1, RoundedFacts
  <2>3. own * (2 * Step) = 2 * (own * Step)
    BY <1>1, <1>3
  <2> QED
    BY <1>1, <1>3, <1>5, <1>6, <2>2, <2>3
<1>8. GridFirstSlot(TileClip, RestScroll) =
        IF boundary <= 0 THEN 0
        ELSE IF row > RowOf(layout, count - 1) THEN count ELSE row * layout.columns
  BY DEF GridFirstSlot
<1> HIDE DEF boundary
<1>9. GridFirstSlot(TileClip, RestScroll) \in Nat /\ GridFirstSlot(TileClip, RestScroll) <= s
  <2>1. CASE boundary <= 0
    BY <1>2, <1>8, <2>1
  <2>2. CASE boundary > 0
    <3> DEFINE d == 2 * Step
    <3>1. d \in Nat \ {0} /\ boundary \in Nat
      BY <1>1, <1>7, <2>2
    <3>2. row \in Nat /\ d * row <= boundary /\ own * d > boundary
      <4> HIDE DEF d
      <4>1. boundary \div d \in Nat /\ d * (boundary \div d) <= boundary
        BY <3>1, Quotient
      <4> QED
        BY <1>7, <4>1 DEF d
    <3> HIDE DEF d, row
    <3>3. row < own
      <4>1. ASSUME own <= row PROVE FALSE
        <5>1. d * own <= d * row
          BY <1>3, <3>1, <3>2, <4>1
        <5>2. d * own = own * d /\ d * own \in Nat /\ d * row \in Nat
          BY <1>3, <3>1, <3>2
        <5> QED
          BY <3>1, <3>2, <5>1, <5>2
      <4> QED
        BY <1>3, <3>2, <4>1
    <3>4. own <= RowOf(layout, count - 1) /\ RowOf(layout, count - 1) \in Nat
      <4>1. \A m, n \in Nat : m <= n => m \div layout.columns <= n \div layout.columns
        BY <1>1, RowsInOrder
      <4>2. s <= count - 1 /\ count - 1 \in Nat
        BY <1>1, <1>2
      <4>3. (count - 1) \div layout.columns \in Nat
        BY <1>1, <4>2, Quotient
      <4> QED
        BY <1>2, <4>1, <4>2, <4>3 DEF RowOf, own
    <3>5. GridFirstSlot(TileClip, RestScroll) = row * layout.columns
      BY <1>3, <1>7, <1>8, <2>2, <3>2, <3>3, <3>4
    <3>6. row * layout.columns <= own * layout.columns /\ row * layout.columns \in Nat
      BY <1>1, <1>3, <3>2, <3>3
    <3>7. own * layout.columns <= s
      <4>1. layout.columns * own <= s
        BY <1>1, <1>2, Quotient DEF own
      <4> QED
        BY <1>1, <1>3, <4>1
    <3> QED
      BY <1>1, <1>2, <1>3, <3>5, <3>6, <3>7
  <2> QED
    BY <1>7, <2>1, <2>2
<1>10. SlotBounds(TileClip, RestScroll) = GridFirstSlot(TileClip, RestScroll) .. count - 1
  BY DEF SlotBounds
<1> QED
  BY <1>1, <1>2, <1>9, <1>10

\* In sight, or not yet faded away, is not far from the selection.
LEMMA CarouselReach ==
  ASSUME PanelInv, layout.flow # "grid", NEW s \in AllSlots,
         Place(TileClip, RestScroll, s) = "visible", Opaque(RestScroll, s)
  PROVE  s \in SlotBounds(TileClip, RestScroll)
<1> DEFINE radius == Length \div Step + 2
           whole == Step * (Length \div Step)
           gap == s - grid.cursor
           start == 2 * Origin + AtRest(s)
<1>1. /\ Extent \in Nat \ {0} /\ Step \in Nat \ {0} /\ Extent <= Step /\ Length \in Nat
      /\ Origin \in Nat /\ config.margin \in Nat /\ grid.cursor \in Int
      /\ MinSlot \in Int /\ MaxSlot \in Int
      /\ TileClip[1] \in Int /\ TileClip[2] \in Int /\ TileClip[1] >= Origin /\ TileClip[2] <= Origin + Length
  <2>1. /\ TileClip[1] \in Int /\ TileClip[2] \in Int /\ ContentClip[1] \in Int /\ ContentClip[2] \in Int
        /\ Origin <= ContentClip[1] /\ ContentClip[1] <= TileClip[1]
        /\ TileClip[2] <= ContentClip[2] /\ ContentClip[2] <= Origin + Length
    BY ClipFacts
  <2> QED
    BY <2>1, AlongFacts
<1>2. s \in Int /\ MinSlot <= s /\ s <= MaxSlot
  BY <1>1 DEF AllSlots
<1>3. radius \in Nat /\ whole \in Nat /\ Length < whole + Step /\ Step * radius = whole + 2 * Step
  <2> DEFINE n == Length \div Step
  <2>1. n \in Nat /\ Length < Step * n + Step
    BY <1>1, Quotient
  <2> HIDE DEF n
  <2>2. Step * n \in Nat /\ Step * (n + 2) = Step * n + 2 * Step
    BY <1>1, <2>1
  <2> QED
    BY <2>1, <2>2 DEF n
<1> HIDE DEF radius, whole
<1>4. AtRest(s) = 2 * (Step * gap) + Length - Extent /\ Step * gap \in Int
  <2>1. /\ Start(s) = config.margin + s * Step
        /\ RestScroll = 2 * (config.margin + grid.cursor * Step) + Extent - Length
    BY <1>2, SlotStarts
  <2>2. s * Step \in Int /\ grid.cursor * Step \in Int /\ Step * gap = s * Step - grid.cursor * Step
    BY <1>1, <1>2
  <2> QED
    BY <1>1, <2>1, <2>2 DEF AtRest
<1>5. start \in Int /\ start + 2 * Extent \in Int
  BY <1>1, <1>4
<1>6. 2 * (Step * gap) < Length + 2 * Step /\ -(2 * (Step * gap)) < Length + 2 * Step
  <2>1. CASE Fading(RestScroll, s)
    <3>1. Over(RestScroll, s) < 2 * Step
      BY <2>1 DEF Opaque
    <3>2. /\ 2 * config.margin - AtRest(s) < 2 * Step
          /\ AtRest(s) + 2 * Extent - 2 * (Length - config.margin) < 2 * Step
      BY <1>1, <1>4, <3>1, OverMeans DEF Larger
    <3> QED
      BY <1>1, <1>4, <3>2
  <2>2. CASE ~Fading(RestScroll, s)
    <3>1. Rounded(start) < TileClip[2] /\ Rounded(start + 2 * Extent) > TileClip[1]
      BY <1>1, <2>2, PlaceMeans
    <3>2. start < 2 * TileClip[2] /\ start + 2 * Extent > 2 * TileClip[1]
      BY <1>1, <1>5, <3>1, RoundedFacts
    <3> QED
      BY <1>1, <1>4, <3>2
  <2> QED
    BY <2>1, <2>2
<1> HIDE DEF start
<1>7. gap \in Int /\ gap <= radius /\ -gap <= radius
  <2>1. \A g \in Int : g >= radius + 1 => Step * g >= Step * radius + Step
    <3> SUFFICES ASSUME NEW g \in Int, g >= radius + 1 PROVE Step * g >= Step * radius + Step
      OBVIOUS
    <3>1. Step * g >= Step * (radius + 1)
      BY <1>1, <1>3
    <3>2. Step * (radius + 1) = Step * radius + Step
      BY <1>1, <1>3
    <3> QED
      BY <3>1, <3>2
  <2>2. gap \in Int /\ -gap \in Int
    BY <1>1, <1>2
  <2> HIDE DEF gap
  <2>3. Step * (-gap) = -(Step * gap)
    BY <1>1, <2>2
  <2>4. ASSUME gap >= radius + 1 PROVE FALSE
    <3>1. Step * gap >= Step * radius + Step
      BY <2>1, <2>2, <2>4
    <3> QED
      BY <1>1, <1>3, <1>4, <1>6, <3>1
  <2>5. ASSUME -gap >= radius + 1 PROVE FALSE
    <3>1. Step * (-gap) >= Step * radius + Step
      BY <2>1, <2>2, <2>5
    <3> QED
      BY <1>1, <1>3, <1>4, <1>6, <2>3, <3>1
  <2> QED
    BY <1>3, <2>2, <2>4, <2>5
<1>8. SlotBounds(TileClip, RestScroll) =
        Larger(MinSlot, grid.cursor - radius) .. Smaller(MaxSlot, grid.cursor + radius)
  BY DEF SlotBounds, CarouselBounds, radius
<1> QED
  BY <1>1, <1>2, <1>3, <1>7, <1>8 DEF Larger, Smaller

LEMMA BoundsAreSlots ==
  ASSUME PanelInv
  PROVE  SlotBounds(TileClip, RestScroll) \subseteq AllSlots
<1>1. CASE layout.flow # "grid"
  <2> DEFINE radius == Length \div Step + 2
  <2>1. radius \in Int /\ MinSlot \in Int /\ MaxSlot \in Int /\ grid.cursor \in Int
    BY AlongFacts
  <2>2. SlotBounds(TileClip, RestScroll) =
          Larger(MinSlot, grid.cursor - radius) .. Smaller(MaxSlot, grid.cursor + radius)
    BY <1>1 DEF SlotBounds, CarouselBounds
  <2> HIDE DEF radius
  <2> QED
    BY <1>1, <2>1, <2>2 DEF AllSlots, Larger, Smaller
<1>2. CASE layout.flow = "grid"
  <2> DEFINE boundary == 2 * (TileClip[1] - Origin - config.margin - Extent) + RestScroll
             row == boundary \div (2 * Step)
  <2>1. /\ Extent \in Int /\ Step \in Nat \ {0} /\ Origin \in Int /\ config.margin \in Int
        /\ layout.columns \in Nat \ {0} /\ count \in Nat \ {0} /\ TileClip[1] \in Int /\ RestScroll \in Int
    BY <1>2, AlongFacts, ClipFacts, StartIsInt
  <2>2. boundary \in Int /\ 2 * Step \in Nat \ {0}
    BY <2>1
  <2>3. GridFirstSlot(TileClip, RestScroll) =
          IF boundary <= 0 THEN 0
          ELSE IF row > RowOf(layout, count - 1) THEN count ELSE row * layout.columns
    BY DEF GridFirstSlot
  <2> HIDE DEF boundary
  <2>4. boundary > 0 => row \in Nat /\ row * layout.columns \in Nat
    <3> SUFFICES ASSUME boundary > 0 PROVE row \in Nat /\ row * layout.columns \in Nat
      OBVIOUS
    <3>1. row \in Nat
      BY <2>2, Quotient
    <3> HIDE DEF row
    <3> QED
      BY <2>1, <3>1
  <2> HIDE DEF row
  <2>5. GridFirstSlot(TileClip, RestScroll) \in Nat
    BY <2>1, <2>2, <2>3, <2>4
  <2> QED
    BY <1>2, <2>1, <2>5 DEF SlotBounds, AllSlots
<1> QED
  BY <1>1, <1>2

\* The first tile past the panel comes after all those in sight.
LEMMA InSightBeforePast ==
  ASSUME PanelInv, NEW s \in AllSlots, NEW t \in AllSlots,
         Place(TileClip, RestScroll, s) = "visible", Place(TileClip, RestScroll, t) = "after"
  PROVE  s < t
<1> DEFINE a == 2 * Origin + AtRest(s)
           b == 2 * Origin + AtRest(t)
<1>0. /\ Extent \in Nat \ {0} /\ Length \in Nat /\ Origin \in Nat /\ config.margin \in Nat
      /\ TileClip[1] \in Int /\ TileClip[2] \in Int
      /\ Fades => TileClip[2] >= Origin + Length - config.margin
  BY AlongFacts, ClipFacts
<1>1. s \in Int /\ t \in Int /\ AtRest(s) \in Int /\ AtRest(t) \in Int
  BY AtRestOrder, SlotsAreInt
<1> SUFFICES ASSUME t <= s PROVE FALSE
  BY <1>1
<1>2. a \in Int /\ b \in Int /\ b <= a
  BY <1>0, <1>1, AtRestOrder
<1>3. ~Fading(RestScroll, t) /\ Rounded(b) >= TileClip[2]
  BY <1>0, PlaceMeans
<1> HIDE DEF a, b
<1>4. CASE ~Fading(RestScroll, s)
  <2>1. Rounded(a) < TileClip[2]
    BY <1>0, <1>4, PlaceMeans DEF a
  <2>2. Rounded(b) <= Rounded(a) /\ Rounded(a) \in Int /\ Rounded(b) \in Int
    BY <1>0, <1>2, RoundedFacts
  <2> QED
    BY <1>0, <1>3, <2>1, <2>2
<1>5. CASE Fading(RestScroll, s)
  <2>1. Fades /\ ~(Over(RestScroll, t) > 0)
    BY <1>3, <1>5 DEF Fading
  <2>2. AtRest(t) + 2 * Extent <= 2 * (Length - config.margin)
    BY <1>0, <1>1, <2>1, OverMeans DEF Larger
  <2>3. b >= 2 * TileClip[2] - 1
    BY <1>0, <1>2, <1>3, RoundedFacts
  <2> QED
    BY <1>0, <1>1, <2>1, <2>2, <2>3 DEF b
<1> QED
  BY <1>4, <1>5

LEMMA InSightIsDrawn ==
  ASSUME PanelInv, NEW s \in AllSlots,
         Place(TileClip, RestScroll, s) = "visible", Opaque(RestScroll, s)
  PROVE  s \in Drawn(RestScroll, Focused)
<1>1. CASE s \in Focused
  <2>1. Place(ContentClip, RestScroll, s) = "visible"
    <3> DEFINE start == 2 * Origin + AtRest(s)
    <3>1. /\ TileClip[1] \in Int /\ TileClip[2] \in Int /\ ContentClip[1] \in Int /\ ContentClip[2] \in Int
          /\ ContentClip[1] <= TileClip[1] /\ TileClip[2] <= ContentClip[2]
      BY ClipFacts
    <3>2. start \in Int /\ start + 2 * Extent \in Int
      BY <3>1, PlaceMeans, AlongFacts
    <3>3. Fading(RestScroll, s) \/ (Rounded(start) < TileClip[2] /\ Rounded(start + 2 * Extent) > TileClip[1])
      BY <3>1, PlaceMeans
    <3>4. Rounded(start) \in Int /\ Rounded(start + 2 * Extent) \in Int
      BY <3>2, RoundedFacts
    <3>5. Fading(RestScroll, s) \/ (Rounded(start) < ContentClip[2] /\ Rounded(start + 2 * Extent) > ContentClip[1])
      BY <3>1, <3>3, <3>4
    <3> QED
      BY <3>1, <3>5, PlaceMeans
  <2> QED
    BY <1>1, <2>1 DEF Drawn, DrawnFocused
<1>2. CASE s \notin Focused
  <2>1. s \in SlotBounds(TileClip, RestScroll)
    BY GridBounds, CarouselReach
  <2>2. \A t \in SlotBounds(TileClip, RestScroll) : Place(TileClip, RestScroll, t) = "after" => s < t
    BY BoundsAreSlots, InSightBeforePast
  <2> QED
    BY <1>2, <2>1, <2>2 DEF Drawn, DrawnUnfocused
<1> QED
  BY <1>1, <1>2

\* The pass over the tiles begins early enough and ends late enough: every tile
\* in sight of a picker at rest is drawn.
THEOREM NoTileIsLeftOut == PanelSpec => []NoHoleAtRest
<1>1. PanelInv => NoHoleAtRest
  BY InSightIsDrawn DEF NoHoleAtRest
<1> QED
  BY <1>1, PanelHolds, PTL

-----------------------------------------------------------------------------
(* What the pointer selects is what is seen there.                         *)

\* Rounding and dividing come to the same pixels, from 0 on.
LEMMA RoundedBounds ==
  ASSUME NEW h \in Int, NEW q \in Nat
  PROVE  Rounded(h) \in Int /\ (Rounded(h) <= q <=> h <= 2 * q)
<1>1. \A n \in Int : n \div 2 \in Int /\ 2 * (n \div 2) <= n /\ n <= 2 * (n \div 2) + 1
  OBVIOUS
<1>2. h + 1 \in Int /\ 1 - h \in Int
  OBVIOUS
<1> QED
  BY <1>1, <1>2 DEF Rounded

LEMMA RectIsInt ==
  ASSUME PanelInv, NEW s \in AllSlots
  PROVE  SlotRect(s).x \in Int /\ SlotRect(s).y \in Int
<1>1. /\ config.margin \in Nat /\ StepX \in Nat /\ StepY \in Nat /\ layout.columns \in Nat \ {0}
  BY Setting, ConfigFields DEF PanelInv, StepX, StepY, PanelOk, Adapted
<1>2. s \in Int
  BY SlotsAreInt
<1>3. ColumnOf(s) \in Int /\ LineOf(s) \in Int
  <2>1. s % layout.columns \in Int /\ s \div layout.columns \in Int
    BY <1>1, <1>2
  <2> QED
    BY <1>2, <2>1 DEF ColumnOf, LineOf
<1>4. SlotRect(s).x = config.margin + ColumnOf(s) * StepX /\ SlotRect(s).y = config.margin + LineOf(s) * StepY
  BY DEF SlotRect, ColumnOf, LineOf
<1>5. \A k, m \in Int : k * m \in Int
  OBVIOUS
<1>6. ColumnOf(s) * StepX \in Int /\ LineOf(s) * StepY \in Int
  BY <1>1, <1>3, <1>5
<1> QED
  BY <1>1, <1>4, <1>6

\* The pixels of a tile are the points its halves lie over, between the clips.
LEMMA PixelsMean ==
  ASSUME NEW clip, clip[1] \in Nat, clip[2] \in Int, NEW half \in Int, NEW size \in Nat, NEW p \in Int
  PROVE  p \in Pixels(clip, half, size)
           <=> /\ clip[1] <= p /\ p < clip[2]
               /\ 0 <= 2 * p - half /\ 2 * p - half < 2 * size
<1> DEFINE end == half + 2 * size
<1>1. end \in Int
  OBVIOUS
<1>3. \A h \in Int, q \in Nat : Rounded(h) \in Int /\ (Rounded(h) <= q <=> h <= 2 * q)
  BY RoundedBounds
<1>4. Pixels(clip, half, size) = Larger(Rounded(half), clip[1]) .. Smaller(Rounded(end), clip[2]) - 1
  BY DEF Pixels
<1>5. Rounded(half) \in Int /\ Rounded(end) \in Int
  BY <1>1, <1>3
<1>6. p \in Pixels(clip, half, size)
        <=> Rounded(half) <= p /\ clip[1] <= p /\ p < Rounded(end) /\ p < clip[2]
  BY <1>4, <1>5 DEF Larger, Smaller
<1>7. p \in Nat => (Rounded(half) <= p <=> half <= 2 * p) /\ (p < Rounded(end) <=> 2 * p < end)
  <2> HIDE DEF end
  <2> SUFFICES ASSUME p \in Nat
               PROVE  (Rounded(half) <= p <=> half <= 2 * p) /\ (p < Rounded(end) <=> 2 * p < end)
    OBVIOUS
  <2>1. Rounded(half) <= p <=> half <= 2 * p
    BY <1>3
  <2>2. Rounded(end) <= p <=> end <= 2 * p
    BY <1>1, <1>3
  <2> QED
    BY <1>1, <1>5, <2>1, <2>2
<1>8. clip[1] <= p => p \in Nat
  OBVIOUS
<1> HIDE DEF end
<1>9. half <= 2 * p <=> 0 <= 2 * p - half
  OBVIOUS
<1>10. 2 * p < end <=> 2 * p - half < 2 * size
  BY DEF end
<1> QED
  BY <1>6, <1>7, <1>8, <1>9, <1>10

\* The clip across the axis of the scroll lies in the panel.
LEMMA AcrossFacts ==
  ASSUME PanelInv
  PROVE  /\ AcrossClip[1] \in Nat /\ AcrossClip[2] \in Int
         /\ Horizontal => panel.y <= AcrossClip[1] /\ AcrossClip[2] <= panel.y + panel.height
         /\ ~Horizontal => panel.x <= AcrossClip[1] /\ AcrossClip[2] <= panel.x + panel.width
<1> DEFINE inset == Monus(config.margin, config.overflow)
<1>1. /\ panel.x \in Nat /\ panel.y \in Nat /\ panel.width \in Nat /\ panel.height \in Nat
      /\ config.margin \in Nat /\ config.overflow \in Nat
  BY Setting, ConfigFields DEF PanelInv, PanelOk, RectOk
<1>2. inset \in Nat
  BY <1>1 DEF Monus, Larger
<1>3. AcrossClip = IF Horizontal THEN <<panel.y + inset, panel.y + panel.height - inset>>
                   ELSE <<panel.x + inset, panel.x + panel.width - inset>>
  BY DEF AcrossClip
<1> HIDE DEF inset
<1>4. CASE Horizontal
  <2>1. AcrossClip[1] = panel.y + inset /\ AcrossClip[2] = panel.y + panel.height - inset
    BY <1>3, <1>4
  <2> QED
    BY <1>1, <1>2, <1>4, <2>1
<1>5. CASE ~Horizontal
  <2>1. AcrossClip[1] = panel.x + inset /\ AcrossClip[2] = panel.x + panel.width - inset
    BY <1>3, <1>5
  <2> QED
    BY <1>1, <1>2, <1>5, <2>1
<1> QED
  BY <1>4, <1>5

\* A picture is the part of the slot's rectangle that lies between its clips.
LEMMA PictureIs ==
  ASSUME PanelInv, NEW scroll \in Int, NEW focused, NEW s \in AllSlots, NEW p \in Points
  PROVE  LET clip == IF s = grid.cursor /\ s \in focused THEN ContentClip ELSE TileClip
             along == IF Horizontal THEN p[1] ELSE p[2]
             across == IF Horizontal THEN p[2] ELSE p[1]
         IN  /\ along \in Int /\ across \in Int
             /\ p \in Picture(s, scroll, focused)
                  <=> /\ p \in TileAt(scroll, s)
                      /\ clip[1] <= along /\ along < clip[2]
                      /\ AcrossClip[1] <= across /\ across < AcrossClip[2]
             /\ p \in Viewport
                  <=> /\ TileClip[1] <= along /\ along < TileClip[2]
                      /\ AcrossClip[1] <= across /\ across < AcrossClip[2]
             /\ p \in TileAt(scroll, s)
                  => LET start == 2 * (Origin + Start(s)) - scroll
                     IN  start \in Int /\ 0 <= 2 * along - start /\ 2 * along - start < 2 * Extent
<1> DEFINE clip == IF s = grid.cursor /\ s \in focused THEN ContentClip ELSE TileClip
           x == p[1]
           y == p[2]
           along == IF Horizontal THEN x ELSE y
           across == IF Horizontal THEN y ELSE x
           sx == IF Horizontal THEN scroll ELSE 0
           sy == IF Horizontal THEN 0 ELSE scroll
           left == 2 * (panel.x + SlotRect(s).x) - sx
           top == 2 * (panel.y + SlotRect(s).y) - sy
<1>1. /\ panel.x \in Nat /\ panel.y \in Nat /\ panel.width \in Nat /\ panel.height \in Nat
      /\ config.width \in Nat /\ config.height \in Nat
      /\ x \in Int /\ y \in Int /\ p = <<x, y>>
  <2>1. x \in Int /\ y \in Int /\ p = <<x, y>>
    BY DEF PanelInv, PanelOk, Points, SizeOk
  <2> QED
    BY <2>1, Setting, ConfigFields DEF PanelInv, PanelOk, RectOk
<1>2. SlotRect(s).x \in Int /\ SlotRect(s).y \in Int
  BY RectIsInt
<1>3. left \in Int /\ top \in Int /\ sx \in Int /\ sy \in Int
  BY <1>1, <1>2
<1>4. /\ clip[1] \in Nat /\ clip[2] \in Int /\ TileClip[1] \in Nat /\ TileClip[2] \in Int
      /\ Origin <= clip[1] /\ clip[2] <= Origin + Length
  BY ClipFacts, AlongFacts
<1>5. /\ Horizontal => Origin = panel.x /\ Length = panel.width /\ Extent = config.width
                       /\ Start(s) = SlotRect(s).x
      /\ ~Horizontal => Origin = panel.y /\ Length = panel.height /\ Extent = config.height
                        /\ Start(s) = SlotRect(s).y
  BY DEF Origin, Length, Extent, Start
<1>6. p \in TileAt(scroll, s)
        <=> /\ panel.x <= x /\ x < panel.x + panel.width /\ panel.y <= y /\ y < panel.y + panel.height
            /\ 0 <= 2 * x - left /\ 2 * x - left < 2 * config.width
            /\ 0 <= 2 * y - top /\ 2 * y - top < 2 * config.height
  <2>1. TileAt(scroll, s) = (Span(left, config.width, panel.x, panel.width)
                               \X Span(top, config.height, panel.y, panel.height)) \cap Points
    BY DEF TileAt
  <2> HIDE DEF left, top, x, y, sx, sy
  <2>0. /\ config.width \in Nat /\ config.height \in Nat /\ panel.x \in Int /\ panel.y \in Int
        /\ panel.width \in Nat /\ panel.height \in Nat /\ x \in Int /\ y \in Int
        /\ left \in Int /\ top \in Int
    BY <1>1, <1>3
  <2>2. p \in TileAt(scroll, s) <=> x \in Span(left, config.width, panel.x, panel.width)
                                    /\ y \in Span(top, config.height, panel.y, panel.height)
    BY <1>1, <2>1
  <2>3. x \in Span(left, config.width, panel.x, panel.width)
          <=> /\ panel.x <= x /\ x < panel.x + panel.width
              /\ 0 <= 2 * x - left /\ 2 * x - left < 2 * config.width
    BY <2>0, SpanMeans
  <2>4. y \in Span(top, config.height, panel.y, panel.height)
          <=> /\ panel.y <= y /\ y < panel.y + panel.height
              /\ 0 <= 2 * y - top /\ 2 * y - top < 2 * config.height
    BY <2>0, SpanMeans
  <2> QED
    BY <2>2, <2>3, <2>4
<1>7. p \in Viewport <=> /\ TileClip[1] <= along /\ along < TileClip[2]
                         /\ AcrossClip[1] <= across /\ across < AcrossClip[2]
  <2> HIDE DEF x, y
  <2>1. AcrossClip[1] \in Int /\ AcrossClip[2] \in Int
    BY AcrossFacts
  <2> QED
    BY <1>1, <1>4, <2>1 DEF Viewport, Within
<1>8. CASE Horizontal
  <2>1. Picture(s, scroll, focused)
          = Pixels(clip, left, config.width) \X Pixels(AcrossClip, top, config.height)
    <3>1. sx = scroll /\ top = 2 * (panel.y + SlotRect(s).y)
      BY <1>1, <1>2, <1>8
    <3> QED
      BY <1>5, <1>8, <3>1 DEF Picture, Within
  <2> HIDE DEF left, top, x, y, clip
  <2>2. x \in Pixels(clip, left, config.width)
          <=> clip[1] <= x /\ x < clip[2] /\ 0 <= 2 * x - left /\ 2 * x - left < 2 * config.width
    BY <1>1, <1>3, <1>4, PixelsMean
  <2>3. y \in Pixels(AcrossClip, top, config.height)
          <=> /\ AcrossClip[1] <= y /\ y < AcrossClip[2]
              /\ 0 <= 2 * y - top /\ 2 * y - top < 2 * config.height
    BY <1>1, <1>3, AcrossFacts, PixelsMean
  <2>4. p \in Picture(s, scroll, focused)
          <=> /\ p \in TileAt(scroll, s)
              /\ clip[1] <= x /\ x < clip[2] /\ AcrossClip[1] <= y /\ y < AcrossClip[2]
    <3>1. p \in Picture(s, scroll, focused)
            <=> x \in Pixels(clip, left, config.width) /\ y \in Pixels(AcrossClip, top, config.height)
      BY <1>1, <2>1
    <3>2. panel.y <= AcrossClip[1] /\ AcrossClip[2] <= panel.y + panel.height
          /\ AcrossClip[1] \in Int /\ AcrossClip[2] \in Int
      BY <1>8, AcrossFacts
    <3> QED
      BY <1>1, <1>4, <1>5, <1>6, <1>8, <2>2, <2>3, <3>1, <3>2
  <2>5. left = 2 * (Origin + Start(s)) - scroll
    BY <1>5, <1>8 DEF left
  <2> QED
    BY <1>1, <1>3, <1>5, <1>6, <1>7, <1>8, <2>4, <2>5 DEF clip, x, y
<1>9. CASE ~Horizontal
  <2>1. Picture(s, scroll, focused)
          = Pixels(AcrossClip, left, config.width) \X Pixels(clip, top, config.height)
    <3>1. sy = scroll /\ left = 2 * (panel.x + SlotRect(s).x)
      BY <1>1, <1>2, <1>9
    <3> QED
      BY <1>5, <1>9, <3>1 DEF Picture, Within
  <2> HIDE DEF left, top, x, y, clip
  <2>2. x \in Pixels(AcrossClip, left, config.width)
          <=> /\ AcrossClip[1] <= x /\ x < AcrossClip[2]
              /\ 0 <= 2 * x - left /\ 2 * x - left < 2 * config.width
    BY <1>1, <1>3, AcrossFacts, PixelsMean
  <2>3. y \in Pixels(clip, top, config.height)
          <=> clip[1] <= y /\ y < clip[2] /\ 0 <= 2 * y - top /\ 2 * y - top < 2 * config.height
    BY <1>1, <1>3, <1>4, PixelsMean
  <2>4. p \in Picture(s, scroll, focused)
          <=> /\ p \in TileAt(scroll, s)
              /\ clip[1] <= y /\ y < clip[2] /\ AcrossClip[1] <= x /\ x < AcrossClip[2]
    <3>1. p \in Picture(s, scroll, focused)
            <=> x \in Pixels(AcrossClip, left, config.width) /\ y \in Pixels(clip, top, config.height)
      BY <1>1, <2>1
    <3>2. panel.x <= AcrossClip[1] /\ AcrossClip[2] <= panel.x + panel.width
          /\ AcrossClip[1] \in Int /\ AcrossClip[2] \in Int
      BY <1>9, AcrossFacts
    <3> QED
      BY <1>1, <1>4, <1>5, <1>6, <1>9, <2>2, <2>3, <3>1, <3>2
  <2>5. top = 2 * (Origin + Start(s)) - scroll
    BY <1>5, <1>9 DEF top
  <2> QED
    BY <1>1, <1>3, <1>5, <1>6, <1>7, <1>9, <2>4, <2>5 DEF clip, x, y
<1> QED
  BY <1>8, <1>9

\* An animation that is over has come to the scroll of the selection.
LEMMA RestsAtTheSelection ==
  ASSUME PanelInv, ~Active
  PROVE  SampleScroll = RestScroll
<1> DEFINE a == animation.from_scroll
           b == animation.to_scroll
           whole == Duration * Duration * Duration
<1>1. a \in Int /\ b \in Int /\ b = RestScroll /\ animation.tick = Duration /\ Duration \in Nat \ {0}
  BY PaceAssumption DEF PanelInv, Follows, Animations, Active, RestScroll
<1>2. whole \in Nat \ {0}
  <2>1. Duration * Duration \in Nat \ {0}
    BY <1>1
  <2> QED
    BY <1>1, <2>1
<1>3. SampleScroll = a + ((b - a) * (whole - (Duration - Duration) * (Duration - Duration) * (Duration - Duration)))
                           \div whole
  BY <1>1 DEF SampleScroll, Eased
<1>4. (Duration - Duration) * (Duration - Duration) * (Duration - Duration) = 0
  BY <1>1
<1> HIDE DEF a, b, whole
<1>5. SampleScroll = a + ((b - a) * whole) \div whole
  BY <1>2, <1>3, <1>4
<1>6. ((b - a) * whole) \div whole = b - a
  <2> DEFINE n == (b - a) * whole
             q == n \div whole
  <2>1. n \in Int
    BY <1>1, <1>2
  <2> HIDE DEF n
  <2>2. q \in Int /\ whole * q <= n /\ n < whole * q + whole
    BY <1>2, <2>1
  <2> HIDE DEF q
  <2>3. (b - a - q) * whole = n - whole * q
    BY <1>1, <1>2, <2>2 DEF n
  <2>4. ASSUME b - a - q >= 1 PROVE FALSE
    <3>1. (b - a - q) * whole >= 1 * whole
      BY <1>1, <1>2, <2>2, <2>4
    <3>2. whole * q \in Int
      BY <1>2, <2>2
    <3> QED
      BY <1>2, <2>1, <2>2, <2>3, <3>1, <3>2
  <2>5. ASSUME b - a - q <= -1 PROVE FALSE
    <3>1. (b - a - q) * whole <= (-1) * whole
      BY <1>1, <1>2, <2>2, <2>5
    <3>2. whole * q \in Int
      BY <1>2, <2>2
    <3> QED
      BY <1>2, <2>1, <2>2, <2>3, <3>1, <3>2
  <2> QED
    BY <1>1, <2>2, <2>4, <2>5 DEF n, q
<1> QED
  BY <1>1, <1>5, <1>6

\* Where a steady slot is hit between the clips, its tile is drawn.
LEMMA HitIsSeen ==
  ASSUME PanelInv, ~Active, NEW p \in Viewport \cap Points,
         NEW s \in Hit(SampleScroll, p[1], p[2]) \cap Steady
  PROVE  SeenAt(p, s)
<1> DEFINE along == IF Horizontal THEN p[1] ELSE p[2]
           start == 2 * (Origin + Start(s)) - RestScroll
<1>1. SampleScroll = RestScroll
  BY RestsAtTheSelection
<1>2. s \in AllSlots /\ ~Fading(RestScroll, s) /\ RestScroll \in Int
  BY <1>1, StartIsInt DEF Steady
<1>3. p \in TileAt(RestScroll, s)
  BY <1>1, <1>2, HitIsTile
<1>4. /\ along \in Int /\ TileClip[1] <= along /\ along < TileClip[2]
      /\ start \in Int /\ 0 <= 2 * along - start /\ 2 * along - start < 2 * Extent
  BY <1>2, <1>3, PictureIs
<1>5. p \in Picture(s, RestScroll, Focused)
  BY <1>2, <1>3, ClipFacts, PictureIs
<1>6. s \in Drawn(RestScroll, Focused)
  <2>1. start = 2 * Origin + AtRest(s)
    BY <1>2, AlongFacts, StartIsInt DEF AtRest
  <2>2. TileClip[1] \in Int /\ TileClip[2] \in Int /\ Extent \in Nat
    BY ClipFacts, AlongFacts
  <2> HIDE DEF start, along
  <2>3. Rounded(start) <= along /\ along < Rounded(start + 2 * Extent)
    <3>1. along \in Nat
      BY <1>4, ClipFacts, AlongFacts
    <3>2. start <= 2 * along /\ ~(start + 2 * Extent <= 2 * along) /\ start + 2 * Extent \in Int
      BY <1>4, <2>2
    <3>3. (Rounded(start) <= along <=> start <= 2 * along)
          /\ (Rounded(start + 2 * Extent) <= along <=> start + 2 * Extent <= 2 * along)
          /\ Rounded(start + 2 * Extent) \in Int
      BY <1>4, <3>1, <3>2, RoundedBounds
    <3> QED
      BY <1>4, <3>2, <3>3
  <2>4. Rounded(start) \in Int /\ Rounded(start + 2 * Extent) \in Int
    BY <1>4, <2>2, RoundedFacts
  <2>5. Rounded(start) < TileClip[2] /\ Rounded(start + 2 * Extent) > TileClip[1]
    BY <1>4, <2>2, <2>3, <2>4
  <2>6. Place(TileClip, RestScroll, s) = "visible"
    BY <1>2, <2>1, <2>2, <2>5, PlaceMeans
  <2> QED
    BY <1>2, <2>6, InSightIsDrawn DEF Opaque
<1> QED
  BY <1>1, <1>5, <1>6 DEF SeenAt

\* The pointer over a tile that is drawn selects that tile, at every moment;
\* and at rest the tile it selects is drawn there, where no clip cuts it off.
THEOREM PointerHitsWhatIsDrawn == PanelSpec => []HitIsUnderPointer
<1>1. ASSUME PanelInv PROVE HitIsUnderPointer
  <2>1. SampleScroll \in Int
    BY <1>1, EasedIsInt DEF PanelInv, Follows, SampleScroll, Animations
  <2>2. ASSUME NEW s \in Drawn(SampleScroll, Focused) \cap Steady,
               NEW p \in Picture(s, SampleScroll, Focused) \cap Points
        PROVE  s \in Hit(SampleScroll, p[1], p[2])
    <3>1. s \in AllSlots
      BY DEF Steady
    <3>2. p \in TileAt(SampleScroll, s)
      BY <1>1, <2>1, <3>1, PictureIs
    <3> QED
      BY <1>1, <2>1, <3>1, <3>2, HitIsTile
  <2>3. ASSUME ~Active, NEW p \in Viewport \cap Points, NEW s \in Hit(SampleScroll, p[1], p[2]) \cap Steady
        PROVE  SeenAt(p, s)
    BY <1>1, <2>3, HitIsSeen
  <2> QED
    BY <2>2, <2>3 DEF HitIsUnderPointer
<1> QED
  BY <1>1, PanelHolds, PTL

-----------------------------------------------------------------------------
(* What is drawn is served.                                                *)

LEMMA RangesHold ==
  ASSUME PanelInv
  PROVE  RangesOk(Ranges, layout.flow, count) /\ LayoutOk(Fitted) /\ Fitted.flow = layout.flow
         /\ Fitted.columns = layout.columns /\ count \in Nat \ {0}
<1>1. LayoutOk(Fitted) /\ Fitted.flow = layout.flow /\ Fitted.columns = layout.columns
      /\ count \in Nat \ {0} /\ layout.columns \in Nat \ {0}
      /\ GridOk(grid) /\ grid.selected \in Nat /\ grid.selected < count /\ grid.first_row \in Nat
  BY Setting DEF PanelInv, Placed, Adapted, GridOk
<1>2. Scrolled(grid, Fitted, count)
  <2> SUFFICES ASSUME layout.flow = "grid" PROVE grid.first_row * layout.columns < count
    BY <1>1 DEF Scrolled
  <2> DEFINE row == grid.selected \div layout.columns
  <2>1. row \in Nat /\ layout.columns * row <= grid.selected
    BY <1>1, Quotient
  <2>2. grid.first_row <= row
    BY <1>1 DEF PanelInv, InView, RowOf
  <2> HIDE DEF row
  <2>3. layout.columns * grid.first_row <= layout.columns * row
    BY <1>1, <2>1, <2>2
  <2>4. layout.columns * grid.first_row = grid.first_row * layout.columns
        /\ grid.first_row * layout.columns \in Nat /\ layout.columns * row \in Nat
    BY <1>1, <2>1
  <2> QED
    BY <1>1, <2>1, <2>3, <2>4
<1> QED
  BY <1>1, <1>2, RangesAreOk DEF Ranges

LEMMA AskedIsServed == PanelInv => AskedIsKept
<1> SUFFICES ASSUME PanelInv, NEW slots \in Slots
             PROVE  LET asked == Wanted(Ranges, Fitted, count, slots)
                    IN  {asked[k] : k \in DOMAIN asked} \ {count} = Window(Ranges, Fitted, count, slots)
  BY DEF AskedIsKept
<1> DEFINE asked == Wanted(Ranges, Fitted, count, slots)
           W == Window(Ranges, Fitted, count, slots)
<1>1. slots \in Nat
  BY PaceAssumption
<1>2. asked \in Seq(Nat) /\ ToSet(asked) \subseteq W \cup {count} /\ W \subseteq ToSet(asked)
  BY <1>1, RangesHold, WantedFacts
<1>3. count \notin W
  BY RangesHold DEF Window
<1> HIDE DEF asked, W
<1>4. {asked[k] : k \in DOMAIN asked} = ToSet(asked)
  BY DEF ToSet
<1> QED
  BY <1>2, <1>3, <1>4 DEF asked, W

\* A tile that is drawn is in sight, or is the focused one.
LEMMA DrawnFacts ==
  ASSUME PanelInv, ~Active, NEW s \in Drawn(RestScroll, Focused)
  PROVE  /\ s \in AllSlots /\ Opaque(RestScroll, s)
         /\ Place(TileClip, RestScroll, s) = "visible"
              \/ (s = grid.cursor /\ Place(ContentClip, RestScroll, s) = "visible")
<1>1. CASE s \in DrawnUnfocused(RestScroll, Focused)
  BY <1>1, BoundsAreSlots DEF DrawnUnfocused
<1>2. CASE s \in DrawnFocused(RestScroll, Focused)
  <2>1. \A f \in Focuses : f.slot = animation.to
    BY DEF Focuses
  <2>2. s = grid.cursor
    BY <1>2, <2>1 DEF DrawnFocused, Focused, PanelInv, Follows
  <2>3. grid.cursor \in AllSlots
    <3>1. Fitted.flow = layout.flow /\ count \in Nat
      BY RangesHold
    <3> QED
      BY <3>1 DEF PanelInv, Placed, GridOk, AllSlots
  <2> QED
    BY <1>2, <2>2, <2>3 DEF DrawnFocused
<1> QED
  BY <1>1, <1>2 DEF Drawn

LEMMA DrawnReaches ==
  ASSUME PanelInv, ~Active, NEW s \in Drawn(RestScroll, Focused)
  PROVE  ReachesPanel(s)
<1> DEFINE slack == 2 * (1 + Monus(config.spacing, config.margin))
           start == 2 * Origin + AtRest(s)
<1>1. /\ s \in AllSlots /\ Opaque(RestScroll, s)
      /\ Place(TileClip, RestScroll, s) = "visible" \/ Place(ContentClip, RestScroll, s) = "visible"
  BY DrawnFacts
<1>2. /\ Extent \in Nat \ {0} /\ Length \in Nat /\ Origin \in Nat /\ config.margin \in Nat
      /\ config.spacing \in Nat /\ Step = Extent + config.spacing /\ AtRest(s) \in Int
  BY <1>1, AlongFacts, StartIsInt, Setting, ConfigFields DEF PanelInv, Step
<1>3. /\ TileClip[1] \in Int /\ TileClip[2] \in Int /\ ContentClip[1] \in Int /\ ContentClip[2] \in Int
      /\ Origin <= ContentClip[1] /\ ContentClip[1] <= TileClip[1]
      /\ TileClip[2] <= ContentClip[2] /\ ContentClip[2] <= Origin + Length
  BY ClipFacts
<1>4. slack \in Nat /\ slack > 0 /\ slack > 2 * (config.spacing - config.margin)
  BY <1>2 DEF Monus, Larger
<1>5. ReachesPanel(s) <=> AtRest(s) + 2 * Extent > -slack /\ AtRest(s) < 2 * Length + slack
  BY DEF ReachesPanel, AtRest
<1> HIDE DEF slack
<1>6. CASE Fading(RestScroll, s)
  <2>1. Over(RestScroll, s) < 2 * Step
    BY <1>1, <1>6 DEF Opaque
  <2>2. /\ 2 * config.margin - AtRest(s) < 2 * Step
        /\ AtRest(s) + 2 * Extent - 2 * (Length - config.margin) < 2 * Step
    BY <1>1, <1>2, <2>1, OverMeans DEF Larger
  <2> QED
    BY <1>2, <1>4, <1>5, <2>2
<1>7. CASE ~Fading(RestScroll, s)
  <2>1. start \in Int /\ start + 2 * Extent \in Int
    BY <1>2
  <2>2. Rounded(start) \in Int /\ Rounded(start + 2 * Extent) \in Int
    BY <2>1, RoundedFacts
  <2>3. Rounded(start) < Origin + Length /\ Rounded(start + 2 * Extent) > Origin
    <3>1. CASE Place(TileClip, RestScroll, s) = "visible"
      <4>1. Rounded(start) < TileClip[2] /\ Rounded(start + 2 * Extent) > TileClip[1]
        BY <1>1, <1>3, <1>7, <3>1, PlaceMeans
      <4> QED
        BY <1>2, <1>3, <2>2, <4>1
    <3>2. CASE Place(ContentClip, RestScroll, s) = "visible"
      <4>1. Rounded(start) < ContentClip[2] /\ Rounded(start + 2 * Extent) > ContentClip[1]
        BY <1>1, <1>3, <1>7, <3>2, PlaceMeans
      <4> QED
        BY <1>2, <1>3, <2>2, <4>1
    <3> QED
      BY <1>1, <3>1, <3>2
  <2>4. start < 2 * (Origin + Length) /\ start + 2 * Extent > 2 * Origin
    BY <1>2, <2>1, <2>3, RoundedFacts
  <2> QED
    BY <1>2, <1>4, <1>5, <2>4
<1> QED
  BY <1>6, <1>7

\* Where a slot of a carousel is, from the selected one.
LEMMA FromSelection ==
  ASSUME PanelInv, layout.flow # "grid", NEW s \in Int
  PROVE  AtRest(s) = 2 * (Step * (s - grid.cursor)) + Length - Extent /\ Step * (s - grid.cursor) \in Int
<1>1. Step \in Nat /\ Length \in Nat /\ Extent \in Nat /\ config.margin \in Nat /\ grid.cursor \in Int
  BY AlongFacts
<1>2. /\ Start(s) = config.margin + s * Step
      /\ RestScroll = 2 * (config.margin + grid.cursor * Step) + Extent - Length
  BY SlotStarts
<1>3. s * Step \in Int /\ grid.cursor * Step \in Int
      /\ Step * (s - grid.cursor) = s * Step - grid.cursor * Step
  BY <1>1
<1> QED
  BY <1>1, <1>2, <1>3 DEF AtRest

\* The copies of an item: that of a slot that reaches the panel is found among
\* the two that are next to the selection.
LEMMA ReachingIsDrawable ==
  ASSUME PanelInv, NEW s \in AllSlots, ReachesPanel(s)
  PROVE  Drawable(SlotIndex(s))
<1>1. CASE layout.flow = "grid"
  BY <1>1 DEF Drawable, SlotIndex
<1>2. CASE layout.flow # "grid"
  <2> DEFINE index == CarouselIndex(s, count)
             own == CarouselIndex(grid.cursor, count)
             ahead == (index + count - own) % count
             slack == 2 * (1 + Monus(config.spacing, config.margin))
  <2>1. /\ count \in Nat \ {0} /\ grid.cursor \in Int /\ s \in Int /\ Step \in Nat \ {0}
        /\ Extent \in Nat \ {0} /\ Length \in Nat /\ config.spacing \in Nat /\ config.margin \in Nat
    BY AlongFacts, SlotsAreInt, Setting, ConfigFields DEF PanelInv
  <2>2. index \in 0 .. count - 1 /\ own \in 0 .. count - 1
    BY <2>1, CarouselIndexType
  <2>3. PICK q \in Int : s = q * count + index
    BY <2>1, CarouselCounts
  <2>4. PICK r \in Int : grid.cursor = r * count + own
    BY <2>1, CarouselCounts
  <2>5. ReachesPanel(grid.cursor + ahead) \/ ReachesPanel(grid.cursor + ahead - count)
          => Drawable(SlotIndex(s))
    BY <1>2 DEF Drawable, SlotIndex
  <2> HIDE DEF index, own
  <2>6. ahead = IF index >= own THEN index - own ELSE index - own + count
    <3>1. index + count - own \in Int /\ -count <= index + count - own /\ index + count - own < 2 * count
      BY <2>1, <2>2
    <3> DEFINE a == index + count - own
    <3> HIDE DEF a
    <3>2. a % count = IF a < 0 THEN a + count ELSE IF a < count THEN a ELSE a - count
      BY <2>1, <3>1, Remainder DEF a
    <3> QED
      BY <2>1, <2>2, <3>2 DEF a
  <2>7. ahead \in 0 .. count - 1
    <3> HIDE DEF ahead
    <3> QED
      BY <2>1, <2>2, <2>6
  <2> HIDE DEF ahead
  <2> DEFINE turns == IF index >= own THEN q - r ELSE q - r - 1
  <2>8. turns \in Int /\ s = grid.cursor + ahead + turns * count
    <3>1. (q - r) * count = q * count - r * count /\ (q - r - 1) * count = q * count - r * count - count
          /\ q * count \in Int /\ r * count \in Int
      BY <2>1
    <3> QED
      BY <2>1, <2>2, <2>3, <2>4, <2>6, <3>1
  <2> HIDE DEF turns
  <2>9. slack \in Nat /\ slack > 0
    BY <2>1 DEF Monus, Larger
  <2>10. \A k \in Int : ReachesPanel(k) <=>
            LET past == 2 * (Step * (k - grid.cursor)) + Length - Extent
            IN  past + 2 * Extent > -slack /\ past < 2 * Length + slack
    <3> SUFFICES ASSUME NEW k \in Int
                 PROVE  ReachesPanel(k) <=>
                          LET past == 2 * (Step * (k - grid.cursor)) + Length - Extent
                          IN  past + 2 * Extent > -slack /\ past < 2 * Length + slack
      OBVIOUS
    <3>1. AtRest(k) = 2 * (Step * (k - grid.cursor)) + Length - Extent
      BY <1>2, FromSelection
    <3>2. ReachesPanel(k) <=> AtRest(k) + 2 * Extent > -slack /\ AtRest(k) < 2 * Length + slack
      BY DEF ReachesPanel, AtRest
    <3> QED
      BY <3>1, <3>2
  <2> HIDE DEF slack
  \* all slots between the selected one and one that reaches the panel do
  <2>11. \A k \in Int : k \in grid.cursor .. s \/ k \in s .. grid.cursor => ReachesPanel(k)
    <3> SUFFICES ASSUME NEW k \in Int, k \in grid.cursor .. s \/ k \in s .. grid.cursor
                 PROVE  ReachesPanel(k)
      OBVIOUS
    <3> DEFINE near == Step * (k - grid.cursor)
               far == Step * (s - grid.cursor)
    <3>1. near \in Int /\ far \in Int /\ ((0 <= near /\ near <= far) \/ (far <= near /\ near <= 0))
      <4>1. \A a, b \in Int : a <= b => Step * a <= Step * b /\ Step * a \in Int /\ Step * b \in Int
        BY <2>1
      <4>2. Step * 0 = 0
        BY <2>1
      <4>3. CASE k \in grid.cursor .. s
        <5>1. 0 <= k - grid.cursor /\ k - grid.cursor <= s - grid.cursor
          BY <2>1, <4>3
        <5> QED
          BY <2>1, <4>1, <4>2, <5>1
      <4>4. CASE k \in s .. grid.cursor
        <5>1. k - grid.cursor <= 0 /\ s - grid.cursor <= k - grid.cursor
          BY <2>1, <4>4
        <5> QED
          BY <2>1, <4>1, <4>2, <5>1
      <4> QED
        BY <4>3, <4>4
    <3>2. 2 * far + Length - Extent + 2 * Extent > -slack /\ 2 * far + Length - Extent < 2 * Length + slack
      BY <2>1, <2>10
    <3> HIDE DEF near, far
    <3>3. 2 * near + Length - Extent + 2 * Extent > -slack /\ 2 * near + Length - Extent < 2 * Length + slack
      BY <2>1, <2>9, <3>1, <3>2
    <3> QED
      BY <2>10, <3>3 DEF near
  <2>12. CASE turns >= 0
    <3>1. turns * count >= 0 /\ turns * count \in Int
      BY <2>1, <2>8, <2>12
    <3>2. grid.cursor + ahead \in grid.cursor .. s
      BY <2>1, <2>7, <2>8, <3>1
    <3> QED
      BY <2>1, <2>5, <2>7, <2>11, <3>2
  <2>13. CASE turns < 0
    <3>1. turns * count <= -count /\ turns * count \in Int
      <4>1. turns * count <= (-1) * count
        BY <2>1, <2>8, <2>13
      <4> QED
        BY <2>1, <2>8, <4>1
    <3>2. grid.cursor + ahead - count \in s .. grid.cursor
      BY <2>1, <2>7, <2>8, <3>1
    <3> QED
      BY <2>1, <2>5, <2>7, <2>11, <3>2
  <2> QED
    BY <2>8, <2>12, <2>13
<1> QED
  BY <1>1, <1>2

\* How far a tile in sight may be out of the margins.
LEMMA InSightSpan ==
  ASSUME PanelInv, NEW s \in AllSlots,
         Place(TileClip, RestScroll, s) = "visible", Opaque(RestScroll, s)
  PROVE  /\ Peek \in Nat
         /\ IF Fading(RestScroll, s)
            THEN /\ AtRest(s) > 2 * config.margin - 2 * Step
                 /\ AtRest(s) < 2 * Step - 2 * Extent + 2 * (Length - config.margin)
            ELSE /\ AtRest(s) + 2 * Extent > 2 * (config.margin - Peek)
                 /\ AtRest(s) < 2 * (Length - config.margin + Peek)
<1> DEFINE start == 2 * Origin + AtRest(s)
           inset == Monus(config.margin, config.overflow)
           beyond == Origin + config.margin - TileClip[1]
<1>1. /\ Extent \in Nat \ {0} /\ Step \in Nat \ {0} /\ Length \in Nat /\ Origin \in Nat
      /\ config.margin \in Nat /\ config.overflow \in Nat /\ AtRest(s) \in Int
  BY AlongFacts, StartIsInt, Setting, ConfigFields DEF PanelInv
<1>2. inset \in Nat /\ inset <= config.margin
  BY <1>1 DEF Monus, Larger
<1>3. ContentClip[1] = Origin + inset /\ ContentClip[2] = Origin + Length - inset
  BY DEF ContentClip
<1> HIDE DEF inset
<1>4. /\ beyond \in Nat /\ TileClip[1] \in Int /\ TileClip[2] \in Int
      /\ TileClip[1] = Origin + config.margin - beyond
      /\ TileClip[2] = Origin + Length - config.margin + beyond
  <2>1. CASE Clips /\ 2 * config.margin < Length
    <3>1. /\ TileClip[1] = Larger(ContentClip[1], Origin + config.margin)
          /\ TileClip[2] = Smaller(ContentClip[2], Origin + Length - config.margin)
      BY <2>1 DEF TileClip
    <3>2. TileClip[1] = Origin + config.margin /\ TileClip[2] = Origin + Length - config.margin
      BY <1>1, <1>2, <1>3, <3>1 DEF Larger, Smaller
    <3> QED
      BY <1>1, <3>2
  <2>2. CASE ~(Clips /\ 2 * config.margin < Length)
    <3>1. TileClip = ContentClip
      BY <2>2 DEF TileClip
    <3> QED
      BY <1>1, <1>2, <1>3, <3>1
  <2> QED
    BY <2>1, <2>2
<1>5. Peek = IF Fades /\ Length - 2 * config.margin >= Extent THEN 0 ELSE beyond
  BY DEF Peek
<1> HIDE DEF beyond
<1>6. Peek \in Nat
  BY <1>4, <1>5
<1>7. CASE Fading(RestScroll, s)
  <2>1. Over(RestScroll, s) < 2 * Step
    BY <1>7 DEF Opaque
  <2> QED
    BY <1>1, <1>6, <1>7, <2>1, OverMeans DEF Larger
<1>8. CASE ~Fading(RestScroll, s)
  <2>1. CASE Fades /\ Length - 2 * config.margin >= Extent
    <3>1. ~(Over(RestScroll, s) > 0)
      BY <1>8, <2>1 DEF Fading
    <3>2. 2 * config.margin <= AtRest(s) /\ AtRest(s) + 2 * Extent <= 2 * (Length - config.margin)
      BY <1>1, <3>1, OverMeans DEF Larger
    <3> QED
      BY <1>1, <1>5, <1>6, <1>8, <2>1, <3>2
  <2>2. CASE ~(Fades /\ Length - 2 * config.margin >= Extent)
    <3>1. start \in Int /\ start + 2 * Extent \in Int
      BY <1>1
    <3>2. Rounded(start) < TileClip[2] /\ Rounded(start + 2 * Extent) > TileClip[1]
      BY <1>4, <1>8, PlaceMeans
    <3>3. start < 2 * TileClip[2] /\ start + 2 * Extent > 2 * TileClip[1]
      BY <1>4, <3>1, <3>2, RoundedFacts
    <3> QED
      BY <1>1, <1>4, <1>5, <1>6, <1>8, <2>2, <3>3
  <2> QED
    BY <2>1, <2>2
<1> QED
  BY <1>6, <1>7, <1>8

Lines == 1 + (Monus(Peek, config.spacing) + Step - 1) \div Step

LEMMA LinesFacts ==
  ASSUME PanelInv, Peek \in Nat
  PROVE  Lines \in Nat \ {0} /\ Lines * Step \in Nat /\ Lines * Step >= Peek + Extent
<1> DEFINE excess == Monus(Peek, config.spacing)
           n == excess + Step - 1
           k == n \div Step
<1>1. Step \in Nat \ {0} /\ config.spacing \in Nat /\ Step = Extent + config.spacing /\ Extent \in Nat
  BY AlongFacts, Setting, ConfigFields DEF PanelInv, Step
<1>2. excess \in Nat /\ excess >= Peek - config.spacing
  BY <1>1 DEF Monus, Larger
<1> HIDE DEF excess
<1>3. n \in Nat
  BY <1>1, <1>2
<1>4. k \in Nat /\ n < Step * k + Step
  <2> HIDE DEF n
  <2> QED
    BY <1>1, <1>3, Quotient
<1>5. Lines = 1 + k
  BY DEF Lines, excess
<1> HIDE DEF k
<1>6. Lines * Step = Step * k + Step /\ Step * k \in Nat
  BY <1>1, <1>4, <1>5
<1> QED
  BY <1>1, <1>2, <1>4, <1>5, <1>6

\* A panel is no longer than its rows or slots and the beginning of one more.
LEMMA LengthFacts ==
  ASSUME PanelInv, ~dirty
  PROVE  LET lines == IF layout.flow = "horizontal" THEN Fitted.columns ELSE Fitted.rows
         IN  lines \in Nat \ {0} /\ Length - 2 * config.margin + config.spacing < (lines + 1) * Step
<1>1. /\ PanelOk /\ ConfigOk(config) /\ Adapted(layout) /\ count \in Nat \ {0}
      /\ Fitted.columns = layout.columns /\ Fitted.rows = VisibleRows(config, panel.height)
      /\ layout.columns \in Nat \ {0} /\ SizeOk(surface)
  BY Setting DEF PanelInv, PanelOk, Adapted
<1>2. config.margin \in Nat /\ config.spacing \in Nat /\ StepX \in Nat \ {0} /\ StepY \in Nat \ {0}
      /\ panel.width \in Nat /\ panel.height \in Nat
  BY <1>1, ConfigFields DEF StepX, StepY, PanelOk, RectOk
<1>3. CASE layout.flow = "horizontal"
  <2> DEFINE need == SurfaceSize(config, layout, count)
  <2>1. Step = StepX /\ Length = panel.width
    BY <1>3 DEF Step, Extent, Length, Horizontal, StepX
  <2>2. need.width = 2 * config.margin + layout.columns * StepX - config.spacing /\ need.width \in Nat
    BY <1>1, <1>3, SurfaceSizeFacts DEF StepX
  <2>3. panel.width = Smaller(need.width, surface.width)
    BY <1>1, PanelRectFacts DEF PanelOk
  <2>4. surface.width \in Nat
    BY <1>1 DEF SizeOk
  <2> HIDE DEF need
  <2>5. panel.width <= need.width
    BY <2>2, <2>3, <2>4 DEF Smaller
  <2>6. (layout.columns + 1) * StepX = layout.columns * StepX + StepX /\ layout.columns * StepX \in Nat
    BY <1>1, <1>2
  <2> QED
    BY <1>1, <1>2, <1>3, <2>1, <2>2, <2>5, <2>6
<1>4. CASE layout.flow # "horizontal"
  <2>1. Step = StepY /\ Length = panel.height
    BY <1>4 DEF Step, Extent, Length, Horizontal, StepY
  <2> DEFINE room == Monus(panel.height, 2 * config.margin) + config.spacing
             fit == room \div StepY
             rows == VisibleRows(config, panel.height)
  <2>2. room \in Nat /\ room >= panel.height - 2 * config.margin + config.spacing
    BY <1>2 DEF Monus, Larger
  <2>3. rows = Larger(1, fit)
    BY DEF VisibleRows, StepY
  <2> HIDE DEF room, rows
  <2>4. fit \in Nat /\ room < StepY * fit + StepY
    BY <1>2, <2>2, Quotient
  <2> HIDE DEF fit
  <2>5. rows \in Nat \ {0} /\ fit <= rows
    BY <2>3, <2>4 DEF Larger
  <2>6. (fit + 1) * StepY <= (rows + 1) * StepY /\ (fit + 1) * StepY = StepY * fit + StepY
        /\ StepY * fit \in Nat /\ (rows + 1) * StepY \in Nat
    BY <1>2, <2>4, <2>5
  <2>7. panel.height - 2 * config.margin + config.spacing < (rows + 1) * StepY
    BY <1>2, <2>2, <2>4, <2>6
  <2> QED
    BY <1>1, <1>4, <2>1, <2>5, <2>7 DEF rows
<1> QED
  BY <1>3, <1>4

LEMMA GridIsServed ==
  ASSUME PanelInv, ~dirty, layout.flow = "grid", NEW s \in AllSlots,
         Place(TileClip, RestScroll, s) = "visible", Opaque(RestScroll, s),
         NEW slots \in Nat, Lookahead(slots, Visible(Ranges)) >= Beside
  PROVE  s \in Window(Ranges, Fitted, count, slots)
<1> DEFINE columns == layout.columns
           rows == Fitted.rows
           row == s \div columns
           below == row - grid.first_row
           top == grid.first_row * columns
           size == rows * columns
           a == Lookahead(slots, Visible(Ranges))
           beside == Lines * columns
<1>1. /\ Extent \in Nat \ {0} /\ Step \in Nat \ {0} /\ Length \in Nat /\ config.margin \in Nat
      /\ config.spacing \in Nat /\ Step = Extent + config.spacing
      /\ columns \in Nat \ {0} /\ count \in Nat \ {0} /\ grid.first_row \in Nat
      /\ Fitted.flow = "grid" /\ Fitted.columns = columns /\ rows \in Nat \ {0}
      /\ Length - 2 * config.margin + config.spacing < (rows + 1) * Step
      /\ s \in 0 .. count - 1
  BY AlongFacts, RangesHold, LengthFacts, Setting, ConfigFields DEF PanelInv, Placed, GridOk, Step, AllSlots
<1>2. row \in Nat /\ columns * row <= s /\ s < columns * row + columns
  <2>1. s \in Nat /\ columns \in Nat \ {0}
    BY <1>1
  <2> QED
    BY <2>1, Quotient
<1>3. AtRest(s) = 2 * config.margin + 2 * (below * Step) /\ below * Step \in Int
  <2>1. Start(s) = config.margin + row * Step /\ RestScroll = 2 * (grid.first_row * Step)
    BY <1>1, RowStarts
  <2>2. below * Step = row * Step - grid.first_row * Step /\ row * Step \in Nat /\ grid.first_row * Step \in Nat
    BY <1>1, <1>2
  <2> QED
    BY <1>1, <2>1, <2>2 DEF AtRest
<1>4. ~Fading(RestScroll, s)
  BY DEF Fading, Fades
<1>5. /\ Peek \in Nat
      /\ AtRest(s) + 2 * Extent > 2 * (config.margin - Peek)
      /\ AtRest(s) < 2 * (Length - config.margin + Peek)
  BY <1>4, InSightSpan
<1>6. Lines \in Nat \ {0} /\ Lines * Step \in Nat /\ Lines * Step >= Peek + Extent
  BY <1>5, LinesFacts
<1> HIDE DEF row, rows
<1>7. below \in Int /\ (rows + 1) * Step = rows * Step + Step /\ rows * Step \in Nat
  <2>1. \A x, y \in Nat : (x + 1) * y = x * y + y /\ x * y \in Nat
    OBVIOUS
  <2>2. rows \in Nat /\ Step \in Nat /\ below \in Int
    BY <1>1, <1>2
  <2> HIDE DEF below
  <2> QED
    BY <2>1, <2>2
<1>8. -(below * Step) < Lines * Step /\ below * Step < rows * Step + Lines * Step
  BY <1>1, <1>3, <1>5, <1>6, <1>7
<1> HIDE DEF below
<1>9. below > -Lines /\ below < rows + Lines
  <2>1. ASSUME below <= -Lines PROVE FALSE
    <3>1. below * Step <= (-Lines) * Step /\ (-Lines) * Step = -(Lines * Step)
      BY <1>1, <1>6, <1>7, <2>1
    <3> QED
      BY <1>3, <1>6, <1>8, <3>1
  <2>2. ASSUME below >= rows + Lines PROVE FALSE
    <3>1. below * Step >= (rows + Lines) * Step /\ (rows + Lines) * Step = rows * Step + Lines * Step
      BY <1>1, <1>6, <1>7, <2>2
    <3> QED
      BY <1>3, <1>6, <1>7, <1>8, <3>1
  <2> QED
    BY <1>1, <1>6, <1>7, <2>1, <2>2
<1>10. grid.first_row - Lines <= row /\ row + 1 <= grid.first_row + rows + Lines
  BY <1>1, <1>2, <1>6, <1>9 DEF below
<1>11. top - beside <= s /\ s < top + size + beside /\ top \in Nat /\ size \in Nat /\ beside \in Nat
  <2>1. (grid.first_row - Lines) * columns <= row * columns
        /\ (row + 1) * columns <= (grid.first_row + rows + Lines) * columns
    BY <1>1, <1>2, <1>6, <1>10
  <2>2. /\ (grid.first_row - Lines) * columns = top - beside
        /\ (row + 1) * columns = columns * row + columns /\ row * columns = columns * row
        /\ (grid.first_row + rows + Lines) * columns = top + size + beside
        /\ top \in Nat /\ size \in Nat /\ beside \in Nat /\ columns * row \in Nat
    BY <1>1, <1>2, <1>6
  <2> QED
    BY <1>1, <1>2, <2>1, <2>2
<1>12. Ranges.first = top /\ Ranges.end = top + Smaller(size, count - top)
  <2>1. Ranges = IF top >= count THEN Interval(count, count, 0)
                 ELSE Interval(top, top + Smaller(size, count - top), 0)
    <3>1. top \in Nat
      BY <1>11
    <3> HIDE DEF top, size
    <3> QED
      BY <1>1, <3>1 DEF Ranges, VisibleRanges, top, size, rows
  <2>2. Ranges.first < Ranges.end
    BY RangesHold DEF RangesOk
  <2> HIDE DEF top, size
  <2> QED
    BY <1>1, <1>11, <2>1, <2>2 DEF Interval
<1>13. a \in Nat /\ beside <= a
  <2>1. Visible(Ranges) \in Nat
    BY RangesHold DEF RangesOk, Visible
  <2>2. Lookahead(slots, Visible(Ranges)) \in Nat
    BY <2>1, LookaheadFacts
  <2>3. Beside = beside
    BY DEF Beside, Lines
  <2> QED
    BY <2>2, <2>3
<1>14. s \in Window(Ranges, Fitted, count, slots) <=> Ranges.first - a <= s /\ s < Ranges.end + a
  BY <1>1, RangesHold, WindowMeans
<1> HIDE DEF a, beside, top, size
<1> QED
  BY <1>1, <1>11, <1>12, <1>13, <1>14 DEF Smaller

\* The slots of a carousel from lookahead before the visible ones to lookahead after.
LEMMA CarouselWindow ==
  ASSUME NEW c \in Nat \ {0}, NEW l, l.flow # "grid", NEW r, RangesOk(r, l.flow, c), NEW n \in Nat,
         NEW start \in Int, CarouselIndex(start, c) = r.first, NEW k \in Int,
         -Lookahead(n, Visible(r)) <= k, k < Visible(r) + Lookahead(n, Visible(r))
  PROVE  CarouselIndex(start + k, c) \in Window(r, l, c, n)
<1> DEFINE v == Visible(r)
           a == Lookahead(n, v)
           i == CarouselIndex(start + k, c)
<1>1. i \in 0 .. c - 1
  BY CarouselIndexType
<1>2. v \in 1 .. c /\ Ahead(i, r, c) \in 0 .. c - 1
      /\ (i \in Window(r, l, c, n) <=> Ahead(i, r, c) < v + a \/ c - Ahead(i, r, c) <= a)
  BY <1>1, WindowMeans
<1>3. a \in Nat /\ a <= v /\ r.first \in Nat /\ r.first < c
  <2>1. v \in Nat
    BY <1>2
  <2> HIDE DEF v
  <2>2. a \in Nat /\ a <= v
    BY <2>1, LookaheadFacts
  <2>3. r.first \in Nat /\ r.first < c
    BY DEF RangesOk
  <2> QED
    BY <2>2, <2>3
<1>4. CASE k >= c
  BY <1>2, <1>3, <1>4
<1>5. CASE k \in 0 .. c - 1
  <2>1. i = IF r.first + k < c THEN r.first + k ELSE r.first + k - c
    BY <1>5, CarouselAhead
  <2> HIDE DEF i, a, v
  <2>2. Ahead(i, r, c) = k
    BY <1>1, <1>3, <1>5, <2>1 DEF Ahead
  <2> QED
    BY <1>2, <1>3, <2>2 DEF a, v, i
<1>6. CASE k < 0
  <2>1. CASE -k = c
    BY <1>2, <1>3, <1>6, <2>1
  <2>2. CASE -k # c
    <3>1. -k \in 0 .. c - 1 /\ start + k \in Int /\ (start + k) + (-k) = start
      BY <1>2, <1>3, <1>6, <2>2
    <3> DEFINE d == -k
               from == start + k
    <3>2. CarouselIndex(from + d, c) = IF CarouselIndex(from, c) + d < c THEN CarouselIndex(from, c) + d
                                       ELSE CarouselIndex(from, c) + d - c
      <4> HIDE DEF d, from
      <4> QED
        BY <3>1, CarouselAhead DEF d, from
    <3>3. r.first = IF i - k < c THEN i - k ELSE i - k - c
      BY <1>1, <3>1, <3>2
    <3> HIDE DEF i, a, v, d, from
    <3>4. c - Ahead(i, r, c) <= -k
      BY <1>1, <1>3, <1>6, <3>1, <3>3 DEF Ahead
    <3> QED
      BY <1>2, <1>3, <3>4 DEF a, v, i
  <2> QED
    BY <2>1, <2>2
<1> QED
  BY <1>4, <1>5, <1>6

LEMMA CarouselIsServed ==
  ASSUME PanelInv, ~dirty, layout.flow # "grid", NEW s \in AllSlots,
         Place(TileClip, RestScroll, s) = "visible", Opaque(RestScroll, s),
         NEW slots \in Nat, Lookahead(slots, Visible(Ranges)) >= Beside
  PROVE  CarouselIndex(s, count) \in Window(Ranges, Fitted, count, slots)
<1> DEFINE w == IF layout.flow = "horizontal" THEN Fitted.columns ELSE Fitted.rows
           v == Smaller(w, count)
           before == v \div 2
           start == IF grid.cursor >= MinSlot + before THEN grid.cursor - before ELSE MinSlot
           first == CarouselIndex(start, count)
           gap == s - grid.cursor
           a == Lookahead(slots, Visible(Ranges))
           k == s - start
<1>1. /\ Extent \in Nat \ {0} /\ Step \in Nat \ {0} /\ Length \in Nat /\ config.margin \in Nat
      /\ config.spacing \in Nat /\ Step = Extent + config.spacing
      /\ count \in Nat \ {0} /\ grid.cursor \in Int /\ MinSlot \in Int /\ MaxSlot \in Int
      /\ Fitted.flow = layout.flow /\ w \in Nat \ {0}
      /\ Length - 2 * config.margin + config.spacing < (w + 1) * Step
      /\ s \in Int /\ s >= MinSlot
  <2>1. s \in Int /\ s >= MinSlot
    BY AlongFacts DEF AllSlots
  <2> QED
    BY <2>1, AlongFacts, RangesHold, LengthFacts, Setting, ConfigFields DEF PanelInv, Step
<1> HIDE DEF w
<1>2. v \in Nat \ {0} /\ v <= count /\ (v # count => v = w)
  BY <1>1 DEF Smaller
<1>3. /\ first \in 0 .. count - 1 /\ start \in Int
      /\ Ranges = IF v <= count - first THEN Interval(first, first + v, 0)
                  ELSE Interval(first, count, v - (count - first))
  <2>1. before \in Nat
    BY <1>2
  <2>2. start \in Int
    <3> HIDE DEF before
    <3> QED
      BY <1>1, <2>1
  <2>3. first \in 0 .. count - 1
    <3> HIDE DEF start
    <3> QED
      BY <1>1, <2>2, CarouselIndexType
  <2>4. Ranges = CASE layout.flow # "grid" /\ v <= count - first -> Interval(first, first + v, 0)
                   [] layout.flow # "grid" /\ v > count - first -> Interval(first, count, v - (count - first))
                   [] layout.flow = "grid" /\ grid.first_row * Fitted.columns >= count ->
                        Interval(count, count, 0)
                   [] layout.flow = "grid" /\ grid.first_row * Fitted.columns < count ->
                        Interval(grid.first_row * Fitted.columns,
                                 grid.first_row * Fitted.columns
                                   + Smaller(Fitted.rows * Fitted.columns,
                                             count - grid.first_row * Fitted.columns), 0)
    BY <1>1 DEF Ranges, VisibleRanges, w
  <2> HIDE DEF v, first
  <2> QED
    BY <1>1, <1>2, <2>2, <2>3, <2>4
<1>4. Visible(Ranges) = v /\ Ranges.first = first
  <2> HIDE DEF v, first
  <2> QED
    BY <1>1, <1>2, <1>3 DEF Visible, Interval
<1>5. a \in Nat /\ a <= v
  <2> HIDE DEF v
  <2> QED
    BY <1>2, <1>4, LookaheadFacts
<1>6. RangesOk(Ranges, Fitted.flow, count)
  BY <1>1, RangesHold
<1>7. CASE v = count
  <2> DEFINE i == CarouselIndex(s, count)
  <2>1. i \in 0 .. count - 1
    BY <1>1, CarouselIndexType
  <2>2. Ahead(i, Ranges, count) \in 0 .. count - 1
        /\ (i \in Window(Ranges, Fitted, count, slots) <=>
              Ahead(i, Ranges, count) < v + a \/ count - Ahead(i, Ranges, count) <= a)
    BY <1>1, <1>4, <1>6, <2>1, WindowMeans
  <2> HIDE DEF i, a, v
  <2> QED
    BY <1>1, <1>5, <1>7, <2>2 DEF i
<1>8. CASE v # count
  <2>1. v = w
    BY <1>2, <1>8
  <2>2. /\ Peek \in Nat
        /\ IF Fading(RestScroll, s)
           THEN /\ AtRest(s) > 2 * config.margin - 2 * Step
                /\ AtRest(s) < 2 * Step - 2 * Extent + 2 * (Length - config.margin)
           ELSE /\ AtRest(s) + 2 * Extent > 2 * (config.margin - Peek)
                /\ AtRest(s) < 2 * (Length - config.margin + Peek)
    BY InSightSpan
  <2>3. Lines \in Nat \ {0} /\ Lines * Step \in Nat /\ Lines * Step >= Peek + Extent
    BY <2>2, LinesFacts
  <2>4. AtRest(s) = 2 * (Step * gap) + Length - Extent /\ Step * gap \in Int
    BY <1>1, FromSelection
  <2>5. Lines * Step >= Step
    <3>1. Lines * Step >= 1 * Step
      BY <1>1, <2>3
    <3> QED
      BY <1>1, <3>1
  <2>6. (w + 1) * Step = w * Step + Step /\ w * Step \in Nat
    <3>1. \A x, y \in Nat : (x + 1) * y = x * y + y /\ x * y \in Nat
      OBVIOUS
    <3> QED
      BY <1>1, <3>1
  <2>7. /\ 2 * (Step * gap) < w * Step + 2 * (Lines * Step)
        /\ -(2 * (Step * gap)) < w * Step + 2 * (Lines * Step)
    <3>1. CASE Fading(RestScroll, s)
      BY <1>1, <2>2, <2>3, <2>4, <2>5, <2>6, <3>1
    <3>2. CASE ~Fading(RestScroll, s)
      BY <1>1, <2>2, <2>3, <2>4, <2>6, <3>2
    <3> QED
      BY <3>1, <3>2
  <2>8. gap \in Int
    BY <1>1
  <2> HIDE DEF gap
  <2>9. 2 * gap < w + 2 * Lines /\ -(2 * gap) < w + 2 * Lines
    <3> DEFINE m == w + 2 * Lines
    <3>1. m \in Nat /\ m * Step = w * Step + 2 * (Lines * Step)
      BY <1>1, <2>3
    <3>2. Step * gap = gap * Step
      BY <1>1, <2>8
    <3> HIDE DEF m
    <3>3. ASSUME 2 * gap >= m PROVE FALSE
      <4>1. (2 * gap) * Step >= m * Step /\ (2 * gap) * Step = 2 * (Step * gap)
        BY <1>1, <2>8, <3>1, <3>3
      <4> QED
        BY <2>3, <2>4, <2>6, <2>7, <3>1, <4>1
    <3>4. ASSUME -(2 * gap) >= m PROVE FALSE
      <4>1. (-(2 * gap)) * Step >= m * Step /\ (-(2 * gap)) * Step = -(2 * (Step * gap))
        BY <1>1, <2>8, <3>1, <3>4
      <4> QED
        BY <2>3, <2>4, <2>6, <2>7, <3>1, <4>1
    <3> QED
      BY <2>8, <3>1, <3>3, <3>4 DEF m
  <2>10. a >= Lines
    BY <2>3 DEF Beside, Lines
  <2>11. before \in Nat /\ 2 * before <= w /\ w <= 2 * before + 1
    <3> HIDE DEF w, v
    <3> QED
      BY <1>2, <2>1
  <2> HIDE DEF before, a, v
  <2>12. -a <= k /\ k < v + a /\ k \in Int
    <3>1. CASE grid.cursor >= MinSlot + before
      <4>1. k = gap + before
        BY <1>1, <2>11, <3>1 DEF gap
      <4> HIDE DEF k
      <4> QED
        BY <1>1, <1>5, <2>1, <2>3, <2>8, <2>9, <2>10, <2>11, <4>1
    <3>2. CASE ~(grid.cursor >= MinSlot + before)
      <4>1. k = s - MinSlot /\ k >= 0 /\ k \in Int
        BY <1>1, <3>2
      <4>2. k < gap + before
        BY <1>1, <2>11, <3>2, <4>1 DEF gap
      <4> HIDE DEF k
      <4> QED
        BY <1>1, <1>5, <2>1, <2>3, <2>8, <2>9, <2>10, <2>11, <4>1, <4>2
    <3> QED
      BY <3>1, <3>2
  <2>13. start + k = s
    BY <1>1, <1>3
  <2> HIDE DEF start, k
  <2>14. CarouselIndex(start + k, count) \in Window(Ranges, Fitted, count, slots)
    BY <1>1, <1>3, <1>4, <1>6, <2>12, CarouselWindow DEF a
  <2> QED
    BY <2>13, <2>14
<1> QED
  BY <1>7, <1>8

\* What a frame at rest shows the store keeps, and what it keeps it asks for.
THEOREM WhatIsDrawnIsServed == PanelSpec => []DrawnIsServed
<1>1. ASSUME PanelInv PROVE DrawnIsServed
  <2>1. AskedIsKept
    BY <1>1, AskedIsServed
  <2>2. ASSUME ~Active, ~dirty, NEW s \in Drawn(RestScroll, Focused)
        PROVE  Drawable(SlotIndex(s))
    BY <1>1, <2>2, DrawnFacts, DrawnReaches, ReachingIsDrawable
  <2>3. ASSUME ~Active, ~dirty, NEW s \in Drawn(RestScroll, Focused),
               NEW slots \in Slots, Lookahead(slots, Visible(Ranges)) >= Beside
        PROVE  InWindow(SlotIndex(s), Ranges, Fitted, count, slots)
    <3>1. slots \in Nat
      BY PaceAssumption
    <3>2. s \in AllSlots /\ Opaque(RestScroll, s)
          /\ (Place(TileClip, RestScroll, s) = "visible" \/ s = grid.cursor)
      BY <1>1, <2>3, DrawnFacts
    <3>3. SlotIndex(s) \in Window(Ranges, Fitted, count, slots)
      <4>1. CASE Place(TileClip, RestScroll, s) = "visible"
        BY <1>1, <2>3, <3>1, <3>2, <4>1, GridIsServed, CarouselIsServed DEF SlotIndex
      <4>2. CASE s = grid.cursor
        <5>1. SlotIndex(s) = grid.selected /\ grid.selected \in 0 .. count - 1
          BY <1>1, <4>2, RangesHold DEF PanelInv, Placed, GridOk, SlotIndex
        <5>2. InVisibleRange(grid.selected, Ranges)
          BY <1>1, Setting, SelectedIsVisible DEF PanelInv, Ranges
        <5> QED
          BY <1>1, <3>1, <5>1, <5>2, RangesHold, VisibleInWindow
      <4> QED
        BY <3>2, <4>1, <4>2
    <3> QED
      BY <3>3 DEF Window
  <2> QED
    BY <2>1, <2>2, <2>3 DEF DrawnIsServed
<1> QED
  BY <1>1, PanelHolds, PTL
=============================================================================
