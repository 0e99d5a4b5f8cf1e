------------------------- MODULE OutputFrameProofs -------------------------
(***************************************************************************)
(* Proofs about the frames of an output, for any regions, any modes,       *)
(* scales and levels, any swapchain of at least four buffers, any limits   *)
(* of the retry delay and any number of changes, requests and failures.    *)
(***************************************************************************)
EXTENDS OutputFrame, TLAPS, WellFoundedInduction

(* The records of the model. *)
Tracks == UNION {[D -> SUBSET Regions] : D \in SUBSET Buffers}

SceneSet ==
  [alive : BOOLEAN, current : SUBSET Regions, tracked : Tracks,
   kept : 0..SwapchainCap, scanout : BOOLEAN, failed : BOOLEAN,
   retryMs : {0} \cup RetryMin..RetryMax, retryPending : BOOLEAN]

StateSet ==
  [cfg : Cfgs, pending : Cfgs \cup {NoCfg}, sceneCommit : BOOLEAN,
   flip : BOOLEAN, framePending : BOOLEAN, needsFrame : BOOLEAN,
   idle : BOOLEAN, gamma : BOOLEAN, lut : Nat, scene : SceneSet,
   front : Images, shown : Images, slots : Buffers,
   stale : [Images -> SUBSET Regions], uncollected : SUBSET Regions,
   fullscreen : BOOLEAN, want : Cfgs, raced : BOOLEAN, late : BOOLEAN,
   busy : BOOLEAN, unrendered : BOOLEAN, changes : Nat, requests : Nat,
   faults : Nat]

-----------------------------------------------------------------------------
(* Buffers and the damage ring.                                            *)

(* Max picks an element of a non-empty set of numbers up to n. *)
LEMMA MaxInSet ==
  ASSUME NEW n \in Nat, NEW S \in SUBSET (1..n), S # {}
  PROVE  Max(S) \in S
<1> DEFINE T == {k \in 0..n : n - k \in S}
<1>1. T \subseteq Nat
  OBVIOUS
<1>2. T # {}
  <2>1. PICK x \in S : TRUE
    BY Zenon
  <2>2. n - x \in 0..n /\ n - (n - x) = x
    OBVIOUS
  <2>3. n - x \in T
    BY <2>2
  <2> QED BY <2>3, Zenon
<1>3. \E k \in T : \A j \in T : ~(<<j, k>> \in OpToRel(<, Nat))
  BY <1>1, <1>2, WFMin, NatLessThanWellFounded, Zenon
<1>4. PICK k \in T : \A j \in T : ~(<<j, k>> \in OpToRel(<, Nat))
  BY <1>3, Zenon
<1>5. \A j \in T : ~(j < k)
  BY <1>1, <1>4, Zenon DEF OpToRel
<1>6. \A y \in S : n - k >= y
  <2> TAKE y \in S
  <2>1. n - y \in 0..n /\ n - (n - y) = y
    OBVIOUS
  <2>2. n - y \in T
    BY <2>1
  <2>3. ~(n - y < k)
    BY <1>5, <2>2
  <2> QED BY <2>3
<1>7. n - k \in S
  OBVIOUS
<1> QED BY <1>6, <1>7, Zenon DEF Max

(* Max of two buffers is one of them. *)
LEMMA MaxOfTwo ==
  ASSUME NEW a \in Nat, NEW b \in Nat
  PROVE  Max({a, b}) = IF a >= b THEN a ELSE b
<1> DEFINE x == IF a >= b THEN a ELSE b
<1>1. x \in {a, b} /\ \A y \in {a, b} : x >= y
  OBVIOUS
<1>2. \A z \in {a, b} : (\A y \in {a, b} : z >= y) => z = x
  OBVIOUS
<1> HIDE DEF x
<1>3. Max({a, b}) = x
  BY <1>1, <1>2 DEF Max
<1> QED BY <1>3 DEF x

(* A swapchain of four buffers, three of them in use at most, is never
   exhausted (wlr_swapchain_acquire). *)
LEMMA AcquireInRange ==
  ASSUME NEW o, o.slots \in 0..SwapchainCap
  PROVE  Acquire(o) \in Buffers
<1> USE OutputAssumption DEF Buffers
<1> DEFINE free == (1..o.slots) \ Busy(o)
<1>1. CASE free # {}
  <2>1. o.slots \in Nat /\ free \in SUBSET (1..o.slots)
    OBVIOUS
  <2> HIDE DEF free
  <2>2. Max(free) \in free
    BY <1>1, <2>1, MaxInSet, Zenon
  <2>3. Acquire(o) = Max(free)
    BY <1>1 DEF Acquire, free
  <2>4. 1..o.slots \subseteq Buffers
    OBVIOUS
  <2> QED BY <2>1, <2>2, <2>3, <2>4, Zenon
<1>2. CASE free = {}
  <2>1. o.slots < 4
    <3> SUFFICES ASSUME o.slots >= 4 PROVE FALSE
      OBVIOUS
    <3>1. \A n \in 1..4 : n \in {o.front, o.shown, o.scene.kept}
      BY <1>2 DEF Busy
    <3> QED BY <3>1
  <2>2. Acquire(o) = o.slots + 1
    BY <1>2 DEF Acquire
  <2> QED BY <2>1, <2>2
<1> QED BY <1>1, <1>2

(* The damage of some buffers is a value of the ring. *)
LEMMA TracksIntro ==
  ASSUME NEW f, NEW D \in SUBSET Buffers, f \in [D -> SUBSET Regions]
  PROVE  f \in Tracks
BY DEF Tracks

(* The ring knows buffers only. *)
LEMMA TracksElim ==
  ASSUME NEW f \in Tracks
  PROVE  DOMAIN f \in SUBSET Buffers /\ f \in [DOMAIN f -> SUBSET Regions]
BY DEF Tracks

(* A new ring knows none. *)
LEMMA EmptyTracks == <<>> \in Tracks /\ DOMAIN <<>> = {}
BY SMTT(30) DEF Tracks

(* The fields of a scene output the ring has nothing to do with. *)
Rest == {"alive", "kept", "scanout", "failed", "retryMs", "retryPending"}

(* ky_damage_ring_add reaches this frame and every known buffer. *)
LEMMA RingAddFacts ==
  ASSUME NEW sc \in SceneSet, NEW d \in SUBSET Regions
  PROVE  /\ RingAdd(sc, d) \in SceneSet
         /\ RingAdd(sc, d).current = sc.current \cup d
         /\ DOMAIN RingAdd(sc, d).tracked = DOMAIN sc.tracked
         /\ \A b \in DOMAIN sc.tracked : RingAdd(sc, d).tracked[b] = sc.tracked[b] \cup d
         /\ \A f \in Rest : RingAdd(sc, d)[f] = sc[f]
<1> DEFINE t == [b \in DOMAIN sc.tracked |-> sc.tracked[b] \cup d]
<1>1. sc.tracked \in Tracks
  BY DEF SceneSet
<1>2. t \in [DOMAIN sc.tracked -> SUBSET Regions]
  BY <1>1, TracksElim
<1>3. t \in Tracks
  BY <1>1, <1>2, TracksElim, TracksIntro
<1>4. RingAdd(sc, d) = [sc EXCEPT !.current = sc.current \cup d, !.tracked = t]
  BY DEF RingAdd
<1> HIDE DEF t
<1>5. RingAdd(sc, d) \in SceneSet /\ RingAdd(sc, d).tracked = t
  BY <1>3, <1>4, Zenon DEF SceneSet
<1> QED
  BY <1>4, <1>5, Zenon DEF SceneSet, Rest, t

(* ky_damage_ring_get_buffer_damage: a buffer the ring did not know is all
   damaged. *)
LEMMA TrackFacts ==
  ASSUME NEW sc \in SceneSet, NEW b \in Buffers
  PROVE  /\ Track(sc, b) \in SceneSet
         /\ Track(sc, b).current = sc.current
         /\ DOMAIN Track(sc, b).tracked = DOMAIN sc.tracked \cup {b}
         /\ \A c \in DOMAIN sc.tracked : Track(sc, b).tracked[c] = sc.tracked[c]
         /\ b \notin DOMAIN sc.tracked => Track(sc, b).tracked[b] = Regions
         /\ \A f \in Rest : Track(sc, b)[f] = sc[f]
<1> DEFINE t == [c \in DOMAIN sc.tracked \cup {b} |->
                   IF c \in DOMAIN sc.tracked THEN sc.tracked[c] ELSE Regions]
<1>1. sc.tracked \in Tracks
  BY DEF SceneSet
<1>2. t \in [DOMAIN sc.tracked \cup {b} -> SUBSET Regions]
  BY <1>1, TracksElim
<1>3. t \in Tracks
  BY <1>1, <1>2, TracksElim, TracksIntro
<1>4. Track(sc, b) = [sc EXCEPT !.tracked = t]
  BY DEF Track
<1> HIDE DEF t
<1>5. Track(sc, b) \in SceneSet /\ Track(sc, b).tracked = t
  BY <1>3, <1>4 DEF SceneSet
<1> QED
  BY <1>4, <1>5 DEF SceneSet, Rest, t

(* ky_damage_ring_rotate_buffer forgets the damage of this frame and of the
   buffer painted. *)
LEMMA RingRotateFacts ==
  ASSUME NEW sc \in SceneSet, NEW b
  PROVE  /\ RingRotate(sc, b) \in SceneSet
         /\ RingRotate(sc, b).current = {}
         /\ DOMAIN RingRotate(sc, b).tracked = DOMAIN sc.tracked
         /\ \A c \in DOMAIN sc.tracked :
              RingRotate(sc, b).tracked[c] = IF c = b THEN {} ELSE sc.tracked[c]
         /\ \A f \in Rest : RingRotate(sc, b)[f] = sc[f]
<1> DEFINE t == [c \in DOMAIN sc.tracked |-> IF c = b THEN {} ELSE sc.tracked[c]]
<1>1. sc.tracked \in Tracks
  BY DEF SceneSet
<1>2. t \in [DOMAIN sc.tracked -> SUBSET Regions]
  BY <1>1, TracksElim
<1>3. t \in Tracks
  BY <1>1, <1>2, TracksElim, TracksIntro
<1>4. RingRotate(sc, b) = [sc EXCEPT !.current = {}, !.tracked = t]
  BY DEF RingRotate
<1> HIDE DEF t
<1>5. RingRotate(sc, b) \in SceneSet /\ RingRotate(sc, b).tracked = t
  BY <1>3, <1>4, Zenon DEF SceneSet
<1> QED
  BY <1>4, <1>5, Zenon DEF SceneSet, Rest, t

-----------------------------------------------------------------------------
(* The invariants, of any record of the model.                             *)

(* DamageCoversStale *)
Covers(o) ==
  o.scene.alive =>
    /\ o.stale[o.shown] \subseteq o.scene.current \cup o.uncollected
    /\ \A b \in DOMAIN o.scene.tracked :
         o.stale[b] \subseteq o.scene.tracked[b] \cup o.uncollected

(* The timer is armed only for a commit that failed, with a delay. *)
RetryOK(o) == o.scene.retryPending => o.scene.failed /\ o.scene.retryMs # 0

Others ==
  {"cfg", "pending", "sceneCommit", "flip", "framePending", "gamma", "lut",
   "front", "shown", "slots", "stale", "uncollected", "fullscreen", "want",
   "raced", "late", "busy", "unrendered", "changes", "requests", "faults"}

(* A changed geometry damages the whole output (scene_output_update_geometry). *)
LEMMA UpdateGeometryFacts ==
  ASSUME NEW o \in StateSet
  PROVE  /\ UpdateGeometry(o) \in StateSet
         /\ Covers(UpdateGeometry(o))
         /\ UpdateGeometry(o).idle = (o.idle \/ (o.scene.alive /\ ~o.framePending))
         /\ \A f \in Others : UpdateGeometry(o)[f] = o[f]
         /\ \A f \in Rest : UpdateGeometry(o).scene[f] = o.scene[f]
<1> DEFINE sc == RingAdd(o.scene, Regions)
<1>1. o.scene \in SceneSet
  BY DEF StateSet
<1>2. CASE o.scene.alive
  <2>1. /\ sc \in SceneSet
        /\ sc.current = o.scene.current \cup Regions
        /\ DOMAIN sc.tracked = DOMAIN o.scene.tracked
        /\ \A b \in DOMAIN o.scene.tracked : sc.tracked[b] = o.scene.tracked[b] \cup Regions
        /\ \A f \in Rest : sc[f] = o.scene[f]
    BY <1>1, RingAddFacts
  <2> HIDE DEF sc
  <2>2. UpdateGeometry(o) = [o EXCEPT !.scene = sc, !.needsFrame = TRUE,
                                      !.idle = o.idle \/ ~o.framePending]
    BY <1>2 DEF UpdateGeometry, Schedule, StateSet, sc
  <2>3. UpdateGeometry(o) \in StateSet
    BY <2>1, <2>2, ZenonT(40) DEF StateSet
  <2>4. \A f \in Others : UpdateGeometry(o)[f] = o[f]
    <3> TAKE f \in Others
    <3>1. f \notin {"scene", "needsFrame", "idle"}
      BY DEF Others
    <3>2. f \in DOMAIN o
      BY DEF StateSet, Others
    <3> QED BY <2>2, <3>1, <3>2, Zenon
  <2>5. /\ UpdateGeometry(o).scene = sc
        /\ UpdateGeometry(o).idle = (o.idle \/ (o.scene.alive /\ ~o.framePending))
    BY <1>2, <2>2 DEF StateSet
  <2>6. Covers(UpdateGeometry(o))
    <3>1. /\ o.stale[o.shown] \subseteq Regions
          /\ \A b \in DOMAIN o.scene.tracked : o.stale[b] \subseteq Regions
      <4>1. o.scene.tracked \in Tracks
        BY <1>1 DEF SceneSet
      <4>2. DOMAIN o.scene.tracked \subseteq Images
        BY <4>1, TracksElim DEF Images
      <4> QED BY <4>2 DEF StateSet
    <3>2. UpdateGeometry(o).stale = o.stale /\ UpdateGeometry(o).shown = o.shown
      BY <2>4 DEF Others
    <3> QED BY <2>1, <2>5, <3>1, <3>2 DEF Covers
  <2> QED BY <2>1, <2>3, <2>4, <2>5, <2>6
<1>3. CASE ~o.scene.alive
  BY <1>3 DEF UpdateGeometry, Covers, StateSet
<1> QED BY <1>2, <1>3

(* Fields a commit of the configuration leaves alone. *)
Apart ==
  {"pending", "sceneCommit", "gamma", "front", "want", "raced", "late", "busy",
   "unrendered", "changes", "requests", "faults"}

(* wlr_output_commit_state of a configuration: it is in force afterwards, an
   output that is on waits for a page flip, and the damage covers everything. *)
LEMMA CommitConfigFacts ==
  ASSUME NEW o \in StateSet, NEW c \in Cfgs, Covers(o),
         NEW p, p = CommitConfig(o, c)
  PROVE  /\ p \in StateSet
         /\ Covers(p)
         /\ p.cfg = IF c.status = "on" THEN [c EXCEPT !.level = o.cfg.level]
                                       ELSE [o.cfg EXCEPT !.status = c.status]
         /\ c.status = "on" => p.flip /\ p.framePending
         /\ (o.flip => o.framePending) => (p.flip => p.framePending)
         /\ \A f \in Apart : p[f] = o[f]
         /\ \A f \in Rest : p.scene[f] = o.scene[f]
<1> DEFINE on == c.status = "on"
           remode == on /\ c.mode # o.cfg.mode
           lit == on /\ (~On(o) \/ remode)
           slots == IF remode THEN 0 ELSE o.slots
           b == Acquire([o EXCEPT !.slots = slots])
           cfg == IF on THEN [c EXCEPT !.level = o.cfg.level]
                        ELSE [o.cfg EXCEPT !.status = c.status]
           tracked == IF remode THEN <<>> ELSE o.scene.tracked
           sc == [o.scene EXCEPT !.tracked = tracked]
           o1 == [o EXCEPT !.cfg = cfg, !.flip = on,
                      !.framePending = @ \/ on, !.needsFrame = @ /\ ~on,
                      !.idle = @ /\ ~lit, !.shown = IF lit THEN b ELSE @,
                      !.slots = IF lit THEN Max({b, slots}) ELSE @,
                      !.lut = IF On(o) /\ on THEN @ ELSE 0,
                      !.scene.tracked = IF remode THEN <<>> ELSE @]
<1>1. cfg \in Cfgs
  BY DEF Cfgs, StateSet
<1>2. slots \in 0..SwapchainCap
  BY OutputAssumption DEF StateSet, Buffers
<1>3. b \in Buffers
  <2>1. [o EXCEPT !.slots = slots].slots = slots
    BY DEF StateSet
  <2> QED BY <1>2, <2>1, AcquireInRange, Zenon
<1>4. Max({b, slots}) \in Buffers
  <2> HIDE DEF b, slots
  <2> QED BY <1>2, <1>3, MaxOfTwo, OutputAssumption DEF Buffers
<1>5. sc \in SceneSet /\ \A f \in Rest : sc[f] = o.scene[f]
  <2>1. o.scene \in SceneSet
    BY DEF StateSet
  <2>2. tracked \in Tracks
    BY <2>1, EmptyTracks DEF SceneSet
  <2> HIDE DEF tracked
  <2> QED BY <2>1, <2>2 DEF SceneSet, Rest
<1>6. /\ o1 \in StateSet /\ o1.cfg = cfg /\ o1.scene = sc
      /\ o1.flip = on /\ o1.framePending = (o.framePending \/ on)
      /\ \A f \in Apart : o1[f] = o[f]
  <2> DEFINE shown == IF lit THEN b ELSE o.shown
             slots1 == IF lit THEN Max({b, slots}) ELSE o.slots
             lut == IF On(o) /\ on THEN o.lut ELSE 0
             idle == o.idle /\ ~lit
             framePending == o.framePending \/ on
             needsFrame == o.needsFrame /\ ~on
  <2>1. o1 = [o EXCEPT !.cfg = cfg, !.flip = on, !.framePending = framePending,
                       !.needsFrame = needsFrame, !.idle = idle,
                       !.shown = shown, !.slots = slots1, !.lut = lut, !.scene = sc]
    BY DEF StateSet
  <2>2. shown \in Images /\ slots1 \in Buffers /\ lut \in Nat /\ idle \in BOOLEAN
    BY <1>3, <1>4 DEF StateSet, Images
  <2>3. on \in BOOLEAN /\ framePending \in BOOLEAN /\ needsFrame \in BOOLEAN
    OBVIOUS
  <2> HIDE DEF shown, slots1, lut, idle, framePending, needsFrame, sc, cfg, on, o1
  <2>4. o1 \in StateSet
    BY <1>1, <1>5, <2>1, <2>2, <2>3, ZenonT(40) DEF StateSet
  <2>5. /\ o1.cfg = cfg /\ o1.scene = sc
        /\ o1.flip = on /\ o1.framePending = (o.framePending \/ on)
    BY <2>1 DEF StateSet, framePending
  <2>6. \A f \in Apart : o1[f] = o[f]
    <3> TAKE f \in Apart
    <3>1. f \notin {"cfg", "flip", "framePending", "needsFrame", "idle", "shown", "slots",
                    "lut", "scene"}
      BY DEF Apart
    <3>2. f \in DOMAIN o
      BY DEF StateSet, Apart
    <3> QED BY <2>1, <3>1, <3>2, Zenon
  <2> QED BY <2>4, <2>5, <2>6
<1>7. p = IF ~on /\ ~On(o) THEN [o EXCEPT !.cfg = cfg] ELSE UpdateGeometry(Spoilt(o1))
  BY DEF CommitConfig
<1> HIDE DEF o1, cfg, sc
<1>8. CASE ~on /\ ~On(o)
  <2>1. p = [o EXCEPT !.cfg = cfg]
    BY <1>7, <1>8
  <2>2. p \in StateSet /\ p.cfg = cfg
    BY <1>1, <2>1 DEF StateSet
  <2>3. p.scene = o.scene /\ p.flip = o.flip /\ p.framePending = o.framePending
    BY <2>1 DEF StateSet
  <2>4. Covers(p)
    BY <2>1 DEF Covers, StateSet
  <2>5. \A f \in Apart : p[f] = o[f]
    BY <2>1 DEF Apart, StateSet
  <2> QED BY <1>8, <2>2, <2>3, <2>4, <2>5 DEF cfg
<1>9. CASE ~(~on /\ ~On(o))
  <2> DEFINE q == Spoilt(o1)
  <2>1. q = [o1 EXCEPT !.stale = [i \in Images |-> Regions]]
    BY DEF Spoilt
  <2>2. q \in StateSet /\ q.cfg = cfg /\ q.scene = sc /\ q.flip = on
        /\ q.framePending = (o.framePending \/ on)
    BY <1>6, <2>1 DEF StateSet
  <2>3. \A f \in Apart : q[f] = o[f]
    BY <1>6, <2>1 DEF Apart, StateSet
  <2>4. p = UpdateGeometry(q)
    BY <1>7, <1>9
  <2> HIDE DEF q
  <2>5. p \in StateSet /\ Covers(p) /\ (\A f \in Others : p[f] = q[f])
        /\ \A f \in Rest : p.scene[f] = q.scene[f]
    BY <2>2, <2>4, UpdateGeometryFacts
  <2>6. p.cfg = cfg /\ p.flip = on /\ p.framePending = (o.framePending \/ on)
    BY <2>2, <2>5 DEF Others
  <2>7. \A f \in Apart : p[f] = o[f]
    <3>1. Apart \subseteq Others
      BY DEF Apart, Others
    <3> QED BY <2>3, <2>5, <3>1
  <2>8. \A f \in Rest : p.scene[f] = o.scene[f]
    BY <1>5, <2>2, <2>5
  <2> QED BY <2>5, <2>6, <2>7, <2>8, Zenon DEF cfg
<1> QED BY <1>8, <1>9

(* Whether output_set_state has more to do than to set the brightness. *)
Differs(c, d) == [c EXCEPT !.level = 0] # [d EXCEPT !.level = 0]

(* Configurations that do not differ have the same mode, scale and status. *)
LEMMA SameApartFromLevel ==
  ASSUME NEW c \in Cfgs, NEW d \in Cfgs
  PROVE  ~Differs(c, d) <=> c.mode = d.mode /\ c.scale = d.scale /\ c.status = d.status
<1>1. ~Differs(c, d) => c.mode = d.mode /\ c.scale = d.scale /\ c.status = d.status
  <2> SUFFICES ASSUME [c EXCEPT !.level = 0] = [d EXCEPT !.level = 0]
               PROVE  c.mode = d.mode /\ c.scale = d.scale /\ c.status = d.status
    BY DEF Differs
  <2>1. /\ [c EXCEPT !.level = 0].mode = c.mode /\ [d EXCEPT !.level = 0].mode = d.mode
        /\ [c EXCEPT !.level = 0].scale = c.scale /\ [d EXCEPT !.level = 0].scale = d.scale
        /\ [c EXCEPT !.level = 0].status = c.status /\ [d EXCEPT !.level = 0].status = d.status
    BY DEF Cfgs
  <2> QED BY <2>1, Zenon
<1>2. c.mode = d.mode /\ c.scale = d.scale /\ c.status = d.status => ~Differs(c, d)
  BY DEF Differs, Cfgs
<1> QED BY <1>1, <1>2

(* Fields a request that is carried out leaves alone. *)
Kept ==
  {"pending", "sceneCommit", "front", "want", "raced", "late", "busy",
   "unrendered", "changes", "requests", "faults"}

(* A destroyed scene output. *)
LEMMA NoSceneTyped == NoScene \in SceneSet
BY EmptyTracks, OutputAssumption DEF NoScene, SceneSet, NoBuffer

(* The last part of output_set_state, after the commit if there was one: the
   brightness, and the scene output that is made or destroyed; the output was
   q before. *)
Finished(o, c, q) ==
  LET dimmed == GammaChanged(q, c)
      o2 == [o EXCEPT !.cfg.level = c.level, !.gamma = @ \/ dimmed]
      o3 == IF dimmed THEN Schedule(o2) ELSE o2
  IN IF c.status = "disabled" THEN [o3 EXCEPT !.scene = NoScene]
     ELSE IF o3.scene.alive THEN o3
     ELSE UpdateGeometry([o3 EXCEPT !.scene.alive = TRUE])

(* It forgets no damage and leaves the frames that are on their way alone. *)
LEMMA FinishedFacts ==
  ASSUME NEW o \in StateSet, NEW c \in Cfgs, NEW q, Covers(o),
         NEW p, p = Finished(o, c, q)
  PROVE  /\ p \in StateSet /\ Covers(p)
         /\ p.cfg = [o.cfg EXCEPT !.level = c.level]
         /\ p.scene.alive <=> c.status # "disabled"
         /\ RetryOK(o) => RetryOK(p)
         /\ p.flip = o.flip /\ p.framePending = o.framePending
         /\ p.stale = o.stale /\ p.shown = o.shown
         /\ o.idle => p.idle
         /\ o.scene.retryPending /\ c.status # "disabled" => p.scene.retryPending
         /\ \A f \in Kept : p[f] = o[f]
<1> DEFINE dimmed == GammaChanged(q, c)
           o2 == [o EXCEPT !.cfg.level = c.level, !.gamma = @ \/ dimmed]
           o3 == IF dimmed THEN Schedule(o2) ELSE o2
           Same(x) == /\ x.cfg = [o.cfg EXCEPT !.level = c.level]
                      /\ x.flip = o.flip /\ x.framePending = o.framePending
                      /\ x.stale = o.stale /\ x.shown = o.shown
                      /\ o.idle => x.idle
                      /\ \A f \in Kept : x[f] = o[f]
<1>1. o2 \in StateSet /\ Same(o2) /\ o2.scene = o.scene /\ o2.uncollected = o.uncollected
  <2> DEFINE cfg == [o.cfg EXCEPT !.level = c.level]
             gamma == o.gamma \/ dimmed
  <2>1. o2 = [o EXCEPT !.cfg = cfg, !.gamma = gamma]
    BY DEF StateSet
  <2>2. cfg \in Cfgs /\ gamma \in BOOLEAN
    BY DEF StateSet, Cfgs
  <2> HIDE DEF cfg, gamma, o2
  <2>3. o2 \in StateSet
    BY <2>1, <2>2, Zenon DEF StateSet
  <2>4. /\ o2.cfg = cfg /\ o2.flip = o.flip /\ o2.framePending = o.framePending
        /\ o2.stale = o.stale /\ o2.shown = o.shown /\ o2.idle = o.idle
        /\ o2.scene = o.scene /\ o2.uncollected = o.uncollected
    BY <2>1 DEF StateSet
  <2>5. \A f \in Kept : o2[f] = o[f]
    BY <2>1, Zenon DEF StateSet, Kept
  <2> QED BY <2>3, <2>4, <2>5 DEF cfg
<1>2. o3 \in StateSet /\ Same(o3) /\ o3.scene = o.scene /\ o3.uncollected = o.uncollected
  <2> HIDE DEF o2
  <2>1. Schedule(o2) = [o2 EXCEPT !.needsFrame = TRUE, !.idle = o2.idle \/ ~o2.framePending]
    BY DEF Schedule
  <2>2. Schedule(o2) \in StateSet /\ (o2.idle => Schedule(o2).idle)
    BY <1>1, <2>1, ZenonT(40) DEF StateSet
  <2>3. \A f \in Others \cup {"scene"} : Schedule(o2)[f] = o2[f]
    <3> TAKE f \in Others \cup {"scene"}
    <3>1. f \notin {"needsFrame", "idle"}
      BY DEF Others
    <3>2. f \in DOMAIN o2
      BY <1>1 DEF StateSet, Others
    <3> QED BY <2>1, <3>1, <3>2, Zenon
  <2>4. Kept \subseteq Others
    BY DEF Kept, Others
  <2>5. \A f \in Kept : Schedule(o2)[f] = o2[f]
    BY <2>3, <2>4
  <2>6. /\ Schedule(o2).cfg = o2.cfg /\ Schedule(o2).flip = o2.flip
        /\ Schedule(o2).framePending = o2.framePending
        /\ Schedule(o2).stale = o2.stale /\ Schedule(o2).shown = o2.shown
        /\ Schedule(o2).scene = o2.scene /\ Schedule(o2).uncollected = o2.uncollected
    BY <2>3 DEF Others
  <2>7. Same(Schedule(o2))
    BY <1>1, <2>2, <2>5, <2>6
  <2> QED BY <1>1, <2>2, <2>6, <2>7
<1>3. p = IF c.status = "disabled" THEN [o3 EXCEPT !.scene = NoScene]
          ELSE IF o3.scene.alive THEN o3
          ELSE UpdateGeometry([o3 EXCEPT !.scene.alive = TRUE])
  BY DEF Finished
<1> HIDE DEF o3, o2
<1>4. CASE c.status = "disabled"
  <2>1. p = [o3 EXCEPT !.scene = NoScene]
    BY <1>3, <1>4
  <2>2. p \in StateSet /\ p.scene = NoScene
    BY <1>2, <2>1, NoSceneTyped DEF StateSet
  <2>3. Covers(p) /\ RetryOK(p) /\ ~p.scene.alive
    BY <2>2 DEF Covers, RetryOK, NoScene
  <2>4. p.cfg = o3.cfg /\ p.flip = o3.flip /\ p.framePending = o3.framePending
        /\ p.stale = o3.stale /\ p.shown = o3.shown /\ p.idle = o3.idle
    BY <1>2, <2>1 DEF StateSet
  <2>5. \A f \in Kept : p[f] = o3[f]
    BY <1>2, <2>1 DEF StateSet, Kept
  <2> QED BY <1>2, <1>4, <2>2, <2>3, <2>4, <2>5
<1>5. CASE c.status # "disabled" /\ o3.scene.alive
  BY <1>2, <1>3, <1>5 DEF Covers, RetryOK
<1>6. CASE c.status # "disabled" /\ ~o3.scene.alive
  <2> DEFINE sc == [o3.scene EXCEPT !.alive = TRUE]
             x == [o3 EXCEPT !.scene = sc]
  <2>1. p = UpdateGeometry(x)
    BY <1>3, <1>6
  <2>2. sc \in SceneSet /\ sc.alive /\ sc.retryPending = o.scene.retryPending
        /\ sc.failed = o.scene.failed /\ sc.retryMs = o.scene.retryMs
    BY <1>2, Zenon DEF StateSet, SceneSet
  <2> HIDE DEF sc
  <2>3. x \in StateSet /\ x.scene = sc
    BY <1>2, <2>2 DEF StateSet
  <2>4. x.cfg = o3.cfg /\ x.flip = o3.flip /\ x.framePending = o3.framePending
        /\ x.stale = o3.stale /\ x.shown = o3.shown /\ x.idle = o3.idle
    BY <1>2 DEF StateSet
  <2>5. \A f \in Kept : x[f] = o3[f]
    BY <1>2 DEF StateSet, Kept
  <2> HIDE DEF x
  <2>6. /\ p \in StateSet /\ Covers(p)
        /\ x.idle => p.idle
        /\ \A f \in Others : p[f] = x[f]
        /\ \A f \in Rest : p.scene[f] = x.scene[f]
    BY <2>1, <2>3, UpdateGeometryFacts, ZenonT(40)
  <2>7. Kept \subseteq Others
    BY DEF Kept, Others
  <2>8. \A f \in Kept : p[f] = x[f]
    BY <2>6, <2>7
  <2>9. p.cfg = x.cfg /\ p.flip = x.flip /\ p.framePending = x.framePending
        /\ p.stale = x.stale /\ p.shown = x.shown
    BY <2>6 DEF Others
  <2>10. p.scene.alive /\ p.scene.retryPending = o.scene.retryPending
         /\ p.scene.failed = o.scene.failed /\ p.scene.retryMs = o.scene.retryMs
    BY <2>2, <2>3, <2>6 DEF Rest
  <2>11. Same(p)
    BY <1>2, <2>4, <2>5, <2>6, <2>8, <2>9
  <2> QED BY <1>6, <2>6, <2>10, <2>11 DEF RetryOK
<1> QED BY <1>4, <1>5, <1>6

(* The three outcomes of kywc_output_set_state: the request is kept for the
   page flip, it is refused and nothing changes, or it is carried out. *)
Outcome(o, c, r) ==
  LET p == r[1]
  IN \/ /\ r[2] = "waits" /\ p = [o EXCEPT !.pending = c]
        /\ Differs(c, o.cfg) /\ c.status = "on" /\ On(o) /\ o.sceneCommit
     \/ r[2] = "failed" /\ p = [o EXCEPT !.faults = @ + 1]
     \/ /\ r[2] = "done" /\ p \in StateSet /\ Covers(p)
        /\ p.cfg = IF c.status = "on" THEN c
                   ELSE [o.cfg EXCEPT !.level = c.level, !.status = c.status]
        /\ c.status = "on" => p.scene.alive
        /\ RetryOK(o) => RetryOK(p)
        /\ (o.flip => o.framePending) => (p.flip => p.framePending)
        /\ \A f \in Kept : p[f] = o[f]
        /\ Differs(c, o.cfg) /\ c.status = "on" => p.flip /\ p.framePending
        /\ ~Differs(c, o.cfg) =>
             /\ p.flip = o.flip /\ p.framePending = o.framePending
             /\ p.stale = o.stale /\ p.shown = o.shown
             /\ o.idle => p.idle
             /\ o.scene.retryPending /\ c.status = "on" => p.scene.retryPending
             /\ c.status = o.cfg.status

(* kywc_output_set_state has one of them. *)
LEMMA SetStateFacts ==
  ASSUME NEW o \in StateSet, NEW c \in Cfgs, NEW ok \in BOOLEAN, Covers(o),
         NEW r, r = SetState(o, c, ok)
  PROVE  Outcome(o, c, r)
<1> DEFINE p == r[1]
           changed == Differs(c, o.cfg)
           waits == changed /\ c.status = "on" /\ On(o) /\ c.mode = o.cfg.mode /\ o.sceneCommit
           o1 == IF changed THEN CommitConfig(o, c) ELSE o
<1>1. r = IF waits THEN <<[o EXCEPT !.pending = c], "waits">>
          ELSE IF changed /\ ~ok THEN <<[o EXCEPT !.faults = @ + 1], "failed">>
          ELSE <<Finished(o1, c, o), "done">>
  BY DEF SetState, Differs, Finished
<1>2. o.cfg \in Cfgs /\ o.scene \in SceneSet
  BY DEF StateSet
<1>3. CASE waits
  BY <1>1, <1>3 DEF Outcome
<1>4. CASE ~waits /\ changed /\ ~ok
  BY <1>1, <1>4 DEF Outcome
<1>5. CASE ~waits /\ ~(changed /\ ~ok)
  <2>1. r[2] = "done" /\ p = Finished(o1, c, o)
    BY <1>1, <1>5
  <2> HIDE DEF p
  <2>2. CASE changed
    <3>1. o1 = CommitConfig(o, c)
      BY <2>2
    <3> HIDE DEF o1
    <3>2. /\ o1 \in StateSet /\ Covers(o1)
          /\ o1.cfg = IF c.status = "on" THEN [c EXCEPT !.level = o.cfg.level]
                                         ELSE [o.cfg EXCEPT !.status = c.status]
          /\ c.status = "on" => o1.flip /\ o1.framePending
          /\ (o.flip => o.framePending) => (o1.flip => o1.framePending)
          /\ \A f \in Apart : o1[f] = o[f]
          /\ \A f \in Rest : o1.scene[f] = o.scene[f]
      BY <3>1, CommitConfigFacts
    <3>3. /\ p \in StateSet /\ Covers(p)
          /\ p.cfg = [o1.cfg EXCEPT !.level = c.level]
          /\ p.scene.alive <=> c.status # "disabled"
          /\ RetryOK(o1) => RetryOK(p)
          /\ p.flip = o1.flip /\ p.framePending = o1.framePending
          /\ \A f \in Kept : p[f] = o1[f]
      BY <1>2, <2>1, <3>2, FinishedFacts
    <3>4. p.cfg = IF c.status = "on" THEN c
                  ELSE [o.cfg EXCEPT !.level = c.level, !.status = c.status]
      <4>1. CASE c.status = "on"
        <5>1. p.cfg = [[c EXCEPT !.level = o.cfg.level] EXCEPT !.level = c.level]
          BY <3>2, <3>3, <4>1
        <5> QED BY <4>1, <5>1, Zenon DEF Cfgs
      <4>2. CASE c.status # "on"
        <5>1. p.cfg = [[o.cfg EXCEPT !.status = c.status] EXCEPT !.level = c.level]
          BY <3>2, <3>3, <4>2
        <5> QED BY <1>2, <4>2, <5>1, Zenon DEF Cfgs
      <4> QED BY <4>1, <4>2
    <3>5. RetryOK(o) => RetryOK(o1)
      BY <3>2 DEF RetryOK, Rest
    <3>6. Kept \subseteq Apart
      BY DEF Kept, Apart
    <3>7. \A f \in Kept : p[f] = o[f]
      BY <3>2, <3>3, <3>6
    <3> QED BY <2>1, <2>2, <3>2, <3>3, <3>4, <3>5, <3>7 DEF Outcome, p
  <2>3. CASE ~changed
    <3>1. p = Finished(o, c, o)
      BY <2>1, <2>3
    <3>2. /\ p \in StateSet /\ Covers(p)
          /\ p.cfg = [o.cfg EXCEPT !.level = c.level]
          /\ p.scene.alive <=> c.status # "disabled"
          /\ RetryOK(o) => RetryOK(p)
          /\ p.flip = o.flip /\ p.framePending = o.framePending
          /\ p.stale = o.stale /\ p.shown = o.shown
          /\ o.idle => p.idle
          /\ o.scene.retryPending /\ c.status # "disabled" => p.scene.retryPending
          /\ \A f \in Kept : p[f] = o[f]
      BY <1>2, <3>1, FinishedFacts
    <3>3. c.mode = o.cfg.mode /\ c.scale = o.cfg.scale /\ c.status = o.cfg.status
      BY <1>2, <2>3, SameApartFromLevel
    <3>4. /\ [o.cfg EXCEPT !.level = c.level] = c
          /\ [o.cfg EXCEPT !.level = c.level, !.status = c.status] = c
      BY <1>2, <3>3, Zenon DEF Cfgs
    <3> QED BY <2>1, <2>3, <3>2, <3>3, <3>4 DEF Outcome, p
  <2> QED BY <2>2, <2>3
<1> QED BY <1>3, <1>4, <1>5

-----------------------------------------------------------------------------
(* The scene's frame.                                                      *)

(* The delay keeps its limits (scene_output_commit_failed). *)
LEMMA BackoffInRange ==
  ASSUME NEW ms \in {0} \cup RetryMin..RetryMax
  PROVE  Backoff(ms) \in RetryMin..RetryMax /\ Backoff(ms) # 0
BY OutputAssumption DEF Backoff

(* Fields that a frame leaves alone. *)
Asked == {"cfg", "pending", "want", "raced", "late", "front", "changes", "requests"}

(* A commit the backend refuses damages the whole output and arms the
   timer. *)
LEMMA RefusedFacts ==
  ASSUME NEW o \in StateSet, NEW p, p = Refused(o)
  PROVE  /\ p \in StateSet
         /\ Covers(p) /\ RetryOK(p) /\ p.scene.retryPending
         /\ p.scene.alive = o.scene.alive
         /\ \A f \in (DOMAIN o) \ {"idle", "scene"} : p[f] = o[f]
<1> DEFINE a == RingAdd(o.scene, Regions)
           ms == Backoff(a.retryMs)
           sc == [a EXCEPT !.failed = TRUE, !.retryPending = TRUE, !.retryMs = ms]
<1>1. o.scene \in SceneSet
  BY DEF StateSet
<1>2. /\ a \in SceneSet /\ a.current = o.scene.current \cup Regions
      /\ \A b \in DOMAIN a.tracked : a.tracked[b] = o.scene.tracked[b] \cup Regions
      /\ a.alive = o.scene.alive
  BY <1>1, RingAddFacts DEF Rest
<1>3. p = [o EXCEPT !.idle = FALSE, !.scene = sc]
  BY DEF Refused, CommitFailed
<1>4. ms \in RetryMin..RetryMax /\ ms # 0
  BY <1>2, BackoffInRange DEF SceneSet
<1> HIDE DEF a, ms
<1>5. /\ sc \in SceneSet /\ sc.failed /\ sc.retryPending /\ sc.retryMs = ms
      /\ sc.current = a.current /\ sc.tracked = a.tracked /\ sc.alive = a.alive
  BY <1>2, <1>4, Zenon DEF SceneSet
<1> HIDE DEF sc
<1>6. p \in StateSet /\ p.scene = sc
  BY <1>3, <1>5, ZenonT(40) DEF StateSet
<1>7. p.stale = o.stale /\ p.shown = o.shown
  BY <1>3 DEF StateSet
<1>8. \A i \in Images : p.stale[i] \subseteq Regions
  BY <1>6 DEF StateSet
<1>9. p.shown \in Images /\ DOMAIN sc.tracked \subseteq Images
  <2>1. sc.tracked \in Tracks
    BY <1>5 DEF SceneSet
  <2> QED BY <1>6, <2>1, TracksElim DEF StateSet, Images
<1>10. Covers(p)
  BY <1>2, <1>5, <1>6, <1>8, <1>9 DEF Covers
<1>11. \A f \in (DOMAIN o) \ {"idle", "scene"} : p[f] = o[f]
  BY <1>3, Zenon
<1> QED BY <1>2, <1>4, <1>5, <1>6, <1>10, <1>11 DEF RetryOK

(* Fields of the output that a commit the backend accepts leaves alone. *)
Beside ==
  {"cfg", "pending", "front", "slots", "stale", "uncollected", "fullscreen",
   "want", "raced", "late", "busy", "changes", "requests", "faults"}

(* A commit the backend accepts brings a page flip. *)
LEMMA AcceptedFacts ==
  ASSUME NEW o \in StateSet, NEW i \in Images, ~o.scene.retryPending,
         NEW p, p = Accepted(o, i)
  PROVE  /\ p \in StateSet /\ RetryOK(p)
         /\ p.shown = i /\ p.flip /\ p.framePending /\ p.sceneCommit
         /\ p.scene.alive = o.scene.alive /\ ~p.scene.retryPending
         /\ p.scene.current = o.scene.current /\ p.scene.tracked = o.scene.tracked
         /\ \A f \in Beside : p[f] = o[f]
<1> DEFINE sc == CommitSucceeded(o.scene)
           lut == IF o.gamma THEN o.cfg.level ELSE o.lut
<1>1. p = [o EXCEPT !.shown = i, !.flip = TRUE, !.framePending = TRUE,
                    !.needsFrame = FALSE, !.idle = FALSE, !.sceneCommit = TRUE,
                    !.scene = sc, !.unrendered = FALSE, !.lut = lut, !.gamma = FALSE]
  BY DEF Accepted
<1>2. /\ sc \in SceneSet /\ sc.alive = o.scene.alive /\ ~sc.retryPending
      /\ sc.current = o.scene.current /\ sc.tracked = o.scene.tracked
  BY Zenon DEF CommitSucceeded, StateSet, SceneSet
<1>3. lut \in Nat
  BY OutputAssumption, Zenon DEF StateSet, Cfgs
<1> HIDE DEF sc, lut
<1>4. /\ p \in StateSet /\ p.scene = sc
      /\ p.shown = i /\ p.flip /\ p.framePending /\ p.sceneCommit
  <2> DEFINE q == [o EXCEPT !.shown = i, !.flip = TRUE, !.framePending = TRUE,
                            !.needsFrame = FALSE, !.idle = FALSE]
  <2>1. q \in StateSet /\ q.shown = i /\ q.flip /\ q.framePending
    BY Zenon DEF StateSet
  <2>2. p = [q EXCEPT !.sceneCommit = TRUE, !.scene = sc, !.unrendered = FALSE,
                      !.lut = lut, !.gamma = FALSE]
    BY <1>1 DEF StateSet
  <2> HIDE DEF q
  <2>3. p \in StateSet
    <3> DEFINE x == [q EXCEPT !.sceneCommit = TRUE, !.unrendered = FALSE, !.gamma = FALSE]
               y == [x EXCEPT !.scene = sc]
    <3>1. x \in StateSet
      BY <2>1, ZenonT(40) DEF StateSet
    <3>2. p = [y EXCEPT !.lut = lut]
      BY <2>1, <2>2, Zenon DEF StateSet
    <3> HIDE DEF x
    <3>3. y \in StateSet
      BY <1>2, <3>1 DEF StateSet
    <3> HIDE DEF y
    <3> QED BY <1>3, <3>2, <3>3 DEF StateSet
  <2>4. p.scene = sc /\ p.sceneCommit
    BY <2>1, <2>2 DEF StateSet
  <2>5. p.shown = q.shown /\ p.flip = q.flip /\ p.framePending = q.framePending
    BY <2>1, <2>2, ZenonT(40) DEF StateSet
  <2> QED BY <2>1, <2>3, <2>4, <2>5
<1>5. \A f \in Beside : p[f] = o[f]
  <2> TAKE f \in Beside
  <2>1. f \notin {"shown", "flip", "framePending", "needsFrame", "idle",
                  "sceneCommit", "scene", "unrendered", "lut", "gamma"}
    BY DEF Beside
  <2>2. f \in DOMAIN o
    BY DEF StateSet, Beside
  <2> QED BY <1>1, <2>1, <2>2, Zenon
<1> QED BY <1>2, <1>4, <1>5 DEF RetryOK

(* What a frame of the scene leaves behind. *)
Framed(o, p) ==
  /\ p \in StateSet /\ Covers(p) /\ RetryOK(p) /\ ~p.busy /\ p.scene.alive
  /\ p.flip <=> p.framePending
  /\ p.sceneCommit => p.flip
  /\ p.stale[p.shown] # {} => p.flip \/ p.scene.retryPending \/ p.unrendered
  /\ \A f \in Asked : p[f] = o[f]

(* What a frame of the scene starts from. *)
Ready(o) ==
  /\ o \in StateSet /\ Covers(o) /\ RetryOK(o) /\ ~o.busy /\ o.scene.alive
  /\ ~o.flip /\ ~o.framePending /\ ~o.sceneCommit

(* A refused commit, with one more fault counted. *)
LEMMA RefusedFramed ==
  ASSUME NEW o \in StateSet, NEW p, p = [Refused(o) EXCEPT !.faults = @ + 1],
         o.scene.alive, ~o.flip, ~o.framePending, ~o.sceneCommit, ~o.busy
  PROVE  Framed(o, p) /\ ~p.sceneCommit
<1> DEFINE q == Refused(o)
<1>1. /\ q \in StateSet /\ Covers(q) /\ RetryOK(q) /\ q.scene.retryPending
      /\ q.scene.alive = o.scene.alive
      /\ \A f \in (DOMAIN o) \ {"idle", "scene"} : q[f] = o[f]
  BY RefusedFacts, Zenon
<1>2. p = [q EXCEPT !.faults = q.faults + 1]
  OBVIOUS
<1>3. \A f \in Asked : q[f] = o[f]
  BY <1>1 DEF Asked, StateSet
<1>4. /\ q.flip = o.flip /\ q.framePending = o.framePending
      /\ q.sceneCommit = o.sceneCommit /\ q.busy = o.busy
  BY <1>1 DEF StateSet
<1> HIDE DEF q
<1>5. p \in StateSet
  <2>1. q.faults + 1 \in Nat
    BY <1>1 DEF StateSet
  <2> DEFINE n == q.faults + 1
  <2>2. n \in Nat /\ p = [q EXCEPT !.faults = n]
    BY <1>2, <2>1, Zenon
  <2> HIDE DEF n
  <2> QED BY <1>1, <2>2, ZenonT(40) DEF StateSet
<1>6. \A f \in (DOMAIN q) \ {"faults"} : p[f] = q[f]
  BY <1>2, Zenon
<1>7. /\ p.scene = q.scene /\ p.stale = q.stale /\ p.shown = q.shown
      /\ p.uncollected = q.uncollected /\ p.flip = q.flip
      /\ p.framePending = q.framePending /\ p.sceneCommit = q.sceneCommit
      /\ p.busy = q.busy
  BY <1>1, <1>6, Zenon DEF StateSet
<1>8. \A f \in Asked : p[f] = q[f]
  BY <1>1, <1>6 DEF StateSet, Asked
<1>9. Covers(p) /\ RetryOK(p)
  BY <1>1, <1>7 DEF Covers, RetryOK
<1> QED BY <1>1, <1>3, <1>4, <1>5, <1>7, <1>8, <1>9, Zenon DEF Framed

(* Direct scan-out shows the scene as it is, and no buffer of the swapchain
   is painted. *)
LEMMA CommitScanoutFacts ==
  ASSUME NEW o, Ready(o), o.uncollected = {}, ~o.scene.retryPending, NEW result,
         NEW p, p = CommitScanout(o, result)
  PROVE  Framed(o, p)
<1> DEFINE o1 == CommitImage(o, Scanout, result)
<1>1. p = IF ~o1.sceneCommit THEN o1
          ELSE [o1 EXCEPT !.stale[Scanout] = {}, !.scene = RingRotate(@, NoBuffer)]
  BY DEF CommitScanout
<1>2. o \in StateSet
  BY DEF Ready
<1>3. CASE result = "commit"
  <2>1. o1 = [Refused(o) EXCEPT !.faults = @ + 1]
    BY <1>3 DEF CommitImage, Ready
  <2> HIDE DEF o1
  <2>2. Framed(o, o1) /\ ~o1.sceneCommit
    BY <1>2, <2>1, RefusedFramed, Zenon DEF Ready
  <2> QED BY <1>1, <2>2
<1>4. CASE result # "commit"
  <2>1. o1 = Accepted(o, Scanout)
    BY <1>4 DEF CommitImage, Ready
  <2>2. Scanout \in Images /\ Scanout \notin Buffers /\ NoBuffer \notin Buffers
    BY OutputAssumption DEF Images, Scanout, Buffers, NoBuffer
  <2> HIDE DEF o1
  <2>3. /\ o1 \in StateSet /\ RetryOK(o1)
        /\ o1.shown = Scanout /\ o1.flip /\ o1.framePending /\ o1.sceneCommit
        /\ o1.scene.alive = o.scene.alive /\ ~o1.scene.retryPending
        /\ o1.scene.current = o.scene.current /\ o1.scene.tracked = o.scene.tracked
        /\ \A f \in Beside : o1[f] = o[f]
    BY <1>2, <2>1, <2>2, AcceptedFacts
  <2> DEFINE sc == RingRotate(o1.scene, NoBuffer)
             stale == [o1.stale EXCEPT ![Scanout] = {}]
  <2>4. p = [o1 EXCEPT !.stale = stale, !.scene = sc]
    BY <1>1, <2>3
  <2>5. o1.scene \in SceneSet /\ DOMAIN o1.scene.tracked \subseteq Buffers
        /\ o1.stale \in [Images -> SUBSET Regions]
    <3>1. o1.scene \in SceneSet /\ o1.stale \in [Images -> SUBSET Regions]
      BY <2>3 DEF StateSet
    <3>2. o1.scene.tracked \in Tracks
      BY <3>1 DEF SceneSet
    <3> QED BY <3>1, <3>2, TracksElim
  <2>6. /\ sc \in SceneSet /\ sc.current = {}
        /\ DOMAIN sc.tracked = DOMAIN o1.scene.tracked
        /\ \A b \in DOMAIN o1.scene.tracked : sc.tracked[b] = o1.scene.tracked[b]
        /\ \A f \in Rest : sc[f] = o1.scene[f]
    BY <2>2, <2>5, RingRotateFacts
  <2>7. stale \in [Images -> SUBSET Regions] /\ stale[Scanout] = {}
        /\ \A b \in Buffers : stale[b] = o1.stale[b]
    BY <2>2, <2>5 DEF Images
  <2> HIDE DEF sc, stale
  <2>8. p \in StateSet /\ p.scene = sc /\ p.stale = stale
    BY <2>3, <2>4, <2>6, <2>7, ZenonT(40) DEF StateSet
  <2>9. \A f \in (DOMAIN o1) \ {"stale", "scene"} : p[f] = o1[f]
    BY <2>4, Zenon
  <2>10. /\ p.shown = o1.shown /\ p.flip = o1.flip /\ p.framePending = o1.framePending
         /\ p.uncollected = o1.uncollected /\ p.busy = o1.busy
    BY <2>3, <2>9, Zenon DEF StateSet
  <2>11. \A f \in Asked : p[f] = o1[f]
    BY <2>3, <2>9 DEF StateSet, Asked
  <2>12. \A f \in Asked : o1[f] = o[f]
    BY <2>3 DEF Asked, Beside
  <2>13. o1.stale = o.stale /\ o1.uncollected = o.uncollected /\ o1.busy = o.busy
    BY <2>3 DEF Beside
  <2>14. Covers(p)
    BY <2>3, <2>5, <2>6, <2>7, <2>8, <2>10, <2>13 DEF Covers, Ready
  <2>15. p.scene.alive /\ ~p.scene.retryPending
    BY <2>3, <2>6, <2>8, Zenon DEF Rest, Ready
  <2> QED BY <2>3, <2>8, <2>10, <2>11, <2>12, <2>13, <2>14, <2>15 DEF Framed, RetryOK, Ready
<1> QED BY <1>3, <1>4

(* With the whole output damaged, nothing outdated is forgotten. *)
LEMMA FullDamageCovers ==
  ASSUME NEW p \in StateSet, NEW sc \in SceneSet, p.scene = RingAdd(sc, Regions)
  PROVE  Covers(p)
<1>1. /\ p.scene.current = sc.current \cup Regions
      /\ \A b \in DOMAIN p.scene.tracked : p.scene.tracked[b] = sc.tracked[b] \cup Regions
  BY RingAddFacts
<1>2. \A i \in Images : p.stale[i] \subseteq Regions
  BY DEF StateSet
<1>3. p.shown \in Images /\ DOMAIN p.scene.tracked \subseteq Images
  <2>1. p.shown \in Images /\ p.scene \in SceneSet
    BY DEF StateSet
  <2>2. p.scene.tracked \in Tracks
    BY <2>1 DEF SceneSet
  <2> QED BY <2>1, <2>2, TracksElim DEF Images
<1> QED BY <1>1, <1>2, <1>3 DEF Covers

(* A frame that is lost before its commit: unrendered is set. *)
LEMMA LostFacts ==
  ASSUME NEW o \in StateSet, NEW p, p = [o EXCEPT !.faults = @ + 1, !.unrendered = TRUE]
  PROVE  /\ p \in StateSet /\ p.unrendered
         /\ \A f \in (DOMAIN o) \ {"faults", "unrendered"} : p[f] = o[f]
<1> DEFINE n == o.faults + 1
<1>1. n \in Nat
  BY DEF StateSet
<1>2. p = [o EXCEPT !.faults = n, !.unrendered = TRUE]
  OBVIOUS
<1> HIDE DEF n
<1>3. p \in StateSet /\ p.unrendered
  BY <1>1, <1>2, ZenonT(40) DEF StateSet
<1> QED BY <1>2, <1>3, Zenon

(* Painting the next buffer repairs all that is outdated in it; a failure on
   the way leaves the damage in place. *)
LEMMA RenderAndCommitFacts ==
  ASSUME NEW o, Ready(o), o.uncollected = {}, ~o.scene.retryPending,
         NEW result \in Results, NEW p, p = RenderAndCommit(o, result)
  PROVE  Framed(o, p)
<1> DEFINE b == Acquire(o)
           sc == Track(o.scene, b)
           rot == RingRotate(sc, b)
           slots == Max({b, o.slots})
           paint == o.stale[b] \ sc.tracked[b]
           stale == [o.stale EXCEPT ![b] = paint]
           q == [o EXCEPT !.slots = slots, !.stale = stale, !.scene = rot]
           o1 == CommitImage(q, b, result)
           lost == [o EXCEPT !.faults = @ + 1, !.unrendered = TRUE]
           full == [o.stale EXCEPT ![b] = Regions]
<1>1. p = CASE result = "render" -> lost
            [] result = "submit" ->
                 [lost EXCEPT !.slots = Max({b, @}), !.stale[b] = Regions,
                              !.scene = RingAdd(rot, Regions)]
            [] OTHER -> [o1 EXCEPT !.scene.kept = IF o1.sceneCommit THEN b ELSE @]
  BY DEF RenderAndCommit
<1>2. o \in StateSet /\ o.scene \in SceneSet /\ o.slots \in Buffers
      /\ o.stale \in [Images -> SUBSET Regions]
  BY DEF Ready, StateSet
<1>3. b \in Buffers /\ b \in Images
  BY <1>2, AcquireInRange DEF Buffers, Images
<1>4. slots \in Buffers
  <2>1. b \in Nat /\ o.slots \in Nat
    BY <1>2, <1>3 DEF Buffers
  <2> HIDE DEF b
  <2>2. slots = IF b >= o.slots THEN b ELSE o.slots
    BY <2>1, MaxOfTwo
  <2> QED BY <1>2, <1>3, <2>2
<1> HIDE DEF b, slots
<1>5. /\ sc \in SceneSet /\ DOMAIN sc.tracked = DOMAIN o.scene.tracked \cup {b}
      /\ \A c \in DOMAIN o.scene.tracked : sc.tracked[c] = o.scene.tracked[c]
      /\ b \notin DOMAIN o.scene.tracked => sc.tracked[b] = Regions
      /\ \A f \in Rest : sc[f] = o.scene[f]
  BY <1>2, <1>3, TrackFacts
<1> HIDE DEF sc
<1>6. /\ rot \in SceneSet /\ DOMAIN rot.tracked = DOMAIN sc.tracked
      /\ \A c \in DOMAIN sc.tracked : rot.tracked[c] = IF c = b THEN {} ELSE sc.tracked[c]
      /\ \A f \in Rest : rot[f] = sc[f]
  BY <1>5, RingRotateFacts
<1> HIDE DEF rot
<1>7. rot.alive /\ ~rot.retryPending
  BY <1>5, <1>6 DEF Rest, Ready
<1>8. /\ lost \in StateSet /\ lost.unrendered
      /\ \A f \in (DOMAIN o) \ {"faults", "unrendered"} : lost[f] = o[f]
  BY <1>2, LostFacts, Zenon
<1> HIDE DEF lost
<1>9. CASE result = "render"
  <2>1. p = lost
    BY <1>1, <1>9
  <2>2. /\ lost.scene = o.scene /\ lost.stale = o.stale /\ lost.shown = o.shown
        /\ lost.uncollected = o.uncollected /\ lost.flip = o.flip
        /\ lost.framePending = o.framePending /\ lost.sceneCommit = o.sceneCommit
        /\ lost.busy = o.busy
    BY <1>2, <1>8 DEF StateSet
  <2>3. \A f \in Asked : lost[f] = o[f]
    BY <1>2, <1>8 DEF StateSet, Asked
  <2> QED BY <1>8, <2>1, <2>2, <2>3 DEF Framed, Ready, Covers, RetryOK
<1>10. CASE result = "submit"
  <2> DEFINE a == RingAdd(rot, Regions)
  <2>1. lost.slots = o.slots /\ lost.stale = o.stale
    BY <1>2, <1>8 DEF StateSet
  <2>2. p = [lost EXCEPT !.slots = slots, !.stale = full, !.scene = a]
    BY <1>1, <1>10, <2>1, Zenon DEF slots
  <2>3. full \in [Images -> SUBSET Regions]
    BY <1>2, <1>3
  <2>4. a \in SceneSet /\ \A f \in Rest : a[f] = rot[f]
    BY <1>6, RingAddFacts
  <2> DEFINE a0 == a
  <2>5. p = [lost EXCEPT !.slots = slots, !.stale = full, !.scene = a0] /\ a0 \in SceneSet
        /\ a0 = RingAdd(rot, Regions)
    BY <2>2, <2>4
  <2> HIDE DEF full, a, a0
  <2>6. p \in StateSet /\ p.scene = a0
    BY <1>4, <1>8, <2>3, <2>5, ZenonT(40) DEF StateSet
  <2>7. Covers(p)
    BY <1>6, <2>5, <2>6, FullDamageCovers, Zenon
  <2>8. \A f \in (DOMAIN lost) \ {"slots", "stale", "scene"} : p[f] = lost[f]
    BY <2>2, Zenon
  <2>9. /\ p.flip = lost.flip /\ p.framePending = lost.framePending /\ p.busy = lost.busy
        /\ p.sceneCommit = lost.sceneCommit /\ p.unrendered = lost.unrendered
    BY <1>8, <2>8, Zenon DEF StateSet
  <2>10. /\ lost.flip = o.flip /\ lost.framePending = o.framePending /\ lost.busy = o.busy
         /\ lost.sceneCommit = o.sceneCommit
    BY <1>2, <1>8 DEF StateSet
  <2>11. \A f \in Asked : p[f] = lost[f] /\ lost[f] = o[f]
    BY <1>2, <1>8, <2>8 DEF StateSet, Asked
  <2>12. p.scene.alive /\ ~p.scene.retryPending
    BY <1>7, <2>4, <2>6 DEF Rest, a0
  <2> QED BY <1>8, <2>6, <2>7, <2>9, <2>10, <2>11, <2>12 DEF Framed, Ready, RetryOK
<1>11. CASE result \notin {"render", "submit"}
  <2>1. p = [o1 EXCEPT !.scene.kept = IF o1.sceneCommit THEN b ELSE @]
    BY <1>1, <1>11
  <2>2. paint \in SUBSET Regions /\ paint = {}
    <3>1. o.stale[b] \subseteq Regions
      BY <1>2, <1>3
    <3>2. o.stale[b] \subseteq sc.tracked[b]
      BY <1>5, <3>1 DEF Ready, Covers
    <3> QED BY <3>1, <3>2
  <2>3. /\ stale \in [Images -> SUBSET Regions] /\ stale[b] = {}
        /\ \A i \in Images : i # b => stale[i] = o.stale[i]
    BY <1>2, <1>3, <2>2
  <2> HIDE DEF paint, stale
  <2>4. q \in StateSet /\ q.scene = rot /\ q.stale = stale
    BY <1>2, <1>4, <1>6, <2>3, Zenon DEF StateSet
  <2>5. \A f \in (DOMAIN o) \ {"slots", "stale", "scene"} : q[f] = o[f]
    BY Zenon
  <2>6. /\ q.flip = o.flip /\ q.framePending = o.framePending /\ q.busy = o.busy
        /\ q.sceneCommit = o.sceneCommit /\ q.uncollected = o.uncollected
    BY <1>2, <2>5 DEF StateSet
  <2>7. \A f \in Asked : q[f] = o[f]
    BY <1>2, <2>5 DEF StateSet, Asked
  <2> HIDE DEF q
  <2>8. o1 = IF result = "commit" THEN [Refused(q) EXCEPT !.faults = @ + 1]
             ELSE Accepted(q, b)
    BY <2>6 DEF CommitImage, Ready
  <2> HIDE DEF o1
  <2>9. CASE result = "commit"
    <3>1. Framed(q, o1) /\ ~o1.sceneCommit
      BY <1>7, <2>4, <2>6, <2>8, <2>9, RefusedFramed, Zenon DEF Ready
    <3>2. p = [o1 EXCEPT !.scene.kept = o1.scene.kept]
      BY <2>1, <3>1
    <3>3. o1 \in StateSet /\ o1.scene \in SceneSet
      BY <3>1 DEF Framed, StateSet
    <3>4. [o1.scene EXCEPT !.kept = o1.scene.kept] = o1.scene
      BY <3>3 DEF SceneSet
    <3>5. p = [o1 EXCEPT !.scene = o1.scene]
      BY <3>2, <3>3, <3>4 DEF StateSet
    <3>6. p = o1
      BY <3>3, <3>5 DEF StateSet
    <3> QED BY <2>7, <3>1, <3>6 DEF Framed
  <2>10. CASE result # "commit"
    <3>1. /\ o1 \in StateSet /\ RetryOK(o1)
          /\ o1.shown = b /\ o1.flip /\ o1.framePending /\ o1.sceneCommit
          /\ o1.scene.alive = q.scene.alive /\ ~o1.scene.retryPending
          /\ o1.scene.current = q.scene.current /\ o1.scene.tracked = q.scene.tracked
          /\ \A f \in Beside : o1[f] = q[f]
      BY <1>3, <1>7, <2>4, <2>8, <2>10, AcceptedFacts
    <3> DEFINE x == [o1.scene EXCEPT !.kept = b]
    <3>2. p = [o1 EXCEPT !.scene = x]
      BY <2>1, <3>1
    <3>3. /\ x \in SceneSet /\ x.tracked = o1.scene.tracked /\ x.current = o1.scene.current
          /\ x.alive = o1.scene.alive /\ x.retryPending = o1.scene.retryPending
      <4>1. o1.scene \in SceneSet /\ b \in 0..SwapchainCap
        BY <1>3, <3>1 DEF StateSet, Buffers
      <4> QED BY <4>1 DEF SceneSet
    <3> HIDE DEF x
    <3>4. p \in StateSet /\ p.scene = x
      BY <3>1, <3>2, <3>3 DEF StateSet
    <3>5. \A f \in (DOMAIN o1) \ {"scene"} : p[f] = o1[f]
      BY <3>2
    <3>6. /\ p.shown = o1.shown /\ p.flip = o1.flip /\ p.framePending = o1.framePending
          /\ p.stale = o1.stale /\ p.uncollected = o1.uncollected /\ p.busy = o1.busy
      BY <3>1, <3>5, Zenon DEF StateSet
    <3>7. o1.stale = q.stale /\ o1.uncollected = q.uncollected /\ o1.busy = q.busy
      BY <3>1 DEF Beside
    <3>8. \A f \in Asked : p[f] = o1[f]
      BY <3>1, <3>5 DEF StateSet, Asked
    <3>9. \A f \in Asked : o1[f] = q[f]
      BY <3>1 DEF Asked, Beside
    <3>10. p.stale = stale /\ p.shown = b /\ p.scene.tracked = rot.tracked
      BY <2>4, <3>1, <3>3, <3>4, <3>6, <3>7
    <3>11. \A c \in DOMAIN rot.tracked : stale[c] \subseteq rot.tracked[c]
      <4> TAKE c \in DOMAIN rot.tracked
      <4>1. CASE c = b
        BY <2>3, <4>1
      <4>2. CASE c # b
        <5>1. c \in DOMAIN o.scene.tracked /\ rot.tracked[c] = o.scene.tracked[c]
          BY <1>5, <1>6, <4>2
        <5>2. o.stale[c] \subseteq o.scene.tracked[c]
          BY <5>1 DEF Ready, Covers
        <5>3. o.scene.tracked \in Tracks
          BY <1>2 DEF SceneSet
        <5>4. c \in Images
          BY <5>1, <5>3, TracksElim DEF Images
        <5> QED BY <2>3, <4>2, <5>1, <5>2, <5>4
      <4> QED BY <4>1, <4>2
    <3>12. Covers(p)
      BY <2>3, <3>10, <3>11 DEF Covers
    <3>13. p.scene.alive /\ ~p.scene.retryPending
      BY <1>7, <2>4, <3>1, <3>3, <3>4, Zenon
    <3> QED
      BY <2>6, <2>7, <3>1, <3>4, <3>6, <3>7, <3>8, <3>9, <3>12, <3>13
      DEF Framed, Ready, RetryOK
  <2> QED BY <2>9, <2>10
<1> QED BY <1>9, <1>10, <1>11

(* ky_scene_output_commit *)
LEMMA SceneCommitFacts ==
  ASSUME NEW o, Ready(o), NEW scan \in BOOLEAN, NEW result \in Results,
         NEW p, p = SceneCommit(o, scan, result)
  PROVE  Framed(o, p)
<1> DEFINE sc1 == RingAdd(o.scene, o.uncollected)
           o1 == [o EXCEPT !.uncollected = {}, !.scene = sc1]
           left == IF o.scene.scanout /\ ~scan THEN Regions ELSE {}
           sc2 == [RingAdd(sc1, left) EXCEPT !.scanout = scan]
           o2 == [o EXCEPT !.uncollected = {}, !.scene = sc2]
           Apart12 == (DOMAIN o) \ {"uncollected", "scene"}
<1>1. o \in StateSet /\ o.scene \in SceneSet /\ o.uncollected \in SUBSET Regions
  BY DEF Ready, StateSet
<1>2. p = IF o.scene.retryPending THEN o
          ELSE IF ~o1.needsFrame /\ ~o1.gamma /\ o1.scene.current = {} THEN o1
          ELSE IF scan THEN CommitScanout(o2, result)
          ELSE RenderAndCommit(o2, result)
  <2>1. [o1 EXCEPT !.scene = [RingAdd(@, left) EXCEPT !.scanout = scan]] = o2
    BY <1>1, Zenon DEF StateSet
  <2> HIDE DEF o2
  <2> QED BY <2>1 DEF SceneCommit
<1>3. /\ sc1 \in SceneSet /\ sc1.current = o.scene.current \cup o.uncollected
      /\ DOMAIN sc1.tracked = DOMAIN o.scene.tracked
      /\ \A b \in DOMAIN o.scene.tracked :
           sc1.tracked[b] = o.scene.tracked[b] \cup o.uncollected
      /\ \A f \in Rest : sc1[f] = o.scene[f]
  BY <1>1, RingAddFacts
<1> HIDE DEF sc1
<1>4. /\ sc2 \in SceneSet /\ sc2.current = sc1.current \cup left
      /\ DOMAIN sc2.tracked = DOMAIN sc1.tracked
      /\ \A b \in DOMAIN sc1.tracked : sc2.tracked[b] = sc1.tracked[b] \cup left
      /\ sc2.alive = sc1.alive /\ sc2.retryPending = sc1.retryPending
      /\ sc2.failed = sc1.failed /\ sc2.retryMs = sc1.retryMs
  <2> DEFINE a == RingAdd(sc1, left)
  <2>1. left \in SUBSET Regions
    OBVIOUS
  <2> HIDE DEF left
  <2>2. /\ a \in SceneSet /\ a.current = sc1.current \cup left
        /\ DOMAIN a.tracked = DOMAIN sc1.tracked
        /\ \A b \in DOMAIN sc1.tracked : a.tracked[b] = sc1.tracked[b] \cup left
        /\ a.alive = sc1.alive /\ a.retryPending = sc1.retryPending
        /\ a.failed = sc1.failed /\ a.retryMs = sc1.retryMs
    BY <1>3, <2>1, RingAddFacts DEF Rest
  <2> HIDE DEF a
  <2>3. sc2 = [a EXCEPT !.scanout = scan]
    BY DEF a
  <2>4. /\ sc2 \in SceneSet /\ sc2.current = a.current /\ sc2.tracked = a.tracked
        /\ sc2.alive = a.alive /\ sc2.retryPending = a.retryPending
        /\ sc2.failed = a.failed /\ sc2.retryMs = a.retryMs
    BY <2>2, <2>3 DEF SceneSet
  <2> QED BY <2>2, <2>4
<1> HIDE DEF sc2, left
<1>5. o1 \in StateSet /\ o1.scene = sc1 /\ o1.uncollected = {}
  BY <1>1, <1>3, Zenon DEF StateSet
<1>6. o2 \in StateSet /\ o2.scene = sc2 /\ o2.uncollected = {}
  BY <1>1, <1>4, Zenon DEF StateSet
<1>7. \A f \in Apart12 : o1[f] = o[f] /\ o2[f] = o[f]
  BY ZenonT(40)
<1> HIDE DEF o1, o2
<1>8. /\ {"stale", "shown", "flip", "framePending", "sceneCommit", "busy"} \subseteq Apart12
      /\ Asked \subseteq Apart12
  BY <1>1 DEF StateSet, Asked
<1> HIDE DEF Apart12
<1>9. /\ o1.stale = o.stale /\ o1.shown = o.shown /\ o1.flip = o.flip /\ o1.busy = o.busy
      /\ o1.framePending = o.framePending /\ o1.sceneCommit = o.sceneCommit
      /\ \A f \in Asked : o1[f] = o[f]
  BY <1>7, <1>8
<1>10. /\ o2.stale = o.stale /\ o2.shown = o.shown /\ o2.flip = o.flip /\ o2.busy = o.busy
       /\ o2.framePending = o.framePending /\ o2.sceneCommit = o.sceneCommit
       /\ \A f \in Asked : o2[f] = o[f]
  BY <1>7, <1>8
<1>11. Covers(o1)
  BY <1>3, <1>5, <1>9 DEF Covers, Ready, Rest
<1>12. Covers(o2)
  BY <1>3, <1>4, <1>5, <1>6, <1>9, <1>10, <1>11 DEF Covers
<1>13. /\ sc1.alive = o.scene.alive /\ sc1.retryPending = o.scene.retryPending
       /\ sc1.failed = o.scene.failed /\ sc1.retryMs = o.scene.retryMs
  BY <1>3 DEF Rest
<1>14. CASE o.scene.retryPending
  BY <1>1, <1>2, <1>14 DEF Framed, Ready
<1>15. CASE ~o.scene.retryPending /\ ~o1.needsFrame /\ ~o1.gamma /\ o1.scene.current = {}
  <2>1. p = o1
    BY <1>2, <1>15
  <2>2. o1.stale[o1.shown] = {}
    BY <1>5, <1>11, <1>13, <1>15 DEF Covers, Ready
  <2>3. RetryOK(o1)
    BY <1>5, <1>13 DEF RetryOK, Ready
  <2> QED BY <1>5, <1>9, <1>11, <1>13, <2>1, <2>2, <2>3, Zenon DEF Framed, Ready
<1>16. CASE ~o.scene.retryPending /\ ~(~o1.needsFrame /\ ~o1.gamma /\ o1.scene.current = {})
  <2>1. Ready(o2) /\ ~o2.scene.retryPending
    BY <1>4, <1>6, <1>10, <1>12, <1>13, <1>16, Zenon DEF Ready, RetryOK
  <2>2. p = CommitScanout(o2, result) \/ p = RenderAndCommit(o2, result)
    BY <1>2, <1>16
  <2>3. Framed(o2, p)
    BY <1>6, <2>1, <2>2, CommitScanoutFacts, RenderAndCommitFacts
  <2> QED BY <1>10, <2>3 DEF Framed
<1> QED BY <1>14, <1>15, <1>16

-----------------------------------------------------------------------------
(* The inductive invariant.                                                *)

(* What holds of an output between two events.  A page flip is expected    *)
(* whenever frame_pending is set, so that the flag never holds back the    *)
(* next frame for good; a request waits only for a page flip that will     *)
(* come, and has something to commit when it does, so that the commit of   *)
(* it accounts for the frame that is skipped.                              *)
Base(o) ==
  /\ o \in StateSet /\ Covers(o) /\ RetryOK(o) /\ ~o.busy
  /\ o.flip => o.framePending
  /\ On(o) /\ o.framePending => o.flip \/ o.raced
  /\ On(o) => o.scene.alive
  /\ On(o) /\ o.sceneCommit => o.flip
  /\ o.pending # NoCfg =>
       /\ o.pending.status = "on"
       /\ o.raced \/ (o.flip /\ On(o) /\ Differs(o.pending, o.cfg))
  /\ \/ o.raced \/ o.late
     \/ o.want = IF o.pending = NoCfg THEN o.cfg ELSE o.pending

(* An outdated screen has its next frame. *)
FrameComes(o) ==
  On(o) /\ o.stale[o.shown] # {} =>
    \/ o.flip \/ (o.idle /\ ~o.framePending) \/ o.scene.retryPending
    \/ o.unrendered \/ o.raced

OInv(o) == Base(o) /\ FrameComes(o)

(* Scheduling a frame is enough for a frame to come. *)
LEMMA ScheduleFacts ==
  ASSUME NEW o, Base(o), NEW p, p = Schedule(o)
  PROVE  OInv(p)
<1> DEFINE idle == o.idle \/ ~o.framePending
<1>1. o \in StateSet
  BY DEF Base
<1>2. p = [o EXCEPT !.needsFrame = TRUE, !.idle = idle]
  BY DEF Schedule
<1>3. p \in StateSet /\ p.idle = idle
  BY <1>1, <1>2, ZenonT(40) DEF StateSet
<1>4. \A f \in (DOMAIN o) \ {"needsFrame", "idle"} : p[f] = o[f]
  BY <1>2, Zenon
<1> HIDE DEF idle
<1>5. /\ p.cfg = o.cfg /\ p.pending = o.pending /\ p.sceneCommit = o.sceneCommit
      /\ p.flip = o.flip /\ p.framePending = o.framePending /\ p.scene = o.scene
      /\ p.shown = o.shown /\ p.stale = o.stale /\ p.uncollected = o.uncollected
      /\ p.want = o.want /\ p.raced = o.raced /\ p.late = o.late /\ p.busy = o.busy
  BY <1>1, <1>4 DEF StateSet
<1>6. Covers(p) /\ RetryOK(p) /\ (On(p) <=> On(o))
  BY <1>5 DEF Base, Covers, RetryOK, On
<1>7. Base(p)
  BY <1>3, <1>5, <1>6 DEF Base
<1>8. FrameComes(p)
  BY <1>3, <1>5, <1>6, Zenon DEF Base, FrameComes, idle
<1> QED BY <1>7, <1>8 DEF OInv

-----------------------------------------------------------------------------
(* The events.                                                             *)

(* handle_output_frame when no request was waiting. *)
LEMMA FrameOfScene ==
  ASSUME NEW o, o \in StateSet, Covers(o), RetryOK(o), ~o.busy, ~o.flip,
         On(o) => o.scene.alive, o.pending = NoCfg,
         o.raced \/ o.late \/ o.want = o.cfg,
         NEW scan \in BOOLEAN, NEW result \in Results,
         NEW p, p = Frame(o, scan, result)
  PROVE  OInv(p)
<1> DEFINE x == [o EXCEPT !.framePending = FALSE]
           y == [o EXCEPT !.framePending = FALSE, !.sceneCommit = FALSE]
<1>1. p = IF ~On(o) THEN x ELSE SceneCommit(y, scan, result)
  <2>1. [x EXCEPT !.sceneCommit = FALSE] = y
    BY DEF StateSet
  <2> HIDE DEF y
  <2> QED BY <2>1 DEF Frame
<1>2. CASE ~On(o)
  <2>1. p = x
    BY <1>1, <1>2
  <2>2. x \in StateSet /\ ~x.framePending
    BY Zenon DEF StateSet
  <2>3. /\ x.cfg = o.cfg /\ x.pending = o.pending /\ x.flip = o.flip
        /\ x.scene = o.scene /\ x.shown = o.shown /\ x.stale = o.stale
        /\ x.uncollected = o.uncollected /\ x.want = o.want
        /\ x.raced = o.raced /\ x.late = o.late /\ x.busy = o.busy
    BY DEF StateSet
  <2>4. Covers(x) /\ RetryOK(x) /\ ~On(x)
    BY <1>2, <2>3 DEF Covers, RetryOK, On
  <2> HIDE DEF x
  <2> QED BY <2>1, <2>2, <2>3, <2>4 DEF OInv, Base, FrameComes
<1>3. CASE On(o)
  <2>1. p = SceneCommit(y, scan, result)
    BY <1>1, <1>3
  <2>2. y \in StateSet /\ ~y.framePending /\ ~y.sceneCommit
    BY ZenonT(40) DEF StateSet
  <2>3. /\ y.cfg = o.cfg /\ y.pending = o.pending /\ y.flip = o.flip
        /\ y.scene = o.scene /\ y.shown = o.shown /\ y.stale = o.stale
        /\ y.uncollected = o.uncollected /\ y.want = o.want
        /\ y.raced = o.raced /\ y.late = o.late /\ y.busy = o.busy
    BY DEF StateSet
  <2> HIDE DEF y
  <2>4. Ready(y)
    BY <1>3, <2>2, <2>3 DEF Ready, Covers, RetryOK
  <2>5. Framed(y, p)
    BY <2>1, <2>4, SceneCommitFacts
  <2>6. /\ p.cfg = y.cfg /\ p.pending = y.pending /\ p.want = y.want
        /\ p.raced = y.raced /\ p.late = y.late
    BY <2>5 DEF Framed, Asked
  <2>7. Base(p)
    BY <2>3, <2>5, <2>6 DEF Base, Framed
  <2>8. FrameComes(p)
    BY <2>5 DEF Framed, FrameComes
  <2> QED BY <2>7, <2>8 DEF OInv
<1> QED BY <1>2, <1>3

(* handle_output_frame when one was: the frame is skipped. *)
LEMMA FrameSkipped ==
  ASSUME NEW o, o \in StateSet, Covers(o), RetryOK(o), ~o.busy, On(o), o.scene.alive,
         o.pending # NoCfg, o.flip \/ o.raced, o.sceneCommit => o.flip,
         o.raced \/ o.late \/ o.want = o.cfg,
         NEW scan \in BOOLEAN, NEW result \in Results,
         NEW p, p = Frame(o, scan, result)
  PROVE  OInv(p)
<1>1. p = [o EXCEPT !.framePending = TRUE, !.pending = NoCfg]
  <2>1. p = [[o EXCEPT !.framePending = FALSE] EXCEPT !.framePending = TRUE, !.pending = NoCfg]
    BY DEF Frame
  <2> QED BY <2>1, Zenon DEF StateSet
<1>2. p \in StateSet /\ p.framePending /\ p.pending = NoCfg
  BY <1>1, ZenonT(40) DEF StateSet
<1>3. /\ p.cfg = o.cfg /\ p.flip = o.flip /\ p.sceneCommit = o.sceneCommit
      /\ p.scene = o.scene /\ p.shown = o.shown /\ p.stale = o.stale
      /\ p.uncollected = o.uncollected /\ p.want = o.want
      /\ p.raced = o.raced /\ p.late = o.late /\ p.busy = o.busy
  BY <1>1 DEF StateSet
<1>4. Covers(p) /\ RetryOK(p) /\ On(p)
  BY <1>3 DEF Covers, RetryOK, On
<1> QED BY <1>2, <1>3, <1>4 DEF OInv, Base, FrameComes

(* A page flip: the request that waited is carried out, or a frame drawn. *)
LEMMA StepPageFlip ==
  ASSUME NEW ok \in BOOLEAN, NEW scan \in BOOLEAN, NEW result \in Results,
         OInv(s), PageFlip(ok, scan, result)
  PROVE  OInv(s')
<1> DEFINE y == [s EXCEPT !.flip = FALSE]
           o1 == [s EXCEPT !.flip = FALSE, !.front = s.shown, !.sceneCommit = FALSE]
           x == Present(y, ok)
           r == SetState(o1, s.pending, ok)
<1>1. s' = Frame(x, scan, result)
  BY DEF PageFlip
<1>2. s \in StateSet /\ Base(s)
  BY DEF OInv, Base
<1>3. x = IF s.pending = NoCfg THEN o1
          ELSE IF r[2] = "failed" THEN [r[1] EXCEPT !.pending = NoCfg, !.late = TRUE]
          ELSE r[1]
  <2>1. [y EXCEPT !.front = y.shown, !.sceneCommit = FALSE] = o1 /\ y.pending = s.pending
    BY <1>2 DEF StateSet
  <2> HIDE DEF o1, y
  <2> QED BY <2>1, Zenon DEF Present
<1>4. o1 \in StateSet /\ ~o1.flip /\ ~o1.sceneCommit
  BY <1>2, ZenonT(40) DEF StateSet
<1>5. /\ o1.cfg = s.cfg /\ o1.pending = s.pending
      /\ o1.scene = s.scene /\ o1.shown = s.shown /\ o1.stale = s.stale
      /\ o1.uncollected = s.uncollected /\ o1.want = s.want
      /\ o1.raced = s.raced /\ o1.late = s.late /\ o1.busy = s.busy
  BY <1>2 DEF StateSet
<1> HIDE DEF o1, x
<1>6. Covers(o1) /\ RetryOK(o1) /\ (On(o1) <=> On(s))
  BY <1>2, <1>5 DEF Base, Covers, RetryOK, On
<1>7. CASE s.pending = NoCfg
  <2>1. x = o1
    BY <1>3, <1>7
  <2> QED BY <1>1, <1>2, <1>4, <1>5, <1>6, <1>7, <2>1, FrameOfScene DEF Base
<1>8. CASE s.pending # NoCfg
  <2>1. s.pending \in Cfgs /\ s.pending.status = "on"
    BY <1>2, <1>8 DEF StateSet, Base
  <2> DEFINE c == s.pending
             q == r[1]
  <2>2. r = SetState(o1, c, ok) /\ c \in Cfgs
    BY <2>1
  <2> HIDE DEF r, c
  <2>3. Outcome(o1, c, r) /\ r[2] # "waits"
    <3>1. Outcome(o1, c, r)
      BY <1>4, <1>6, <2>2, SetStateFacts, SMTT(30)
    <3> QED BY <1>4, <3>1 DEF Outcome
  <2>4. CASE r[2] = "failed"
    <3>1. q = [o1 EXCEPT !.faults = @ + 1]
      BY <2>3, <2>4 DEF Outcome
    <3> DEFINE n == o1.faults + 1
    <3>2. n \in Nat
      BY <1>4 DEF StateSet
    <3>3. x = [[o1 EXCEPT !.faults = n] EXCEPT !.pending = NoCfg, !.late = TRUE]
      BY <1>3, <1>8, <2>4, <3>1
    <3> HIDE DEF n
    <3>4. x = [o1 EXCEPT !.faults = n, !.pending = NoCfg, !.late = TRUE]
      BY <1>4, <3>3 DEF StateSet
    <3>5. x \in StateSet /\ x.pending = NoCfg /\ x.late
      BY <1>4, <3>2, <3>4, ZenonT(40) DEF StateSet
    <3>6. /\ x.cfg = o1.cfg /\ x.scene = o1.scene /\ x.shown = o1.shown
          /\ x.stale = o1.stale /\ x.uncollected = o1.uncollected
          /\ x.flip = o1.flip /\ x.busy = o1.busy
      BY <1>4, <3>4 DEF StateSet
    <3>7. Covers(x) /\ RetryOK(x) /\ (On(x) <=> On(o1))
      BY <1>6, <3>6 DEF Covers, RetryOK, On
    <3> QED BY <1>1, <1>2, <1>4, <1>5, <1>6, <3>5, <3>6, <3>7, FrameOfScene DEF Base
  <2>5. CASE r[2] # "failed"
    <3>1. x = q
      BY <1>3, <1>8, <2>5
    <3>2. /\ x \in StateSet /\ Covers(x) /\ x.cfg = c /\ x.scene.alive /\ RetryOK(x)
          /\ \A f \in Kept : x[f] = o1[f]
          /\ Differs(c, o1.cfg) => x.flip
      BY <1>6, <2>1, <2>3, <2>5, <3>1 DEF Outcome, c
    <3>3. /\ x.pending = o1.pending /\ x.want = o1.want /\ x.raced = o1.raced
          /\ x.late = o1.late /\ x.busy = o1.busy /\ x.sceneCommit = o1.sceneCommit
      BY <3>2 DEF Kept
    <3>4. On(x) /\ x.pending = c /\ x.pending # NoCfg
      BY <1>5, <1>8, <2>1, <3>2, <3>3 DEF On, c
    <3>5. x.flip \/ x.raced
      BY <1>2, <1>5, <1>8, <3>2, <3>3 DEF Base, c
    <3>6. x.raced \/ x.late \/ x.want = x.cfg
      BY <1>2, <1>5, <1>8, <3>2, <3>3 DEF Base, c
    <3>7. ~x.busy /\ (x.sceneCommit => x.flip)
      BY <1>2, <1>4, <1>5, <3>3 DEF Base
    <3> QED BY <1>1, <3>2, <3>4, <3>5, <3>6, <3>7, FrameSkipped
  <2> QED BY <2>4, <2>5
<1> QED BY <1>7, <1>8

(* An idle frame. *)
LEMMA StepIdleFrame ==
  ASSUME NEW scan \in BOOLEAN, NEW result \in Results,
         OInv(s), IdleFrame(scan, result)
  PROVE  OInv(s')
<1> DEFINE o == [s EXCEPT !.idle = FALSE]
<1>1. s' = IF s.framePending THEN o ELSE Frame(o, scan, result)
  BY DEF IdleFrame
<1>2. s \in StateSet /\ Base(s) /\ FrameComes(s)
  BY DEF OInv, Base
<1>3. o \in StateSet
  BY <1>2, ZenonT(40) DEF StateSet
<1>4. /\ o.cfg = s.cfg /\ o.pending = s.pending /\ o.sceneCommit = s.sceneCommit
      /\ o.flip = s.flip /\ o.framePending = s.framePending /\ o.scene = s.scene
      /\ o.shown = s.shown /\ o.stale = s.stale /\ o.uncollected = s.uncollected
      /\ o.want = s.want /\ o.raced = s.raced /\ o.late = s.late /\ o.busy = s.busy
      /\ o.unrendered = s.unrendered
  BY <1>2 DEF StateSet
<1> HIDE DEF o
<1>5. Covers(o) /\ RetryOK(o) /\ (On(o) <=> On(s))
  BY <1>2, <1>4 DEF Base, Covers, RetryOK, On
<1>6. Base(o)
  BY <1>2, <1>3, <1>4, <1>5 DEF Base
<1>7. CASE s.framePending
  <2>1. s' = o
    BY <1>1, <1>7
  <2>2. FrameComes(o)
    BY <1>4, <1>6, <1>7 DEF FrameComes, Base
  <2> QED BY <1>6, <2>1, <2>2 DEF OInv
<1>8. CASE ~s.framePending
  <2>1. s' = Frame(o, scan, result) /\ ~o.flip
    BY <1>1, <1>4, <1>6, <1>8 DEF Base
  <2>2. CASE o.pending = NoCfg
    BY <1>6, <2>1, <2>2, FrameOfScene DEF Base
  <2>3. CASE o.pending # NoCfg /\ On(o)
    BY <1>6, <2>1, <2>3, FrameSkipped DEF Base
  <2>4. CASE o.pending # NoCfg /\ ~On(o)
    <3> DEFINE p == [o EXCEPT !.framePending = FALSE]
    <3>1. s' = p
      BY <2>1, <2>4 DEF Frame
    <3>2. p \in StateSet /\ ~p.framePending
      BY <1>3, ZenonT(40) DEF StateSet
    <3>3. /\ p.cfg = o.cfg /\ p.pending = o.pending /\ p.flip = o.flip
          /\ p.scene = o.scene /\ p.shown = o.shown /\ p.stale = o.stale
          /\ p.uncollected = o.uncollected /\ p.want = o.want
          /\ p.raced = o.raced /\ p.late = o.late /\ p.busy = o.busy
      BY <1>3 DEF StateSet
    <3> HIDE DEF p
    <3>4. Covers(p) /\ RetryOK(p) /\ ~On(p)
      BY <1>5, <2>4, <3>3 DEF Covers, RetryOK, On
    <3>5. Base(p)
      BY <1>6, <2>1, <3>2, <3>3, <3>4 DEF Base
    <3>6. FrameComes(p)
      BY <3>4 DEF FrameComes
    <3> QED BY <3>1, <3>5, <3>6 DEF OInv
  <2> QED BY <2>2, <2>3, <2>4
<1> QED BY <1>7, <1>8

(* A request of a client. *)
LEMMA StepRequest ==
  ASSUME NEW c \in Cfgs, NEW ok \in BOOLEAN, OInv(s), Request(c, ok)
  PROVE  OInv(s')
<1> DEFINE r == SetState(s, c, ok)
           q == r[1]
           taken == IF c.status = "on" THEN c
                    ELSE [s.want EXCEPT !.level = c.level, !.status = c.status]
           raced == q.raced \/ s.pending # NoCfg
           want == IF r[2] = "failed" THEN q.want ELSE taken
           n == q.requests + 1
<1>1. s' = [q EXCEPT !.requests = n, !.raced = raced, !.want = want]
  BY DEF Request
<1>2. s \in StateSet /\ Base(s) /\ Covers(s) /\ FrameComes(s)
  BY DEF OInv, Base
<1>3. Outcome(s, c, r)
  BY <1>2, SetStateFacts
<1> HIDE DEF r, raced, want, n, q
<1>4. q \in StateSet /\ Covers(q) /\ RetryOK(q) /\ (q.flip => q.framePending)
      /\ ~q.busy /\ q.raced = s.raced /\ q.late = s.late /\ q.want = s.want
      /\ q.sceneCommit = s.sceneCommit /\ q.unrendered = s.unrendered
  <2>1. CASE r[2] = "waits"
    <3>1. q = [s EXCEPT !.pending = c]
      BY <1>3, <2>1 DEF Outcome, q
    <3>2. q \in StateSet
      BY <1>2, <3>1 DEF StateSet
    <3>3. /\ q.scene = s.scene /\ q.stale = s.stale /\ q.shown = s.shown
          /\ q.uncollected = s.uncollected /\ q.flip = s.flip
          /\ q.framePending = s.framePending /\ q.busy = s.busy
          /\ q.raced = s.raced /\ q.late = s.late /\ q.want = s.want
          /\ q.sceneCommit = s.sceneCommit /\ q.unrendered = s.unrendered
      BY <1>2, <3>1 DEF StateSet
    <3> QED BY <1>2, <3>2, <3>3 DEF Base, Covers, RetryOK
  <2>2. CASE r[2] = "failed"
    <3> DEFINE k == s.faults + 1
    <3>1. q = [s EXCEPT !.faults = k] /\ k \in Nat
      BY <1>2, <1>3, <2>2 DEF Outcome, q, StateSet
    <3> HIDE DEF k
    <3>2. q \in StateSet
      BY <1>2, <3>1 DEF StateSet
    <3>3. /\ q.scene = s.scene /\ q.stale = s.stale /\ q.shown = s.shown
          /\ q.uncollected = s.uncollected /\ q.flip = s.flip
          /\ q.framePending = s.framePending /\ q.busy = s.busy
          /\ q.raced = s.raced /\ q.late = s.late /\ q.want = s.want
          /\ q.sceneCommit = s.sceneCommit /\ q.unrendered = s.unrendered
      BY <1>2, <3>1 DEF StateSet
    <3> QED BY <1>2, <3>2, <3>3 DEF Base, Covers, RetryOK
  <2>3. CASE r[2] = "done"
    <3>1. /\ q \in StateSet /\ Covers(q)
          /\ RetryOK(s) => RetryOK(q)
          /\ (s.flip => s.framePending) => (q.flip => q.framePending)
          /\ \A f \in Kept : q[f] = s[f]
      BY <1>3, <2>3 DEF Outcome, q
    <3>2. /\ q.busy = s.busy /\ q.raced = s.raced /\ q.late = s.late /\ q.want = s.want
          /\ q.sceneCommit = s.sceneCommit /\ q.unrendered = s.unrendered
      BY <3>1 DEF Kept
    <3> QED BY <1>2, <3>1, <3>2 DEF Base
  <2>4. r[2] \in {"waits", "failed", "done"}
    BY <1>3 DEF Outcome
  <2> QED BY <2>1, <2>2, <2>3, <2>4, SMTT(30)
<1>5. raced \in BOOLEAN /\ n \in Nat /\ want \in Cfgs
  <2>1. s.want \in Cfgs /\ q.want \in Cfgs /\ q.requests \in Nat
    BY <1>2, <1>4 DEF StateSet
  <2>2. taken \in Cfgs
    BY <2>1, Zenon DEF Cfgs
  <2> QED BY <2>1, <2>2 DEF raced, n, want
<1>6. s' \in StateSet /\ s'.raced = raced /\ s'.want = want
  BY <1>1, <1>4, <1>5, ZenonT(40) DEF StateSet
<1>7. /\ s'.cfg = q.cfg /\ s'.pending = q.pending /\ s'.sceneCommit = q.sceneCommit
      /\ s'.flip = q.flip /\ s'.framePending = q.framePending /\ s'.scene = q.scene
      /\ s'.shown = q.shown /\ s'.stale = q.stale /\ s'.uncollected = q.uncollected
      /\ s'.late = q.late /\ s'.busy = q.busy /\ s'.idle = q.idle
      /\ s'.unrendered = q.unrendered
  BY <1>1, <1>4 DEF StateSet
<1>8. Covers(s') /\ RetryOK(s') /\ (On(s') <=> On(q))
  BY <1>4, <1>7 DEF Covers, RetryOK, On
<1>9. raced <=> s.raced \/ s.pending # NoCfg
  BY <1>4 DEF raced
<1>10. CASE r[2] = "waits"
  <2>1. /\ q = [s EXCEPT !.pending = c]
        /\ Differs(c, s.cfg) /\ c.status = "on" /\ On(s) /\ s.sceneCommit
    BY <1>3, <1>10 DEF Outcome, q
  <2>2. /\ q.pending = c /\ q.cfg = s.cfg /\ q.flip = s.flip
        /\ q.framePending = s.framePending /\ q.scene = s.scene
    BY <1>2, <2>1 DEF StateSet
  <2>3. want = c
    BY <1>10, <2>1 DEF want
  <2>4. c # NoCfg
    BY OutputAssumption
  <2>5. Base(s')
    BY <1>2, <1>4, <1>6, <1>7, <1>8, <1>9, <2>1, <2>2, <2>3, <2>4 DEF Base, On
  <2>6. s'.flip
    BY <1>2, <1>7, <2>1, <2>2 DEF Base
  <2> QED BY <2>5, <2>6 DEF OInv, FrameComes
<1>11. CASE r[2] = "failed"
  <2>1. q = [s EXCEPT !.faults = @ + 1]
    BY <1>3, <1>11 DEF Outcome, q
  <2>2. /\ q.pending = s.pending /\ q.cfg = s.cfg /\ q.flip = s.flip
        /\ q.framePending = s.framePending /\ q.scene = s.scene
        /\ q.stale = s.stale /\ q.shown = s.shown /\ q.idle = s.idle
    BY <1>2, <2>1 DEF StateSet
  <2>3. want = s.want
    BY <1>4, <1>11, SMTT(30) DEF want
  <2>4. Base(s')
    BY <1>2, <1>4, <1>6, <1>7, <1>8, <1>9, <2>2, <2>3, SMTT(30) DEF Base, On
  <2>5. FrameComes(s')
    BY <1>2, <1>4, <1>6, <1>7, <1>9, <2>2 DEF FrameComes, On
  <2> QED BY <2>4, <2>5 DEF OInv
<1>12. CASE r[2] = "done"
  <2>1. /\ q.cfg = IF c.status = "on" THEN c
                   ELSE [s.cfg EXCEPT !.level = c.level, !.status = c.status]
        /\ c.status = "on" => q.scene.alive
        /\ \A f \in Kept : q[f] = s[f]
        /\ Differs(c, s.cfg) /\ c.status = "on" => q.flip /\ q.framePending
        /\ ~Differs(c, s.cfg) =>
             /\ q.flip = s.flip /\ q.framePending = s.framePending
             /\ q.stale = s.stale /\ q.shown = s.shown
             /\ s.idle => q.idle
             /\ s.scene.retryPending /\ c.status = "on" => q.scene.retryPending
             /\ c.status = s.cfg.status
    BY <1>3, <1>12 DEF Outcome, q
  <2>2. q.pending = s.pending
    BY <2>1 DEF Kept
  <2>3. On(q) <=> c.status = "on"
    <3>1. CASE c.status = "on"
      BY <2>1, <3>1 DEF On
    <3>2. CASE c.status # "on"
      <4>1. s.cfg \in Cfgs
        BY <1>2 DEF StateSet
      <4>2. [s.cfg EXCEPT !.level = c.level, !.status = c.status].status = c.status
        BY <4>1 DEF Cfgs
      <4> QED BY <2>1, <3>2, <4>2 DEF On
    <3> QED BY <3>1, <3>2
  <2>4. want = taken
    BY <1>12 DEF want
  <2>5. s.want = s.cfg => taken = q.cfg
    BY <2>1
  <2> HIDE DEF taken
  <2>6. On(s') /\ Differs(c, s.cfg) => s'.flip /\ s'.framePending
    BY <1>7, <1>8, <2>1, <2>3
  <2>7. On(s') /\ ~Differs(c, s.cfg) => On(s) /\ s'.flip = s.flip /\ s'.framePending = s.framePending
    BY <1>7, <1>8, <2>1, <2>3, SMTT(30) DEF On
  <2>8. On(s') /\ s'.framePending => s'.flip \/ s'.raced
    BY <1>2, <1>6, <1>9, <2>6, <2>7, Zenon DEF Base
  <2>9. On(s') /\ s'.sceneCommit => s'.flip
    BY <1>2, <1>4, <1>7, <2>6, <2>7 DEF Base
  <2>10. On(s') => s'.scene.alive
    BY <1>7, <1>8, <2>1, <2>3
  <2>11. s'.pending # NoCfg => s'.pending.status = "on" /\ s'.raced
    BY <1>2, <1>6, <1>7, <1>9, <2>2, SMTT(30) DEF Base
  <2>12. s'.raced \/ s'.late \/ (s'.pending = NoCfg /\ s'.want = s'.cfg)
    BY <1>2, <1>4, <1>6, <1>7, <1>9, <2>2, <2>4, <2>5, SMTT(30) DEF Base
  <2>13. Base(s')
    BY <1>4, <1>6, <1>7, <1>8, <2>8, <2>9, <2>10, <2>11, <2>12 DEF Base
  <2>14. FrameComes(s')
    <3>1. CASE Differs(c, s.cfg)
      BY <2>6, <3>1 DEF FrameComes
    <3>2. CASE ~Differs(c, s.cfg)
      BY <1>2, <1>4, <1>6, <1>7, <1>8, <1>9, <2>1, <2>3, <2>7, <3>2 DEF FrameComes
    <3> QED BY <3>1, <3>2
  <2> QED BY <2>13, <2>14 DEF OInv
<1> QED
  <2>1. r[2] \in {"waits", "failed", "done"}
    BY <1>3 DEF Outcome
  <2> QED BY <1>10, <1>11, <1>12, <2>1

(* More damage, of the scene (ky_scene_add_damage) or of the output itself
   (scene_output_handle_damage): it is recorded before a frame is scheduled. *)
LEMMA DamagedFacts ==
  ASSUME NEW o, Base(o), NEW d \in SUBSET Regions, NEW un \in SUBSET Regions,
         NEW sc \in SceneSet, NEW n \in Nat,
         NEW stale \in [Images -> SUBSET Regions],
         \A i \in Images : stale[i] = o.stale[i] \cup d,
         \A f \in Rest : sc[f] = o.scene[f],
         DOMAIN sc.tracked = DOMAIN o.scene.tracked,
         o.scene.current \cup o.uncollected \cup d \subseteq sc.current \cup un,
         \A b \in DOMAIN sc.tracked :
           o.scene.tracked[b] \cup o.uncollected \cup d \subseteq sc.tracked[b] \cup un,
         NEW p, p = [o EXCEPT !.stale = stale, !.uncollected = un, !.scene = sc,
                              !.changes = n]
  PROVE  Base(p)
<1>1. o \in StateSet
  BY DEF Base
<1>2. p \in StateSet
  BY <1>1, ZenonT(40) DEF StateSet
<1>3. p.stale = stale /\ p.uncollected = un /\ p.scene = sc
  BY <1>1 DEF StateSet
<1>4. \A f \in (DOMAIN o) \ {"stale", "uncollected", "scene", "changes"} :
        p[f] = o[f]
  BY Zenon
<1>5. /\ p.cfg = o.cfg /\ p.pending = o.pending /\ p.sceneCommit = o.sceneCommit
      /\ p.flip = o.flip /\ p.framePending = o.framePending /\ p.shown = o.shown
      /\ p.want = o.want /\ p.raced = o.raced /\ p.late = o.late /\ p.busy = o.busy
  BY <1>1, <1>4 DEF StateSet
<1>6. p.scene.alive = o.scene.alive /\ p.scene.retryPending = o.scene.retryPending
      /\ p.scene.failed = o.scene.failed /\ p.scene.retryMs = o.scene.retryMs
  BY <1>3 DEF Rest
<1>7. Covers(p)
  <2> SUFFICES ASSUME p.scene.alive
               PROVE  /\ p.stale[p.shown] \subseteq sc.current \cup un
                      /\ \A b \in DOMAIN sc.tracked : p.stale[b] \subseteq sc.tracked[b] \cup un
    BY <1>3 DEF Covers
  <2>1. o.scene.alive /\ Covers(o)
    BY <1>6 DEF Base
  <2>2. o.shown \in Images /\ DOMAIN sc.tracked \subseteq Images
    <3>1. sc.tracked \in Tracks
      BY DEF SceneSet
    <3> QED BY <1>1, <3>1, TracksElim DEF StateSet, Images
  <2>3. p.stale[p.shown] \subseteq sc.current \cup un
    BY <1>3, <1>5, <2>1, <2>2 DEF Covers
  <2>4. ASSUME NEW b \in DOMAIN sc.tracked
        PROVE  p.stale[b] \subseteq sc.tracked[b] \cup un
    <3>1. o.stale[b] \subseteq o.scene.tracked[b] \cup o.uncollected
      BY <2>1 DEF Covers
    <3>2. p.stale[b] = o.stale[b] \cup d
      BY <1>3, <2>2
    <3> QED BY <3>1, <3>2
  <2> QED BY <2>3, <2>4
<1>8. RetryOK(p) /\ (On(p) <=> On(o))
  BY <1>5, <1>6 DEF Base, RetryOK, On
<1> QED BY <1>2, <1>5, <1>6, <1>7, <1>8 DEF Base

(* ky_scene_add_damage *)
LEMMA ChangedFacts ==
  ASSUME NEW o, OInv(o), NEW d \in SUBSET Regions, NEW p, p = Changed(o, d)
  PROVE  OInv(p)
<1> DEFINE un == o.uncollected \cup d
           n == o.changes + 1
           st == [i \in Images |-> o.stale[i] \cup d]
           y == [o EXCEPT !.stale = st, !.uncollected = un, !.changes = n]
           x == [o EXCEPT !.stale = st, !.uncollected = un, !.scene = o.scene, !.changes = n]
<1>1. o \in StateSet /\ Base(o) /\ o.scene \in SceneSet
  BY DEF OInv, Base, StateSet
<1>2. un \in SUBSET Regions /\ n \in Nat /\ st \in [Images -> SUBSET Regions]
  BY <1>1 DEF StateSet
<1>3. p = IF o.scene.alive THEN Schedule(y) ELSE y
  BY DEF Changed
<1>4. /\ \A i \in Images : st[i] = o.stale[i] \cup d
      /\ o.scene.current \cup o.uncollected \cup d \subseteq o.scene.current \cup un
      /\ \A b \in DOMAIN o.scene.tracked :
           o.scene.tracked[b] \cup o.uncollected \cup d \subseteq o.scene.tracked[b] \cup un
  OBVIOUS
<1> HIDE DEF un, n, st
<1>5. y = x
  BY <1>1, Zenon DEF StateSet
<1>6. Base(x)
  BY <1>1, <1>2, <1>4, DamagedFacts, Zenon
<1>7. x.scene = o.scene
  BY <1>1 DEF StateSet
<1> HIDE DEF x, y
<1>8. CASE o.scene.alive
  BY <1>3, <1>5, <1>6, <1>8, ScheduleFacts, SMTT(30)
<1>9. CASE ~o.scene.alive
  <2>1. p = x
    BY <1>3, <1>5, <1>9, SMTT(30)
  <2>2. ~On(x)
    BY <1>6, <1>7, <1>9 DEF Base
  <2> QED BY <1>6, <2>1, <2>2 DEF OInv, FrameComes
<1> QED BY <1>8, <1>9

(* A window changes, or begins or ceases to cover the output. *)
LEMMA StepScene ==
  ASSUME OInv(s), (\E d \in Regions : Damage(d)) \/ ToggleFullscreen
  PROVE  OInv(s')
<1>1. s \in StateSet
  BY DEF OInv, Base
<1>2. CASE \E d \in Regions : Damage(d)
  <2>1. PICK d \in Regions : s' = Changed(s, {d})
    BY <1>2 DEF Damage
  <2> QED BY <2>1, ChangedFacts
<1>3. CASE ToggleFullscreen
  <2> DEFINE full == ~s.fullscreen
             y == [s EXCEPT !.fullscreen = full]
  <2>1. s' = Changed(y, Regions) /\ full \in BOOLEAN
    BY <1>3 DEF ToggleFullscreen
  <2> HIDE DEF full
  <2>2. y \in StateSet
    BY <1>1, <2>1 DEF StateSet
  <2>3. \A f \in (DOMAIN s) \ {"fullscreen"} : y[f] = s[f]
    OBVIOUS
  <2> HIDE DEF y
  <2>4. /\ y.cfg = s.cfg /\ y.pending = s.pending /\ y.sceneCommit = s.sceneCommit
        /\ y.flip = s.flip /\ y.framePending = s.framePending /\ y.scene = s.scene
        /\ y.shown = s.shown /\ y.stale = s.stale /\ y.uncollected = s.uncollected
        /\ y.want = s.want /\ y.raced = s.raced /\ y.late = s.late /\ y.busy = s.busy
        /\ y.idle = s.idle /\ y.unrendered = s.unrendered
    BY <1>1, <2>3, SMTT(30) DEF StateSet
  <2>5. Covers(y) /\ RetryOK(y) /\ (On(y) <=> On(s))
    BY <2>4, SMTT(30) DEF OInv, Base, Covers, RetryOK, On
  <2>6. Base(y)
    BY <2>2, <2>4, <2>5, SMTT(30) DEF OInv, Base
  <2>7. FrameComes(y)
    BY <2>4, <2>5 DEF OInv, FrameComes
  <2> QED BY <2>1, <2>6, <2>7, ChangedFacts DEF OInv
<1> QED BY <1>2, <1>3

(* The output itself is damaged. *)
LEMMA StepOutputDamage ==
  ASSUME NEW d \in Regions, OInv(s), OutputDamage(d)
  PROVE  OInv(s')
<1> DEFINE e == {d}
           n == s.changes + 1
           sc == RingAdd(s.scene, e)
           st == [i \in Images |-> s.stale[i] \cup e]
           y == [s EXCEPT !.stale = st, !.scene = sc, !.changes = n]
           x == [s EXCEPT !.stale = st, !.uncollected = s.uncollected, !.scene = sc,
                          !.changes = n]
<1>1. s \in StateSet /\ Base(s) /\ s.scene \in SceneSet /\ s.uncollected \in SUBSET Regions
  BY DEF OInv, Base, StateSet
<1>2. n \in Nat /\ st \in [Images -> SUBSET Regions] /\ e \in SUBSET Regions
      /\ \A i \in Images : st[i] = s.stale[i] \cup e
  BY <1>1 DEF StateSet
<1>3. s' = Schedule(y)
  BY SMTT(30) DEF OutputDamage
<1>4. /\ sc \in SceneSet /\ sc.current = s.scene.current \cup e
      /\ DOMAIN sc.tracked = DOMAIN s.scene.tracked
      /\ \A b \in DOMAIN s.scene.tracked : sc.tracked[b] = s.scene.tracked[b] \cup e
      /\ \A f \in Rest : sc[f] = s.scene[f]
  BY <1>1, RingAddFacts
<1> HIDE DEF sc, n, st, e
<1>5. y = x
  BY <1>1, Zenon DEF StateSet
<1>6. /\ s.scene.current \cup s.uncollected \cup e \subseteq sc.current \cup s.uncollected
      /\ \A b \in DOMAIN sc.tracked :
           s.scene.tracked[b] \cup s.uncollected \cup e \subseteq sc.tracked[b] \cup s.uncollected
  BY <1>4
<1>7. Base(x)
  BY <1>1, <1>2, <1>4, <1>6, DamagedFacts, ZenonT(40)
<1> HIDE DEF x, y
<1> QED BY <1>3, <1>5, <1>7, ScheduleFacts, SMTT(30)

(* The retry timer expires. *)
LEMMA StepRetry ==
  ASSUME OInv(s), Retry
  PROVE  OInv(s')
<1> DEFINE sc == [s.scene EXCEPT !.retryPending = FALSE]
           x == [s EXCEPT !.scene = sc]
<1>1. s \in StateSet /\ Base(s) /\ s.scene \in SceneSet
  BY DEF OInv, Base, StateSet
<1>2. s' = Schedule(x)
  BY DEF Retry
<1>3. /\ sc \in SceneSet /\ ~sc.retryPending /\ sc.alive = s.scene.alive
      /\ sc.current = s.scene.current /\ sc.tracked = s.scene.tracked
  BY <1>1, ZenonT(40) DEF SceneSet
<1> HIDE DEF sc
<1>4. x \in StateSet /\ x.scene = sc
  BY <1>1, <1>3 DEF StateSet
<1>5. /\ x.cfg = s.cfg /\ x.pending = s.pending /\ x.sceneCommit = s.sceneCommit
      /\ x.flip = s.flip /\ x.framePending = s.framePending
      /\ x.shown = s.shown /\ x.stale = s.stale /\ x.uncollected = s.uncollected
      /\ x.want = s.want /\ x.raced = s.raced /\ x.late = s.late /\ x.busy = s.busy
  BY <1>1 DEF StateSet
<1> HIDE DEF x
<1>6. Covers(x) /\ RetryOK(x) /\ (On(x) <=> On(s))
  BY <1>1, <1>3, <1>4, <1>5, SMTT(30) DEF Base, Covers, RetryOK, On
<1>7. Base(x)
  BY <1>1, <1>3, <1>4, <1>5, <1>6, ZenonT(40) DEF Base
<1> QED BY <1>2, <1>7, ScheduleFacts

-----------------------------------------------------------------------------
(* The theorems.                                                           *)

(* An output that was just enabled: the first frame is on its way. *)
LEMMA InitOInv == Init => OInv(s)
<1> SUFFICES ASSUME Init PROVE OInv(s)
  OBVIOUS
<1> DEFINE cfg == CHOOSE c \in Cfgs : c.status = "on"
           sc == [NoScene EXCEPT !.alive = TRUE, !.current = Regions]
           stale == [i \in Images |-> Regions]
<1>1. s = [cfg |-> cfg, pending |-> NoCfg, sceneCommit |-> FALSE,
           flip |-> TRUE, framePending |-> TRUE, needsFrame |-> TRUE,
           idle |-> FALSE, gamma |-> TRUE, lut |-> 0, scene |-> sc,
           front |-> 1, shown |-> 1, slots |-> 1, stale |-> stale,
           uncollected |-> {}, fullscreen |-> FALSE,
           want |-> cfg, raced |-> FALSE, late |-> FALSE, busy |-> FALSE,
           unrendered |-> FALSE, changes |-> 0, requests |-> 0, faults |-> 0]
  BY DEF Init
<1>2. cfg \in Cfgs /\ cfg.status = "on"
  <2>1. PICK m \in Modes, x \in Scales, l \in Levels : TRUE
    BY OutputAssumption, Zenon
  <2>2. [mode |-> m, scale |-> x, level |-> l, status |-> "on"] \in Cfgs
    BY DEF Cfgs, Statuses
  <2>3. \E c \in Cfgs : c.status = "on"
    BY <2>2
  <2> QED BY <2>3
<1>3. /\ sc \in SceneSet /\ sc.alive /\ sc.current = Regions
      /\ DOMAIN sc.tracked = {} /\ ~sc.retryPending
  BY NoSceneTyped, EmptyTracks, ZenonT(40) DEF SceneSet, NoScene
<1>4. stale \in [Images -> SUBSET Regions] /\ 1 \in Buffers /\ 1 \in Images
      /\ stale[1] = Regions
  BY OutputAssumption, SMTT(30) DEF Buffers, Images
<1> HIDE DEF cfg, sc, stale
<1>5. s \in StateSet
  BY <1>1, <1>2, <1>3, <1>4, SMTT(30) DEF StateSet
<1>6. /\ s.cfg = cfg /\ s.pending = NoCfg /\ ~s.sceneCommit /\ s.flip /\ s.framePending
      /\ s.scene = sc /\ s.shown = 1 /\ s.stale = stale /\ s.uncollected = {}
      /\ s.want = cfg /\ ~s.busy
  BY <1>1
<1>7. Covers(s) /\ RetryOK(s)
  BY <1>3, <1>4, <1>6, SMTT(30) DEF Covers, RetryOK
<1>8. Base(s)
  BY <1>2, <1>3, <1>5, <1>6, <1>7 DEF Base
<1> QED BY <1>6, <1>8 DEF OInv, FrameComes

(* Every step keeps the invariant. *)
LEMMA StepOInv == OInv(s) /\ [Next]_vars => OInv(s')
<1> SUFFICES ASSUME OInv(s), [Next]_vars PROVE OInv(s')
  OBVIOUS
<1>1. CASE \E r \in Regions : Damage(r) \/ OutputDamage(r)
  BY <1>1, StepScene, StepOutputDamage
<1>2. CASE ToggleFullscreen
  BY <1>2, StepScene
<1>3. CASE AnyRequest
  <2>1. s.cfg \in Cfgs
    BY DEF OInv, Base, StateSet
  <2>2. \E c \in Cfgs, ok \in BOOLEAN : Request(c, ok)
    <3>1. /\ \A m \in Modes : [s.cfg EXCEPT !.mode = m] \in Cfgs
          /\ \A x \in Scales : [s.cfg EXCEPT !.scale = x] \in Cfgs
          /\ \A x \in Levels : [s.cfg EXCEPT !.level = x] \in Cfgs
          /\ \A x \in Statuses : [s.cfg EXCEPT !.status = x] \in Cfgs
      BY <2>1 DEF Cfgs
    <3> QED BY <1>3, <3>1, Zenon DEF AnyRequest
  <2> QED BY <2>2, StepRequest
<1>4. CASE AnyPageFlip
  BY <1>4, StepPageFlip DEF AnyPageFlip
<1>5. CASE AnyIdleFrame
  BY <1>5, StepIdleFrame DEF AnyIdleFrame
<1>6. CASE Retry
  BY <1>6, StepRetry
<1>7. CASE UNCHANGED vars
  <2>1. s' = s
    BY <1>7 DEF vars
  <2> QED BY <2>1
<1> QED BY <1>1, <1>2, <1>3, <1>4, <1>5, <1>6, <1>7 DEF Next

IInv == OInv(s)

(* The invariant holds of every behaviour. *)
THEOREM InvariantHolds == Spec => []IInv
<1>1. Init => IInv
  BY InitOInv DEF IInv
<1>2. IInv /\ [Next]_vars => IInv'
  BY StepOInv DEF IInv
<1> QED BY <1>1, <1>2, PTL DEF Spec

(* No outdated pixel is forgotten by the damage ring (ky_damage_ring_add,
   ky_damage_ring_get_buffer_damage, ky_damage_ring_rotate_buffer) through any
   failure, mode, scan-out or power cycle. *)
THEOREM NoDamageForgotten == Spec => []DamageCoversStale
<1>1. IInv => DamageCoversStale
  BY DEF IInv, OInv, Base, Covers, DamageCoversStale
<1> QED BY <1>1, InvariantHolds, PTL

(* handle_output_frame never commits before the page flip of the last commit. *)
THEOREM CommitsNeverBusy == Spec => []NeverBusy
<1>1. IInv => NeverBusy
  BY DEF IInv, OInv, Base, NeverBusy
<1> QED BY <1>1, InvariantHolds, PTL

(* An outdated screen always has its next frame scheduled (output_schedule_frame,
   scene_output_commit_failed), apart from what StaleIsScheduled sets aside. *)
THEOREM NextFrameScheduled == Spec => []StaleIsScheduled
<1>1. IInv => StaleIsScheduled
  <2> SUFFICES ASSUME IInv PROVE StaleIsScheduled
    OBVIOUS
  <2>1. s \in StateSet /\ RetryOK(s)
    BY DEF IInv, OInv, Base
  <2>2. s.scene \in SceneSet
    BY <2>1 DEF StateSet
  <2>3. s.scene.tracked \in Tracks
    BY <2>2 DEF SceneSet
  <2>4. DOMAIN s.scene.tracked \subseteq Buffers
    BY <2>3, TracksElim
  <2>5. /\ s.scene.current \in SUBSET Regions
        /\ s.scene.retryMs \in {0} \cup RetryMin..RetryMax
        /\ s.scene.retryPending => s.scene.failed /\ s.scene.retryMs # 0
    BY <2>1, <2>2 DEF SceneSet, RetryOK
  <2>6. /\ s.cfg \in Cfgs /\ s.want \in Cfgs /\ s.pending \in Cfgs \cup {NoCfg}
        /\ s.front \in Images /\ s.shown \in Images /\ s.slots \in Buffers
        /\ s.stale \in [Images -> SUBSET Regions] /\ s.uncollected \in SUBSET Regions
    BY <2>1 DEF StateSet
  <2>7. TypeOK
    BY <2>4, <2>5, <2>6, SMTT(30) DEF TypeOK
  <2> QED BY <2>7 DEF IInv, OInv, FrameComes, StaleIsScheduled
<1> QED BY <1>1, InvariantHolds, PTL

(* A request that waited for a page flip (handle_output_present) is in force
   when nothing waits any more, apart from what RequestsApplied sets aside. *)
THEOREM RequestsTakeEffect == Spec => []RequestsApplied
<1>1. IInv => RequestsApplied
  BY DEF IInv, OInv, Base, RequestsApplied
<1> QED BY <1>1, InvariantHolds, PTL
=============================================================================
