---------------------------- MODULE OutputFrame ----------------------------
(***************************************************************************)
(* One DRM output and its frames (output/output.c, scene/output.c,         *)
(* patches/damage_ring.c), with the frame scheduling of wlr_output and the *)
(* page flips of the DRM backend they are written against.                 *)
(*                                                                         *)
(* A change of the scene is damage.  A frame event repaints, in the next   *)
(* buffer of the swapchain, what was damaged since that buffer was last    *)
(* painted, and commits it; the page flip that follows is the next frame   *)
(* event.  Rendering and committing may fail.  Meanwhile clients ask for   *)
(* other modes, scales, brightness or power; a request that meets a frame  *)
(* on its way to the screen waits for its page flip.                       *)
(*                                                                         *)
(* A buffer is known by the regions in which it is not what the scene now  *)
(* looks like.  The brightness is set by the hardware.  A transform or a   *)
(* policy of adaptive sync is requested and committed like a scale.        *)
(***************************************************************************)
EXTENDS Integers, FiniteSetsExt

CONSTANTS
  Regions,              \* parts of the output that can be damaged
  SwapchainCap,         \* WLR_SWAPCHAIN_CAP
  Modes, Scales,        \* of the output
  Levels,               \* of its brightness
  RetryMin, RetryMax,   \* COMMIT_RETRY_MIN_MS, COMMIT_RETRY_MAX_MS
  NoCfg,                \* no request is waiting
  MaxChanges, MaxRequests, MaxFaults  \* bounds on what happens to the output

(* Without power the output keeps its place; disabled, it has none. *)
Statuses == {"on", "dark", "disabled"}

Cfgs == [mode : Modes, scale : Scales, level : Levels, status : Statuses]

ASSUME OutputAssumption ==
  /\ RetryMin \in Nat \ {0} /\ RetryMax \in Nat /\ RetryMin <= RetryMax
  /\ MaxChanges \in Nat /\ MaxRequests \in Nat /\ MaxFaults \in Nat
  /\ SwapchainCap \in Nat /\ SwapchainCap >= 4 /\ Regions # {}
  /\ Levels \subseteq Nat \ {0} /\ Levels # {} /\ Modes # {} /\ Scales # {}
  /\ NoCfg \notin Cfgs

(* What may be on screen: a buffer of the swapchain, known by its slot, or *)
(* the buffer of a client.                                                 *)
Buffers == 1..SwapchainCap

NoBuffer == 0

Scanout == SwapchainCap + 1

Images == Buffers \cup {Scanout}

(* The fields of s:                                                        *)
(*   cfg         base.state, which follows the wlr_output                  *)
(*   pending     pending_state while has_pending, or NoCfg                 *)
(*   sceneCommit, gamma    scene_commit and gamma_changed                  *)
(*   framePending, needsFrame, idle    of the wlr_output                   *)
(*   flip        a page flip event will come                               *)
(*   front, shown  what is on screen, and what was committed last          *)
(*   slots, stale  buffers of the swapchain, and where images are outdated *)
(*   lut         the brightness on screen, 0 if none was set               *)
(*   scene       the ky_scene_output: see NoScene                          *)
(*   uncollected, fullscreen   damage of the scene that no frame has seen; *)
(*               a window covers the output                                *)
(* and history: want, what was asked for and not refused; raced, a request *)
(* came while another one waited; late, one that waited was refused in the *)
(* end; busy, a commit came before the page flip of the one before;        *)
(* unrendered, a frame failed before its commit and none was shown since.  *)
VARIABLE s

vars == <<s>>

On(o) == o.cfg.status = "on"

(* current and tracked are the damage ring, the damage of this frame and   *)
(* of each buffer; kept is the buffer the scene output holds.              *)
NoScene ==
  [alive |-> FALSE, current |-> {}, tracked |-> <<>>, kept |-> NoBuffer,
   scanout |-> FALSE, failed |-> FALSE, retryMs |-> 0, retryPending |-> FALSE]

-----------------------------------------------------------------------------
(* wlr_output_schedule_frame, through output_schedule_frame. *)
Schedule(o) ==
  [o EXCEPT !.needsFrame = TRUE, !.idle = @ \/ ~o.framePending]

(* ky_damage_ring_add and its callers for the whole output. *)
RingAdd(sc, damage) ==
  [sc EXCEPT !.current = @ \cup damage,
             !.tracked = [b \in DOMAIN @ |-> @[b] \cup damage]]

(* ky_damage_ring_get_buffer_damage: an unknown buffer has to be repainted. *)
Track(sc, b) ==
  [sc EXCEPT !.tracked = [c \in DOMAIN @ \cup {b} |->
                            IF c \in DOMAIN @ THEN @[c] ELSE Regions]]

(* ky_damage_ring_rotate_buffer *)
RingRotate(sc, b) ==
  [sc EXCEPT !.current = {},
             !.tracked = [c \in DOMAIN @ |-> IF c = b THEN {} ELSE @[c]]]

(* scene_output_update_geometry, of the scene output if there is one. *)
UpdateGeometry(o) ==
  IF o.scene.alive
  THEN Schedule([o EXCEPT !.scene = RingAdd(@, Regions)])
  ELSE o

(* Buffers the swapchain may not hand out: on screen, on their way there,  *)
(* or held by the scene output.                                            *)
Busy(o) == {o.front, o.shown, o.scene.kept}

(* wlr_swapchain_acquire: the free buffer allocated last, or a new one. *)
Acquire(o) ==
  LET free == (1..o.slots) \ Busy(o)
  IN IF free # {} THEN Max(free) ELSE o.slots + 1

(* Another scale or mode shows the scene differently, an empty buffer does *)
(* not show it at all.                                                     *)
Spoilt(o) == [o EXCEPT !.stale = [i \in Images |-> Regions]]

-----------------------------------------------------------------------------
(* wlr_output_commit_state of configuration c without a buffer.  Lighting  *)
(* up the output or a new mode brings an empty one; a new mode replaces    *)
(* the swapchain.  Turning it off drops the page flip that was expected.   *)
CommitConfig(o, c) ==
  LET on == c.status = "on"
      remode == on /\ c.mode # o.cfg.mode
      lit == on /\ (~On(o) \/ remode)
      slots == IF remode THEN 0 ELSE o.slots
      b == Acquire([o EXCEPT !.slots = slots])
      cfg == IF on THEN [c EXCEPT !.level = o.cfg.level]
                   ELSE [o.cfg EXCEPT !.status = c.status]
      o1 == [o EXCEPT !.cfg = cfg, !.flip = on,
                      !.framePending = @ \/ on, !.needsFrame = @ /\ ~on,
                      !.idle = @ /\ ~lit, !.shown = IF lit THEN b ELSE @,
                      !.slots = IF lit THEN Max({b, slots}) ELSE @,
                      !.lut = IF On(o) /\ on THEN @ ELSE 0,
                      !.scene.tracked = IF remode THEN <<>> ELSE @]
  IN IF ~on /\ ~On(o) THEN [o EXCEPT !.cfg = cfg] ELSE UpdateGeometry(Spoilt(o1))

(* Mutant: the brightness is not set again when the output is lit up. *)
GammaChanged_Kept(o, c) ==
  c.status = "on" /\ c.level # o.cfg.level

(* output_set_state has to set the brightness. *)
GammaChanged(o, c) ==
  c.status = "on" /\ (c.level # o.cfg.level \/ ~On(o))

(* kywc_output_set_state: ok is the answer of the backend.  The result is  *)
(* the output and "done", "waits" or "failed".                             *)
SetState(o, c, ok) ==
  LET changed == [c EXCEPT !.level = 0] # [o.cfg EXCEPT !.level = 0]
      on == c.status = "on"
      waits == changed /\ on /\ On(o) /\ c.mode = o.cfg.mode /\ o.sceneCommit
      o1 == IF changed THEN CommitConfig(o, c) ELSE o
      dimmed == GammaChanged(o, c)
      o2 == [o1 EXCEPT !.cfg.level = c.level, !.gamma = @ \/ dimmed]
      o3 == IF dimmed THEN Schedule(o2) ELSE o2
      o4 == IF c.status = "disabled" THEN [o3 EXCEPT !.scene = NoScene]
            ELSE IF o3.scene.alive THEN o3
            ELSE UpdateGeometry([o3 EXCEPT !.scene.alive = TRUE])
  IN IF waits THEN <<[o EXCEPT !.pending = c], "waits">>
     ELSE IF changed /\ ~ok THEN <<[o EXCEPT !.faults = @ + 1], "failed">>
     ELSE <<o4, "done">>

-----------------------------------------------------------------------------
(* Mutant: the delay grows without limit. *)
Backoff_Unlimited(ms) == IF ms = 0 THEN RetryMin ELSE 2 * ms

(* The delay before the next attempt, given the one before. *)
Backoff(ms) ==
  IF ms = 0 THEN RetryMin ELSE IF 2 * ms > RetryMax THEN RetryMax ELSE 2 * ms

(* Mutants: the frame that failed is not damaged again; the timer is not   *)
(* armed.                                                                  *)
CommitFailed_Undamaged(sc) ==
  [sc EXCEPT !.failed = TRUE, !.retryPending = TRUE, !.retryMs = Backoff(@)]

CommitFailed_Unarmed(sc) ==
  [RingAdd(sc, Regions) EXCEPT !.failed = TRUE, !.retryMs = Backoff(@)]

(* scene_output_commit_failed *)
CommitFailed(sc) ==
  [RingAdd(sc, Regions) EXCEPT !.failed = TRUE, !.retryPending = TRUE,
                               !.retryMs = Backoff(@)]

(* scene_output_commit_succeeded *)
CommitSucceeded(sc) == [sc EXCEPT !.failed = FALSE, !.retryMs = 0]

(* A commit of image i that the backend accepts. *)
Accepted(o, i) ==
  [o EXCEPT !.shown = i, !.flip = TRUE, !.framePending = TRUE,
            !.needsFrame = FALSE, !.idle = FALSE, !.sceneCommit = TRUE,
            !.scene = CommitSucceeded(@), !.unrendered = FALSE,
            !.lut = IF o.gamma THEN o.cfg.level ELSE @, !.gamma = FALSE]

(* A commit that it refuses. *)
Refused(o) ==
  [o EXCEPT !.idle = FALSE, !.scene = CommitFailed(@)]

(* wlr_output_commit_state of image i.  The backend may refuse it; it does *)
(* refuse it while it waits for a page flip.                               *)
CommitImage(o, i, result) ==
  IF o.flip THEN [Refused(o) EXCEPT !.busy = TRUE]
  ELSE IF result = "commit" THEN [Refused(o) EXCEPT !.faults = @ + 1]
  ELSE Accepted(o, i)

(* The direct scan-out of ky_scene_output_commit. *)
CommitScanout(o, result) ==
  LET o1 == CommitImage(o, Scanout, result)
  IN IF ~o1.sceneCommit THEN o1
     ELSE [o1 EXCEPT !.stale[Scanout] = {}, !.scene = RingRotate(@, NoBuffer)]

(* scene_output_render into a buffer and the commit of it.  Nothing is     *)
(* acquired or begun ("render"), the render pass is not completed          *)
(* ("submit"), or the backend refuses the buffer ("commit").               *)
RenderAndCommit(o, result) ==
  LET b == Acquire(o)
      sc == Track(o.scene, b)
      o1 == CommitImage([o EXCEPT !.slots = Max({b, @}),
                                  !.stale[b] = @ \ sc.tracked[b],
                                  !.scene = RingRotate(sc, b)], b, result)
      lost == [o EXCEPT !.faults = @ + 1, !.unrendered = TRUE]
  IN CASE result = "render" -> lost
       [] result = "submit" ->
            [lost EXCEPT !.slots = Max({b, @}), !.stale[b] = Regions,
                         !.scene = RingAdd(RingRotate(sc, b), Regions)]
       [] OTHER -> [o1 EXCEPT !.scene.kept = IF o1.sceneCommit THEN b ELSE @]

(* ky_scene_output_commit *)
SceneCommit(o, scan, result) ==
  LET o1 == [o EXCEPT !.uncollected = {}, !.scene = RingAdd(@, o.uncollected)]
      left == IF o.scene.scanout /\ ~scan THEN Regions ELSE {}
      o2 == [o1 EXCEPT !.scene = [RingAdd(@, left) EXCEPT !.scanout = scan]]
  IN IF o.scene.retryPending THEN o
     ELSE IF ~o1.needsFrame /\ ~o1.gamma /\ o1.scene.current = {} THEN o1
     ELSE IF scan THEN CommitScanout(o2, result)
     ELSE RenderAndCommit(o2, result)

(* Mutant: the frame is not skipped after a request that waited. *)
Frame_Unskipped(o, scan, result) ==
  LET o1 == [o EXCEPT !.framePending = FALSE, !.sceneCommit = FALSE,
                      !.pending = NoCfg]
  IN IF ~On(o) THEN [o EXCEPT !.framePending = FALSE]
     ELSE SceneCommit(o1, scan, result)

(* wlr_output_send_frame and handle_output_frame *)
Frame(o, scan, result) ==
  LET o1 == [o EXCEPT !.framePending = FALSE]
  IN IF ~On(o) THEN o1
     ELSE IF o.pending # NoCfg
          THEN [o1 EXCEPT !.framePending = TRUE, !.pending = NoCfg]
     ELSE SceneCommit([o1 EXCEPT !.sceneCommit = FALSE], scan, result)

(* Mutant: the page flip comes and the request is not applied. *)
Present_Forgets(o, ok) ==
  [o EXCEPT !.front = o.shown, !.sceneCommit = FALSE]

(* handle_output_present: the request that waited is applied. *)
Present(o, ok) ==
  LET o1 == [o EXCEPT !.front = o.shown, !.sceneCommit = FALSE]
      r == SetState(o1, o.pending, ok)
  IN IF o.pending = NoCfg THEN o1
     ELSE IF r[2] = "failed" THEN [r[1] EXCEPT !.pending = NoCfg, !.late = TRUE]
     ELSE r[1]

-----------------------------------------------------------------------------
(* The output was just enabled: handle_new_output, output_create. *)
Init ==
  LET cfg == CHOOSE c \in Cfgs : c.status = "on"
  IN   s = [cfg |-> cfg, pending |-> NoCfg, sceneCommit |-> FALSE,
            flip |-> TRUE, framePending |-> TRUE, needsFrame |-> TRUE,
            idle |-> FALSE, gamma |-> TRUE, lut |-> 0,
            scene |-> [NoScene EXCEPT !.alive = TRUE, !.current = Regions],
            front |-> 1, shown |-> 1, slots |-> 1,
            stale |-> [i \in Images |-> Regions],
            uncollected |-> {}, fullscreen |-> FALSE,
            want |-> cfg, raced |-> FALSE, late |-> FALSE, busy |-> FALSE,
            unrendered |-> FALSE, changes |-> 0, requests |-> 0, faults |-> 0]

(* The scene damages its outputs (ky_scene_add_damage): a window changes   *)
(* in region r ...                                                         *)
Changed(o, damage) ==
  LET o1 == [o EXCEPT !.stale = [i \in Images |-> @[i] \cup damage],
                      !.uncollected = @ \cup damage, !.changes = @ + 1]
  IN IF o.scene.alive THEN Schedule(o1) ELSE o1

Damage(r) ==
  /\ s.changes < MaxChanges
  /\ s' = Changed(s, {r})

(* ... or the cursor is drawn there by the output, which is damaged itself *)
(* (scene_output_handle_damage) ...                                        *)
OutputDamage(r) ==
  /\ s.changes < MaxChanges /\ s.scene.alive
  /\ s' = Schedule([s EXCEPT !.stale = [i \in Images |-> @[i] \cup {r}],
                             !.scene = RingAdd(@, {r}), !.changes = @ + 1])

(* ... or one covers the output, or ceases to. *)
ToggleFullscreen ==
  /\ s.changes < MaxChanges
  /\ s' = Changed([s EXCEPT !.fullscreen = ~@], Regions)

(* A client's request for configuration c, made from the present one       *)
(* (kde_output.c, wlr_output.c, ky_output.c).                              *)
Request(c, ok) ==
  LET r == SetState(s, c, ok)
      \* a mode, scale or transform is not taken while the output is off
      taken == IF c.status = "on" THEN c
               ELSE [s.want EXCEPT !.level = c.level, !.status = c.status]
  IN /\ s.requests < MaxRequests
     /\ s' = [r[1] EXCEPT !.requests = @ + 1,
                          !.raced = @ \/ s.pending # NoCfg,
                          !.want = IF r[2] = "failed" THEN @ ELSE taken]
     /\ s'.faults <= MaxFaults

Results == {"ok", "commit", "render", "submit"}

(* Direct scan-out is possible of a window that covers the output. *)
Possible(scan, result) ==
  scan => s.fullscreen /\ result \in {"ok", "commit"}

(* handle_page_flip of the DRM backend *)
PageFlip(ok, scan, result) ==
  /\ s.flip /\ Possible(scan, result)
  /\ \E o \in {Present([s EXCEPT !.flip = FALSE], ok)} :
       s' = Frame(o, scan, result)
  /\ s'.faults <= MaxFaults

(* schedule_frame_handle_idle_timer *)
IdleFrame(scan, result) ==
  /\ s.idle /\ Possible(scan, result)
  /\ LET o == [s EXCEPT !.idle = FALSE]
     IN s' = IF s.framePending THEN o ELSE Frame(o, scan, result)
  /\ s'.faults <= MaxFaults

(* scene_output_handle_commit_retry *)
Retry ==
  /\ s.scene.retryPending
  /\ s' = Schedule([s EXCEPT !.scene.retryPending = FALSE])

AnyRequest ==
  \E ok \in BOOLEAN :
    \/ \E m \in Modes \ {s.cfg.mode} : Request([s.cfg EXCEPT !.mode = m], ok)
    \/ \E x \in Scales \ {s.cfg.scale} : Request([s.cfg EXCEPT !.scale = x], ok)
    \/ \E x \in Levels \ {s.cfg.level} : Request([s.cfg EXCEPT !.level = x], ok)
    \/ \E x \in Statuses \ {s.cfg.status} : Request([s.cfg EXCEPT !.status = x], ok)

AnyPageFlip ==
  \E ok, scan \in BOOLEAN, result \in Results :
    PageFlip(ok, scan, result)

AnyIdleFrame ==
  \E scan \in BOOLEAN, result \in Results :
    IdleFrame(scan, result)

Next ==
  \/ \E r \in Regions : Damage(r) \/ OutputDamage(r)
  \/ ToggleFullscreen
  \/ AnyRequest
  \/ AnyPageFlip
  \/ AnyIdleFrame
  \/ Retry

(* The kernel completes a page flip, the event loop runs its idle sources  *)
(* and its timers expire.                                                  *)
Fairness == WF_vars(AnyPageFlip) /\ WF_vars(AnyIdleFrame) /\ WF_vars(Retry)

Spec == Init /\ [][Next]_vars /\ Fairness

-----------------------------------------------------------------------------
(* The shape of the state.  The delay before a retry stays within its      *)
(* limits, and one is armed only for a commit that failed.                 *)
TypeOK ==
  /\ s.cfg \in Cfgs /\ s.want \in Cfgs /\ s.pending \in Cfgs \cup {NoCfg}
  /\ s.front \in Images /\ s.shown \in Images /\ s.slots \in Buffers
  /\ s.stale \in [Images -> SUBSET Regions]
  /\ s.scene.current \in SUBSET Regions /\ s.uncollected \in SUBSET Regions
  /\ DOMAIN s.scene.tracked \subseteq Buffers
  /\ s.scene.retryMs \in {0} \cup RetryMin..RetryMax
  /\ s.scene.retryPending => s.scene.failed /\ s.scene.retryMs # 0

(* No outdated pixel is forgotten: wherever the image on screen, or a      *)
(* buffer that may be painted next, differs from the scene, the damage     *)
(* ring or the damage the scene has yet to hand over says so -- through    *)
(* failed renders and commits, direct scan-out, new modes and a display    *)
(* that is lit up again with an empty buffer.                              *)
DamageCoversStale ==
  s.scene.alive =>
    /\ s.stale[s.shown] \subseteq s.scene.current \cup s.uncollected
    /\ \A b \in DOMAIN s.scene.tracked :
         s.stale[b] \subseteq s.scene.tracked[b] \cup s.uncollected

(* A frame is never committed before the page flip of the last commit,     *)
(* which the backend would refuse as busy (handle_output_frame skips the   *)
(* frame in which a request that waited was committed).                    *)
NeverBusy == ~s.busy

(* Whenever the screen is outdated something will bring the next frame: a  *)
(* page flip, an idle frame that is not held back by frame_pending, or the *)
(* retry timer.  Set aside: a frame that failed before its commit, and a   *)
(* request that overtook one that waited.  The timer's delay keeps its     *)
(* limits (TypeOK).                                                        *)
StaleIsScheduled ==
  /\ TypeOK
  /\ On(s) /\ s.stale[s.shown] # {} =>
       \/ s.flip \/ (s.idle /\ ~s.framePending) \/ s.scene.retryPending
       \/ s.unrendered \/ s.raced

(* When no request is waiting the output is what was asked for, also if    *)
(* the request met a frame on its way to the screen; unless another one    *)
(* came while it waited, or the backend refused it in the end.             *)
RequestsApplied ==
  s.pending = NoCfg => s.cfg = s.want \/ s.raced \/ s.late

(* Once clients are quiet and commits succeed, a lit screen shows the      *)
(* scene, in the brightness asked for.  Set aside as in StaleIsScheduled.  *)
ScreenCatchesUp ==
  <>[](On(s) => \/ s.stale[s.shown] = {} /\ s.lut = s.cfg.level
                \/ s.unrendered \/ s.raced)

(* "Sent after the server has successfully applied the changes"            *)
(* (kde-output-management-v2.xml, event applied): one request at a time,   *)
(* answered with applied, is in force when nothing waits any more.         *)
AppliedIsInForce ==
  s.pending = NoCfg => s.cfg = s.want \/ s.raced
=============================================================================
