------------------------- MODULE SessionLockProofs -------------------------
(***************************************************************************)
(* Proofs about the session lock, for any outputs, any number of attempts  *)
(* and of output changes.                                                  *)
(***************************************************************************)
EXTENDS SessionLock, TLAPS

(* TypeOK in two parts: the outputs, the lock. *)
Frames == [content : {"session", "lock"}, previous : BOOLEAN]

Locks == [abandoned : BOOLEAN, locked : BOOLEAN, focused : Outputs \cup {NoOutput}]

OutputsOK ==
  /\ out \in [Outputs -> {"absent", "off", "on"}]
  /\ flight \in [Outputs -> Seq(Frames)]
  /\ \A o \in Outputs : Len(flight[o]) <= MaxInFlight
  /\ screen \in [Outputs -> {"blank", "session", "lock"}]
  /\ damaged \in [Outputs -> BOOLEAN]
  /\ plugs \in 0..MaxPlugs

LockOK ==
  /\ lock \in Locks \cup {NoLock}
  /\ lo \in [Outputs -> Covers]
  /\ kb \in {"none", "view"} \cup Outputs
  /\ up \in BOOLEAN /\ secured \in BOOLEAN

(* The timer is armed only while an attempt is left. *)
TimerOK ==
  /\ timer \in [armed : BOOLEAN, attempts : 0..MaxAttempts]
  /\ timer.armed => timer.attempts < MaxAttempts

(* The parts of the type invariant. *)
LEMMA TypeParts == OutputsOK /\ LockOK /\ TimerOK => TypeOK
BY DEF TypeOK, OutputsOK, LockOK, TimerOK, Frames, Locks

(* There are covers only while there is a lock, surfaces only on covers and
   only while the client is there. *)
CoversOfLock ==
  /\ lock = NoLock => \A o \in Outputs : lo[o] = NoCover
  /\ \A o \in Outputs : lo[o].surface # "none" => lo[o].tree # "none" /\ Held

(* Lock lk with covers l has the keyboard k on the surface it has focused. *)
Focused(lk, l, k) ==
  /\ k = KbOf(lk.focused)
  /\ IF Mapped(l) = {} THEN lk.focused = NoOutput ELSE lk.focused \in Mapped(l)

KInv ==
  /\ OutputsOK /\ LockOK /\ TimerOK
  /\ CoversOfLock /\ OutputsCovered
  /\ lock # NoLock => Focused(lock, lo, kb)

-----------------------------------------------------------------------------
(* Marking frames keeps what they show (previous_commit_seq). *)
LEMMA MarkedFacts ==
  ASSUME NEW fs \in Seq(Frames)
  PROVE  /\ Marked(fs) \in Seq(Frames) /\ Len(Marked(fs)) = Len(fs)
         /\ \A i \in DOMAIN fs : /\ Marked(fs)[i].content = fs[i].content
                                 /\ Marked(fs)[i].previous = (i = Len(fs))
<1>1. \A i \in 1..Len(fs) : [fs[i] EXCEPT !.previous = (i = Len(fs))] \in Frames
  <2>1. \A f \in Frames, b \in BOOLEAN : [f EXCEPT !.previous = b] \in Frames
    BY DEF Frames
  <2>2. \A i \in 1..Len(fs) : fs[i] \in Frames /\ (i = Len(fs)) \in BOOLEAN
    OBVIOUS
  <2> QED BY <2>1, <2>2, Zenon
<1>2. Marked(fs) = [i \in 1..Len(fs) |-> [fs[i] EXCEPT !.previous = (i = Len(fs))]]
  BY DEF Marked
<1>3. Marked(fs) \in Seq(Frames) /\ Len(Marked(fs)) = Len(fs)
  BY <1>1, <1>2
<1>4. \A i \in 1..Len(fs) : fs[i] \in Frames
  OBVIOUS
<1> QED BY <1>2, <1>3, <1>4 DEF Frames

(* Sending the locked event changes nothing else of a lock. *)
LEMMA TrySendFacts ==
  ASSUME NEW lk \in Locks, NEW st, NEW l
  PROVE  /\ TrySend(lk, st, l) \in Locks
         /\ TrySend(lk, st, l).focused = lk.focused
         /\ TrySend(lk, st, l).abandoned = lk.abandoned
         /\ TrySend(lk, st, l).locked => lk.locked \/ CanSend(st, l)
         /\ lk.locked => TrySend(lk, st, l).locked
BY Zenon DEF TrySend, Locks

(* The surface session_lock_get_focus_surface returns. *)
LEMMA FocusChoiceFacts ==
  ASSUME NEW l, NEW f, NEW s \in FocusChoice(f, l)
  PROVE  /\ s \in Outputs \cup {NoOutput}
         /\ IF Mapped(l) = {} THEN s = NoOutput ELSE s \in Mapped(l)
BY SessionLockAssumption DEF FocusChoice, Mapped

(* The keyboard's place. *)
LEMMA KbOfType ==
  ASSUME NEW f \in Outputs \cup {NoOutput}
  PROVE  KbOf(f) \in {"none", "view"} \cup Outputs
BY DEF KbOf

(* refocus_surface keeps the keyboard on a surface that is there. *)
LEMMA RefocusFacts ==
  ASSUME NEW o \in Outputs, NEW removed \in {o, NoOutput}, lock \in Locks, Focused(lock, lo, kb),
         NEW l, Mapped(l) = Mapped(lo) \ {o},
         removed = NoOutput => o \notin Mapped(lo),
         NEW s \in FocusChoice(NoOutput, l),
         kb \in {"none", "view"} \cup Outputs
  PROVE  /\ Refocused(removed, lock, l, s) \in Locks
         /\ Refocused(removed, lock, l, s).locked = lock.locked
         /\ Refocused(removed, lock, l, s).abandoned = lock.abandoned
         /\ RefocusedKb(removed, lock, s) \in {"none", "view"} \cup Outputs
         /\ Focused(Refocused(removed, lock, l, s), l, RefocusedKb(removed, lock, s))
<1> DEFINE lk == Refocused(removed, lock, l, s)
           k == RefocusedKb(removed, lock, s)
<1>1. /\ s \in Outputs \cup {NoOutput}
      /\ IF Mapped(l) = {} THEN s = NoOutput ELSE s \in Mapped(l)
  BY FocusChoiceFacts
<1>2. /\ lk \in Locks /\ lk.locked = lock.locked /\ lk.abandoned = lock.abandoned
      /\ lk.focused = IF lock.focused # removed THEN lock.focused ELSE s
  BY <1>1 DEF Refocused, Locks
<1>3. k \in {"none", "view"} \cup Outputs
  BY <1>1 DEF RefocusedKb, KbOf
<1>4. k = KbOf(lk.focused)
  BY <1>1, <1>2, SessionLockAssumption DEF RefocusedKb, KbOf, Focused, Mapped, Locks
<1>5. IF Mapped(l) = {} THEN lk.focused = NoOutput ELSE lk.focused \in Mapped(l)
  BY <1>1, <1>2 DEF Focused
<1> QED BY <1>2, <1>3, <1>4, <1>5 DEF Focused

-----------------------------------------------------------------------------
(* The session before any lock. *)
LEMMA InitKInv == Init => KInv
<1> SUFFICES ASSUME Init PROVE KInv
  OBVIOUS
<1> USE SessionLockAssumption
<1>1. OutputsOK
  <2>1. <<>> \in Seq(Frames) /\ Len(<<>>) <= MaxInFlight
    OBVIOUS
  <2>2. /\ out \in [Outputs -> {"absent", "off", "on"}]
        /\ screen \in [Outputs -> {"blank", "session", "lock"}]
        /\ damaged \in [Outputs -> BOOLEAN] /\ plugs \in 0..MaxPlugs
    BY DEF Init
  <2>3. flight = [o \in Outputs |-> <<>>]
    BY DEF Init
  <2>4. flight \in [Outputs -> Seq(Frames)] /\ \A o \in Outputs : flight[o] = <<>>
    BY <2>1, <2>3
  <2> QED BY <2>1, <2>2, <2>4 DEF OutputsOK
<1>2. LockOK /\ TimerOK
  <2>1. NoCover \in Covers
    BY DEF NoCover, Covers
  <2>2. lo \in [Outputs -> Covers]
    BY <2>1 DEF Init
  <2>3. LockOK
    BY <2>2, Zenon DEF Init, LockOK
  <2> QED BY <2>3 DEF Init, TimerOK
<1>3. CoversOfLock /\ OutputsCovered /\ lock = NoLock
  BY DEF Init, CoversOfLock, OutputsCovered, NoCover
<1> QED BY <1>1, <1>2, <1>3 DEF KInv

(* What the invariant says of an output and its cover. *)
LEMMA CoverFacts ==
  ASSUME KInv, NEW o \in Outputs
  PROVE  /\ out[o] \in {"absent", "off", "on"} /\ lo[o] \in Covers
         /\ lo[o].surface # "none" => lock \in Locks /\ lo[o].tree # "none" /\ ~lock.abandoned
         /\ lo[o].tree # "none" => lock \in Locks
         /\ lock # NoLock /\ out[o] = "on" => lo[o].tree = "enabled"
<1>1. out[o] \in {"absent", "off", "on"} /\ lo[o] \in Covers /\ lock \in Locks \cup {NoLock}
  BY DEF KInv, OutputsOK, LockOK
<1>2. lo[o].tree # "none" => lock # NoLock
  BY DEF KInv, CoversOfLock, NoCover
<1>3. lo[o].surface # "none" => lo[o].tree # "none" /\ Held
  BY DEF KInv, CoversOfLock
<1> QED BY <1>1, <1>2, <1>3 DEF KInv, OutputsCovered, On, Held

(* The lock, its covers and the keyboard after the cover of one output has
   changed: what is left to show for a step that changes no other cover. *)
LEMMA OneCover ==
  ASSUME KInv, NEW o \in Outputs, NEW c \in Covers, lo' = [lo EXCEPT ![o] = c],
         lock' \in Locks, kb' \in {"none", "view"} \cup Outputs,
         up' \in BOOLEAN, secured' \in BOOLEAN,
         \A p \in Outputs \ {o} : out'[p] = out[p],
         lock # NoLock, lock'.abandoned = lock.abandoned,
         c.surface # "none" => c.tree # "none" /\ ~lock.abandoned,
         out'[o] = "on" => c.tree = "enabled",
         Focused(lock', lo', kb')
  PROVE  /\ LockOK' /\ CoversOfLock' /\ OutputsCovered'
         /\ (lock # NoLock => Focused(lock, lo, kb))'
<1>1. lo \in [Outputs -> Covers] /\ lock \in Locks
  BY DEF KInv, LockOK
<1>2. LockOK'
  BY <1>1 DEF LockOK
<1>3. lock' # NoLock
  BY SessionLockAssumption DEF Locks
<1>4. lo'[o] = c /\ \A p \in Outputs \ {o} : lo'[p] = lo[p]
  BY <1>1
<1>5. CoversOfLock'
  BY <1>3, <1>4 DEF KInv, CoversOfLock, Held
<1>6. OutputsCovered'
  BY <1>3, <1>4 DEF KInv, OutputsCovered, On
<1>7. (lock # NoLock => Focused(lock, lo, kb))' <=> (lock' # NoLock => Focused(lock', lo', kb'))
  BY DEF Focused, Mapped, KbOf
<1> QED BY <1>2, <1>5, <1>6, <1>7

(* A step that leaves the lock and the covers alone. *)
LEMMA NoCoverChanges ==
  ASSUME KInv, lock' = lock, lo' = lo, kb' = kb, up' \in BOOLEAN, secured' \in BOOLEAN,
         \A p \in Outputs : out'[p] = "on" => out[p] = "on"
  PROVE  /\ LockOK' /\ CoversOfLock' /\ OutputsCovered'
         /\ (lock # NoLock => Focused(lock, lo, kb))'
<1>1. LockOK'
  BY DEF KInv, LockOK
<1>2. CoversOfLock' /\ OutputsCovered'
  BY DEF KInv, CoversOfLock, OutputsCovered, On, Held
<1>3. (lock # NoLock => Focused(lock, lo, kb))'
  BY DEF KInv, Focused, Mapped, KbOf
<1> QED BY <1>1, <1>2, <1>3

(* Covers with no surface. *)
LEMMA NothingMapped ==
  ASSUME NEW l, \A o \in Outputs : l[o].surface = "none",
         NEW lk, lk.focused = NoOutput
  PROVE  Focused(lk, l, "none")
BY DEF Focused, Mapped, KbOf

-----------------------------------------------------------------------------
(* A lock is created and covers the outputs. *)
LEMMA StepNewLock ==
  ASSUME KInv, NewLock
  PROVE  KInv'
<1> DEFINE lk == [abandoned |-> FALSE, locked |-> FALSE, focused |-> NoOutput]
<1>1. /\ lo' = [o \in Outputs |-> IF o \in On THEN Cover(o) ELSE NoCover]
      /\ flight' = [o \in Outputs |-> IF o \in On THEN Marked(flight[o]) ELSE flight[o]]
      /\ damaged' = [o \in Outputs |-> o \in On \/ damaged[o]]
      /\ lock' = TrySend(lk, out, lo') /\ kb' = "none"
      /\ timer' = [armed |-> FALSE, attempts |-> 0]
      /\ secured' = (secured \/ lock'.locked)
      /\ out' = out /\ screen' = screen /\ up' = up /\ plugs' = plugs
  BY DEF NewLock, KbOf
<1>2. lk \in Locks /\ lk.focused = NoOutput
  BY DEF Locks
<1>3. lock' \in Locks /\ lock'.focused = NoOutput
  <2> HIDE DEF lk
  <2> QED BY <1>1, <1>2, TrySendFacts
<1>4. OutputsOK'
  <2>1. \A o \in Outputs : flight[o] \in Seq(Frames) /\ Len(flight[o]) <= MaxInFlight
    BY Zenon DEF KInv, OutputsOK
  <2>2. \A o \in Outputs : /\ Marked(flight[o]) \in Seq(Frames)
                          /\ Len(Marked(flight[o])) = Len(flight[o])
    BY <2>1, MarkedFacts, Zenon
  <2>3. flight' \in [Outputs -> Seq(Frames)] /\ \A o \in Outputs : Len(flight'[o]) <= MaxInFlight
    BY <1>1, <2>1, <2>2
  <2>4. damaged' \in [Outputs -> BOOLEAN]
    BY <1>1 DEF KInv, OutputsOK
  <2> QED BY <1>1, <2>3, <2>4 DEF KInv, OutputsOK
<1>5. lo' \in [Outputs -> Covers] /\ \A o \in Outputs : lo'[o].surface = "none"
  BY <1>1 DEF Cover, NoCover, Covers
<1>6. LockOK'
  <2>1. secured' \in BOOLEAN
    BY <1>1, <1>3 DEF KInv, LockOK, Locks
  <2> QED BY <1>1, <1>3, <1>5, <2>1 DEF KInv, LockOK
<1>7. lock' # NoLock
  BY <1>3, SessionLockAssumption DEF Locks
<1>8. CoversOfLock'
  BY <1>5, <1>7 DEF CoversOfLock
<1>9. OutputsCovered'
  BY <1>1 DEF OutputsCovered, On, Cover
<1>10. (lock # NoLock => Focused(lock, lo, kb))'
  <2>1. Focused(lock', lo', "none")
    BY <1>3, <1>5, NothingMapped
  <2> QED BY <1>1, <2>1, Zenon DEF Focused, Mapped, KbOf
<1>11. TimerOK'
  BY <1>1, SessionLockAssumption DEF TimerOK
<1> QED BY <1>4, <1>6, <1>8, <1>9, <1>10, <1>11 DEF KInv

(* A lock could not be created. *)
LEMMA StepNewLockFails ==
  ASSUME KInv, NewLockFails
  PROVE  KInv'
<1>1. /\ lock' = lock /\ lo' = lo /\ timer' = timer /\ up' = up /\ secured' = secured
      /\ UNCHANGED outputVars /\ kb' \in {kb, "none"} /\ ~Held
  BY DEF NewLockFails, KbOf
<1>2. OutputsOK' /\ TimerOK'
  BY <1>1 DEF KInv, OutputsOK, TimerOK, outputVars
<1>3. LockOK'
  BY <1>1 DEF KInv, LockOK
<1>4. CoversOfLock' /\ OutputsCovered'
  BY <1>1 DEF KInv, CoversOfLock, OutputsCovered, On, Held, outputVars
<1>5. (lock # NoLock => Focused(lock, lo, kb))'
  <2>1. Mapped(lo) = {}
    BY <1>1 DEF KInv, CoversOfLock, Mapped
  <2>2. lock # NoLock => kb = "none"
    BY <2>1 DEF KInv, Focused, KbOf
  <2>3. lock # NoLock => kb' = kb
    BY <1>1, <2>2
  <2> QED BY <1>1, <2>3 DEF KInv, Focused, Mapped, KbOf
<1> QED BY <1>2, <1>3, <1>4, <1>5 DEF KInv

(* A lock surface is created, with its cover if its output is off. *)
LEMMA StepNewSurface ==
  ASSUME KInv, NEW o \in Outputs, NewSurface(o)
  PROVE  KInv'
<1> DEFINE c == [IF lo[o].tree = "none" THEN Cover(o) ELSE lo[o] EXCEPT !.surface = "created"]
<1>1. /\ lo' = [lo EXCEPT ![o] = c] /\ lock' = lock /\ kb' = kb /\ up' = up
      /\ secured' = secured /\ timer' = timer /\ out' = out /\ screen' = screen
      /\ damaged' = damaged /\ plugs' = plugs /\ Held /\ lo[o].surface = "none"
      /\ flight' = [flight EXCEPT ![o] = IF lo[o].tree = "none" THEN Marked(@) ELSE @]
  BY DEF NewSurface
<1>2. lock \in Locks /\ lo \in [Outputs -> Covers] /\ ~lock.abandoned /\ lock # NoLock
  BY <1>1 DEF KInv, LockOK, Held
<1>3. c \in Covers /\ c.surface = "created" /\ c.tree # "none" /\ (out[o] = "on" => c.tree = "enabled")
  BY CoverFacts, <1>2, Zenon DEF Cover, Covers
<1> HIDE DEF c
<1>4. OutputsOK'
  <2>1. flight[o] \in Seq(Frames) /\ Len(flight[o]) <= MaxInFlight
    BY DEF KInv, OutputsOK
  <2>2. Marked(flight[o]) \in Seq(Frames) /\ Len(Marked(flight[o])) = Len(flight[o])
    BY <2>1, MarkedFacts
  <2>3. flight' \in [Outputs -> Seq(Frames)] /\ \A p \in Outputs : Len(flight'[p]) <= MaxInFlight
    BY <1>1, <2>1, <2>2 DEF KInv, OutputsOK
  <2> QED BY <1>1, <2>3 DEF KInv, OutputsOK
<1>5. Focused(lock', lo', kb')
  <2>1. Mapped(lo') = Mapped(lo)
    BY <1>1, <1>2, <1>3 DEF Mapped
  <2> QED BY <1>1, <1>2, <2>1, Zenon DEF KInv, Focused
<1>6. /\ LockOK' /\ CoversOfLock' /\ OutputsCovered'
      /\ (lock # NoLock => Focused(lock, lo, kb))'
  <2>1. kb' \in {"none", "view"} \cup Outputs /\ up' \in BOOLEAN /\ secured' \in BOOLEAN
    BY <1>1 DEF KInv, LockOK
  <2> QED BY <1>1, <1>2, <1>3, <1>5, <2>1, OneCover, Zenon
<1>7. TimerOK'
  BY <1>1 DEF KInv, TimerOK
<1> QED BY <1>4, <1>6, <1>7 DEF KInv

(* A lock surface is mapped and takes the keyboard if none has it. *)
LEMMA StepMapSurface ==
  ASSUME KInv, NEW o \in Outputs, MapSurface(o)
  PROVE  KInv'
<1> DEFINE c == [lo[o] EXCEPT !.surface = "mapped"]
<1>1. /\ lo' = [lo EXCEPT ![o] = c] /\ lo[o].surface = "created"
      /\ IF lock.focused = NoOutput
         THEN lock' = [lock EXCEPT !.focused = o] /\ kb' = o
         ELSE lock' = lock /\ kb' = kb
      /\ damaged' = [damaged EXCEPT ![o] = @ \/ out[o] = "on"]
      /\ up' = up /\ secured' = secured /\ timer' = timer /\ out' = out /\ screen' = screen
      /\ flight' = flight /\ plugs' = plugs
  BY DEF MapSurface
<1>2. /\ lock \in Locks /\ lock # NoLock /\ ~lock.abandoned
      /\ lo \in [Outputs -> Covers] /\ lo[o].tree # "none"
  BY <1>1, CoverFacts, SessionLockAssumption DEF KInv, LockOK, Locks
<1>3. c \in Covers /\ c.surface = "mapped" /\ c.tree = lo[o].tree
  BY <1>2 DEF Covers
<1>4. out[o] = "on" => c.tree = "enabled"
  BY <1>2, <1>3, CoverFacts
<1> HIDE DEF c
<1>5. OutputsOK'
  BY <1>1 DEF KInv, OutputsOK
<1>6. lock' \in Locks /\ lock'.abandoned = lock.abandoned
  BY <1>1, <1>2 DEF Locks
<1>7. Focused(lock', lo', kb')
  <2>1. Mapped(lo') = Mapped(lo) \cup {o}
    BY <1>1, <1>2, <1>3 DEF Mapped
  <2>2. Focused(lock, lo, kb)
    BY <1>2 DEF KInv
  <2>3. lock.focused = NoOutput => lock'.focused = o
    BY <1>1, <1>2 DEF Locks
  <2> QED BY <1>1, <2>1, <2>2, <2>3, SessionLockAssumption, Zenon DEF Focused, KbOf
<1>8. kb' \in {"none", "view"} \cup Outputs /\ up' \in BOOLEAN /\ secured' \in BOOLEAN
  BY <1>1 DEF KInv, LockOK
<1>9. /\ LockOK' /\ CoversOfLock' /\ OutputsCovered'
      /\ (lock # NoLock => Focused(lock, lo, kb))'
  BY <1>1, <1>2, <1>3, <1>4, <1>6, <1>7, <1>8, OneCover, Zenon
<1>10. TimerOK'
  BY <1>1 DEF KInv, TimerOK
<1> QED BY <1>5, <1>9, <1>10 DEF KInv

(* A lock surface goes, and with it perhaps the focus. *)
LEMMA StepDestroySurface ==
  ASSUME KInv, NEW o \in Outputs, DestroySurface(o)
  PROVE  KInv'
<1> DEFINE c == [lo[o] EXCEPT !.surface = "none"]
<1>1. /\ lo' = [lo EXCEPT ![o] = c] /\ lo[o].surface # "none"
      /\ damaged' = [damaged EXCEPT ![o] = @ \/ out[o] = "on"]
      /\ up' = up /\ secured' = secured /\ timer' = timer /\ out' = out /\ screen' = screen
      /\ flight' = flight /\ plugs' = plugs
  BY DEF DestroySurface
<1>2. PICK s \in FocusChoice(NoOutput, lo') :
        lock' = Refocused(o, lock, lo', s) /\ kb' = RefocusedKb(o, lock, s)
  BY DEF DestroySurface
<1>3. /\ lock \in Locks /\ lock # NoLock /\ ~lock.abandoned
      /\ lo \in [Outputs -> Covers] /\ lo[o].tree # "none"
  BY <1>1, CoverFacts, SessionLockAssumption DEF KInv, LockOK, Locks
<1>4. c \in Covers /\ c.surface = "none" /\ c.tree = lo[o].tree
  BY <1>3 DEF Covers
<1>5. out[o] = "on" => c.tree = "enabled"
  BY <1>3, <1>4, CoverFacts
<1> HIDE DEF c
<1>6. OutputsOK'
  BY <1>1 DEF KInv, OutputsOK
<1>7. /\ lock' \in Locks /\ lock'.abandoned = lock.abandoned
      /\ kb' \in {"none", "view"} \cup Outputs
      /\ Focused(lock', lo', kb')
  <2>1. Mapped(lo') = Mapped(lo) \ {o}
    BY <1>1, <1>3, <1>4 DEF Mapped
  <2>2. Focused(lock, lo, kb) /\ kb \in {"none", "view"} \cup Outputs
    BY <1>3 DEF KInv, LockOK
  <2>3. o # NoOutput
    BY SessionLockAssumption
  <2> DEFINE l == lo'
  <2> HIDE DEF l
  <2>4. /\ Refocused(o, lock, l, s) \in Locks
        /\ Refocused(o, lock, l, s).abandoned = lock.abandoned
        /\ RefocusedKb(o, lock, s) \in {"none", "view"} \cup Outputs
        /\ Focused(Refocused(o, lock, l, s), l, RefocusedKb(o, lock, s))
    BY <1>2, <1>3, <2>1, <2>2, <2>3, RefocusFacts DEF l
  <2> QED BY <1>2, <2>4 DEF l
<1>8. up' \in BOOLEAN /\ secured' \in BOOLEAN
  BY <1>1 DEF KInv, LockOK
<1>9. /\ LockOK' /\ CoversOfLock' /\ OutputsCovered'
      /\ (lock # NoLock => Focused(lock, lo, kb))'
  BY <1>1, <1>3, <1>4, <1>5, <1>7, <1>8, OneCover, Zenon
<1>10. TimerOK'
  BY <1>1 DEF KInv, TimerOK
<1> QED BY <1>6, <1>9, <1>10 DEF KInv

(* A click moves the focus to another lock surface. *)
LEMMA StepClick ==
  ASSUME KInv, NEW o \in Outputs, Click(o)
  PROVE  KInv'
<1>1. /\ lo[o].surface = "mapped" /\ lock' = [lock EXCEPT !.focused = o] /\ kb' = o
      /\ UNCHANGED outputVars /\ lo' = lo /\ timer' = timer /\ up' = up /\ secured' = secured
  BY DEF Click
<1>2. lock \in Locks /\ lock # NoLock
  BY <1>1, CoverFacts, SessionLockAssumption DEF Locks
<1>3. lock' \in Locks /\ lock'.abandoned = lock.abandoned /\ lock'.focused = o /\ lock' # NoLock
  BY <1>1, <1>2, SessionLockAssumption DEF Locks
<1>4. OutputsOK' /\ TimerOK'
  BY <1>1 DEF KInv, OutputsOK, TimerOK, outputVars
<1>5. LockOK'
  BY <1>1, <1>3 DEF KInv, LockOK
<1>6. CoversOfLock' /\ OutputsCovered'
  BY <1>1, <1>2, <1>3 DEF KInv, CoversOfLock, OutputsCovered, On, Held, outputVars
<1>7. (lock # NoLock => Focused(lock, lo, kb))'
  BY <1>1, <1>3, SessionLockAssumption DEF Focused, Mapped, KbOf
<1> QED BY <1>4, <1>5, <1>6, <1>7 DEF KInv

(* The lock is released. *)
LEMMA StepRelease ==
  ASSUME KInv, Release, secured' \in BOOLEAN
  PROVE  KInv'
<1>1. /\ lock' = NoLock /\ lo' = [o \in Outputs |-> NoCover]
      /\ damaged' = [o \in Outputs |-> o \in On \/ damaged[o]]
      /\ kb' \in {"none", "view"}
      /\ out' = out /\ flight' = flight /\ screen' = screen /\ plugs' = plugs
      /\ timer' = timer /\ up' = up
  BY DEF Release
<1>2. OutputsOK'
  <2>1. damaged' \in [Outputs -> BOOLEAN]
    BY <1>1 DEF KInv, OutputsOK
  <2> QED BY <1>1, <2>1 DEF KInv, OutputsOK
<1>3. LockOK'
  BY <1>1 DEF KInv, LockOK, Covers, NoCover
<1>4. TimerOK'
  BY <1>1 DEF KInv, TimerOK
<1>5. CoversOfLock' /\ OutputsCovered'
  BY <1>1 DEF CoversOfLock, OutputsCovered, NoCover
<1> QED BY <1>1, <1>2, <1>3, <1>4, <1>5 DEF KInv

(* The client unlocks. *)
LEMMA StepUnlock ==
  ASSUME KInv, Unlock
  PROVE  KInv'
BY StepRelease, Zenon DEF Unlock

(* The client is gone: the lock is released or abandoned. *)
LEMMA StepLockerGone ==
  ASSUME KInv, LockerGone
  PROVE  KInv'
<1>1. CASE ~lock.locked /\ Release /\ secured' = secured
  BY <1>1, StepRelease DEF KInv, LockOK
<1>2. CASE /\ Held /\ lock.locked
           /\ lock' = [abandoned |-> TRUE, locked |-> TRUE, focused |-> NoOutput]
           /\ lo' = [o \in Outputs |-> [lo[o] EXCEPT !.surface = "none"]]
           /\ damaged' = [o \in Outputs |-> o \in On \/ damaged[o]]
           /\ kb' = KbOf(NoOutput)
           /\ timer' = [armed |-> TRUE, attempts |-> 0]
           /\ UNCHANGED <<out, flight, screen, plugs, up, secured>>
  <2>1. /\ lock' \in Locks /\ lock'.focused = NoOutput /\ kb' = "none"
        /\ lock # NoLock /\ lo \in [Outputs -> Covers]
    BY <1>2 DEF Locks, KbOf, Held, KInv, LockOK
  <2>2. lock' # NoLock
    BY <2>1, SessionLockAssumption DEF Locks
  <2>3. \A o \in Outputs : /\ lo'[o] \in Covers /\ lo'[o].surface = "none"
                          /\ lo'[o].tree = lo[o].tree
    BY <1>2, <2>1 DEF Covers
  <2>4. lo' \in [Outputs -> Covers]
    BY <1>2, <2>3
  <2>5. OutputsOK'
    <3>1. damaged' \in [Outputs -> BOOLEAN]
      BY <1>2 DEF KInv, OutputsOK
    <3> QED BY <1>2, <3>1 DEF KInv, OutputsOK
  <2>6. LockOK'
    BY <1>2, <2>1, <2>4 DEF KInv, LockOK
  <2>7. TimerOK'
    BY <1>2, SessionLockAssumption DEF TimerOK
  <2>8. CoversOfLock'
    BY <2>2, <2>3 DEF CoversOfLock
  <2>9. OutputsCovered'
    BY <1>2, <2>1, <2>3 DEF KInv, OutputsCovered, On
  <2>10. (lock # NoLock => Focused(lock, lo, kb))'
    <3>1. Focused(lock', lo', "none")
      BY <2>1, <2>3, NothingMapped
    <3> QED BY <2>1, <3>1 DEF Focused, Mapped, KbOf
  <2> QED BY <2>5, <2>6, <2>7, <2>8, <2>9, <2>10 DEF KInv
<1> QED BY <1>1, <1>2, Zenon DEF LockerGone

(* The recovery timer fires. *)
LEMMA StepRecoveryTimer ==
  ASSUME KInv, RecoveryTimer
  PROVE  KInv'
<1>1. /\ lock' = lock /\ lo' = lo /\ kb' = kb /\ up' = up /\ secured' = secured
      /\ UNCHANGED outputVars
  BY DEF RecoveryTimer
<1>2. OutputsOK'
  BY <1>1 DEF KInv, OutputsOK, outputVars
<1>3. TimerOK'
  <2>1. timer.attempts \in 0..MaxAttempts /\ timer.attempts < MaxAttempts
    BY DEF KInv, TimerOK, RecoveryTimer
  <2> DEFINE again == TimerArmed(timer.attempts + 1)
  <2>2. \/ timer' = [armed |-> FALSE, attempts |-> 0]
        \/ timer' = [armed |-> again, attempts |-> timer.attempts + 1]
    BY DEF RecoveryTimer
  <2>3. timer.attempts + 1 \in 0..MaxAttempts /\ 0 \in 0..MaxAttempts
    BY <2>1, SessionLockAssumption
  <2>4. again \in BOOLEAN /\ (again => timer.attempts + 1 < MaxAttempts)
    BY DEF TimerArmed
  <2> HIDE DEF again
  <2>5. timer' \in [armed : BOOLEAN, attempts : 0..MaxAttempts]
    <3>1. \A b \in BOOLEAN, n \in 0..MaxAttempts :
            [armed |-> b, attempts |-> n] \in [armed : BOOLEAN, attempts : 0..MaxAttempts]
      OBVIOUS
    <3> QED BY <2>2, <2>3, <2>4, <3>1, Zenon
  <2>6. timer'.armed => timer'.attempts < MaxAttempts
    <3>1. CASE timer' = [armed |-> FALSE, attempts |-> 0]
      BY <3>1
    <3>2. CASE timer' = [armed |-> again, attempts |-> timer.attempts + 1]
      <4>1. timer'.armed = again /\ timer'.attempts = timer.attempts + 1
        BY <3>2, Zenon
      <4> QED BY <2>4, <4>1, Zenon
    <3> QED BY <2>2, <3>1, <3>2
  <2> QED BY <2>5, <2>6 DEF TimerOK
<1>4. /\ LockOK' /\ CoversOfLock' /\ OutputsCovered'
      /\ (lock # NoLock => Focused(lock, lo, kb))'
  <2>1. up' \in BOOLEAN /\ secured' \in BOOLEAN /\ out' = out
    BY <1>1 DEF KInv, LockOK, outputVars
  <2> QED BY <1>1, <2>1, NoCoverChanges
<1> QED BY <1>2, <1>3, <1>4 DEF KInv

(* The manager goes. *)
LEMMA StepManagerDestroy ==
  ASSUME KInv, ManagerDestroy
  PROVE  KInv'
<1>1. /\ up' = FALSE /\ lock' = NoLock /\ lo' = [o \in Outputs |-> NoCover]
      /\ kb' \in {kb, "none"} /\ timer' = [armed |-> FALSE, attempts |-> 0] /\ secured' = FALSE
      /\ UNCHANGED outputVars
  BY DEF ManagerDestroy, KbOf
<1>2. OutputsOK'
  BY <1>1 DEF KInv, OutputsOK, outputVars
<1>3. LockOK'
  BY <1>1, Zenon DEF KInv, LockOK, Covers, NoCover
<1>4. TimerOK'
  BY <1>1, SessionLockAssumption DEF TimerOK
<1>5. CoversOfLock' /\ OutputsCovered'
  BY <1>1 DEF CoversOfLock, OutputsCovered, NoCover
<1> QED BY <1>1, <1>2, <1>3, <1>4, <1>5 DEF KInv

(* Another part of the compositor moves the focus. *)
LEMMA StepFocusRequest ==
  ASSUME KInv, NEW k \in {"none", "view"}, FocusRequest(k)
  PROVE  KInv'
<1>1. /\ lock' = lock /\ lo' = lo /\ timer' = timer /\ up' = up /\ secured' = secured
      /\ UNCHANGED outputVars
  BY DEF FocusRequest
<1>2. OutputsOK' /\ TimerOK'
  BY <1>1 DEF KInv, OutputsOK, TimerOK, outputVars
<1>3. CASE lock = NoLock /\ kb' = k
  <2>1. LockOK'
    BY <1>1, <1>3 DEF KInv, LockOK
  <2>2. CoversOfLock' /\ OutputsCovered'
    BY <1>1, <1>3 DEF KInv, CoversOfLock, OutputsCovered, Held
  <2> QED BY <1>1, <1>2, <1>3, <2>1, <2>2 DEF KInv
<1>4. CASE lock # NoLock /\ \E s \in FocusChoice(lock.focused, lo) : kb' = KbOf(s)
  <2>1. Focused(lock, lo, kb)
    BY <1>4 DEF KInv
  <2>2. kb' = kb
    BY <1>4, <2>1 DEF Focused, FocusChoice
  <2>3. up' \in BOOLEAN /\ secured' \in BOOLEAN /\ out' = out
    BY <1>1 DEF KInv, LockOK, outputVars
  <2>4. /\ LockOK' /\ CoversOfLock' /\ OutputsCovered'
        /\ (lock # NoLock => Focused(lock, lo, kb))'
    BY <1>1, <2>2, <2>3, NoCoverChanges
  <2> QED BY <1>2, <2>4 DEF KInv
<1> QED BY <1>3, <1>4 DEF FocusRequest

-----------------------------------------------------------------------------
(* A connector is plugged in. *)
LEMMA StepAddOutput ==
  ASSUME KInv, NEW o \in Outputs, AddOutput(o)
  PROVE  KInv'
<1>1. /\ lock' = lock /\ lo' = lo /\ kb' = kb /\ up' = up /\ secured' = secured
      /\ timer' = timer /\ flight' = flight /\ screen' = screen /\ damaged' = damaged
      /\ plugs < MaxPlugs /\ plugs' = plugs + 1 /\ out' = [out EXCEPT ![o] = "off"]
  BY DEF AddOutput
<1>2. OutputsOK'
  BY <1>1, SessionLockAssumption DEF KInv, OutputsOK
<1>3. TimerOK'
  BY <1>1 DEF KInv, TimerOK
<1>4. /\ LockOK' /\ CoversOfLock' /\ OutputsCovered'
      /\ (lock # NoLock => Focused(lock, lo, kb))'
  <2>1. up' \in BOOLEAN /\ secured' \in BOOLEAN /\ \A p \in Outputs : out'[p] = "on" => out[p] = "on"
    BY <1>1 DEF KInv, LockOK, OutputsOK
  <2> QED BY <1>1, <2>1, NoCoverChanges
<1> QED BY <1>2, <1>3, <1>4 DEF KInv

(* An output is switched on, and covered if there is a lock. *)
LEMMA StepEnableOutput ==
  ASSUME KInv, NEW o \in Outputs, EnableOutput(o)
  PROVE  KInv'
<1> DEFINE c == NewOutput(o)
<1>1. /\ lock' = lock /\ kb' = kb /\ up' = up /\ secured' = secured /\ timer' = timer
      /\ flight' = flight /\ screen' = [screen EXCEPT ![o] = "blank"]
      /\ damaged' = [damaged EXCEPT ![o] = TRUE]
      /\ plugs < MaxPlugs /\ plugs' = plugs + 1 /\ out' = [out EXCEPT ![o] = "on"]
      /\ lo' = IF lock = NoLock THEN lo ELSE [lo EXCEPT ![o] = c]
  BY DEF EnableOutput
<1>2. OutputsOK'
  BY <1>1, SessionLockAssumption DEF KInv, OutputsOK
<1>3. TimerOK'
  BY <1>1 DEF KInv, TimerOK
<1>4. /\ lo \in [Outputs -> Covers] /\ kb \in {"none", "view"} \cup Outputs
      /\ lock \in Locks \cup {NoLock} /\ up' \in BOOLEAN /\ secured' \in BOOLEAN
  BY <1>1 DEF KInv, LockOK
<1>5. CASE lock = NoLock
  <2>1. LockOK'
    BY <1>1, <1>5 DEF KInv, LockOK
  <2>2. CoversOfLock' /\ OutputsCovered'
    BY <1>1, <1>5 DEF KInv, CoversOfLock, OutputsCovered, Held
  <2> QED BY <1>1, <1>2, <1>3, <1>5, <2>1, <2>2 DEF KInv
<1>6. CASE lock # NoLock
  <2>1. c \in Covers /\ c.tree = "enabled" /\ c.surface = lo[o].surface
    BY <1>4, Zenon DEF NewOutput, Covers
  <2>2. c.surface # "none" => ~lock.abandoned
    BY <2>1, CoverFacts
  <2> HIDE DEF c
  <2>3. Focused(lock', lo', kb')
    <3>1. Mapped(lo') = Mapped(lo)
      BY <1>1, <1>4, <1>6, <2>1 DEF Mapped
    <3> QED BY <1>1, <1>6, <3>1, Zenon DEF KInv, Focused
  <2>4. \A p \in Outputs \ {o} : out'[p] = out[p]
    BY <1>1 DEF KInv, OutputsOK
  <2>5. /\ LockOK' /\ CoversOfLock' /\ OutputsCovered'
        /\ (lock # NoLock => Focused(lock, lo, kb))'
    BY <1>1, <1>4, <1>6, <2>1, <2>2, <2>3, <2>4, OneCover, Zenon
  <2> QED BY <1>2, <1>3, <2>5 DEF KInv
<1> QED BY <1>5, <1>6

(* What switching off or removing an output does to the outputs. *)
LEMMA OutputGone ==
  ASSUME OutputsOK, NEW o \in Outputs, NEW st \in {"absent", "off"},
         out' = [out EXCEPT ![o] = st], flight' = [flight EXCEPT ![o] = <<>>],
         screen' = [screen EXCEPT ![o] = "blank"], damaged' = [damaged EXCEPT ![o] = FALSE],
         plugs' = plugs
  PROVE  OutputsOK'
<1>1. <<>> \in Seq(Frames) /\ Len(<<>>) <= MaxInFlight
  BY SessionLockAssumption
<1>2. flight' \in [Outputs -> Seq(Frames)] /\ \A p \in Outputs : Len(flight'[p]) <= MaxInFlight
  BY <1>1 DEF OutputsOK
<1> QED BY <1>2 DEF OutputsOK

(* An output is switched off; the locked event may be due. *)
LEMMA StepDisableOutput ==
  ASSUME KInv, NEW o \in Outputs, DisableOutput(o)
  PROVE  KInv'
<1> DEFINE c == [lo[o] EXCEPT !.tree = "disabled"]
<1>1. /\ kb' = kb /\ up' = up /\ timer' = timer /\ plugs' = plugs
      /\ out' = [out EXCEPT ![o] = "off"] /\ flight' = [flight EXCEPT ![o] = <<>>]
      /\ screen' = [screen EXCEPT ![o] = "blank"] /\ damaged' = [damaged EXCEPT ![o] = FALSE]
      /\ IF lo[o].tree = "none"
         THEN lo' = lo /\ lock' = lock /\ secured' = secured
         ELSE /\ lo' = [lo EXCEPT ![o] = c] /\ lock' = TrySend(lock, out', lo')
              /\ secured' = (secured \/ lock'.locked)
  BY DEF DisableOutput
<1>2. OutputsOK'
  BY <1>1, OutputGone, Zenon DEF KInv
<1>3. TimerOK'
  BY <1>1 DEF KInv, TimerOK
<1>4. /\ lo \in [Outputs -> Covers] /\ kb \in {"none", "view"} \cup Outputs
      /\ up' \in BOOLEAN /\ secured \in BOOLEAN
      /\ out'[o] = "off" /\ \A p \in Outputs \ {o} : out'[p] = out[p]
  BY <1>1 DEF KInv, LockOK, OutputsOK
<1>5. CASE lo[o].tree = "none"
  BY <1>1, <1>2, <1>3, <1>4, <1>5, NoCoverChanges DEF KInv
<1>6. CASE lo[o].tree # "none"
  <2>1. lock \in Locks /\ lock # NoLock
    BY <1>6, CoverFacts, SessionLockAssumption DEF Locks
  <2>2. c \in Covers /\ c.tree = "disabled" /\ c.surface = lo[o].surface
    BY <1>4 DEF Covers
  <2>3. c.surface # "none" => ~lock.abandoned
    BY <2>2, CoverFacts
  <2> HIDE DEF c
  <2>4. lock' \in Locks /\ lock'.focused = lock.focused /\ lock'.abandoned = lock.abandoned
    BY <1>1, <1>6, <2>1, TrySendFacts
  <2>5. secured' \in BOOLEAN
    BY <1>1, <1>4, <1>6, <2>4 DEF Locks
  <2>6. Focused(lock', lo', kb')
    <3>1. Mapped(lo') = Mapped(lo)
      BY <1>1, <1>4, <1>6, <2>2 DEF Mapped
    <3> QED BY <1>1, <2>1, <2>4, <3>1 DEF KInv, Focused
  <2>7. /\ LockOK' /\ CoversOfLock' /\ OutputsCovered'
        /\ (lock # NoLock => Focused(lock, lo, kb))'
    BY <1>1, <1>4, <1>6, <2>1, <2>2, <2>3, <2>4, <2>5, <2>6, OneCover, Zenon
  <2> QED BY <1>2, <1>3, <2>7 DEF KInv
<1> QED BY <1>5, <1>6

(* An output is removed, with its cover and the surface on it. *)
LEMMA StepDestroyOutput ==
  ASSUME KInv, NEW o \in Outputs, DestroyOutput(o)
  PROVE  KInv'
<1> DEFINE removed == IF lo[o].surface = "none" THEN NoOutput ELSE o
<1>1. /\ up' = up /\ timer' = timer /\ plugs' = plugs
      /\ out' = [out EXCEPT ![o] = "absent"] /\ flight' = [flight EXCEPT ![o] = <<>>]
      /\ screen' = [screen EXCEPT ![o] = "blank"] /\ damaged' = [damaged EXCEPT ![o] = FALSE]
      /\ lo' = [lo EXCEPT ![o] = NoCover]
  BY DEF DestroyOutput
<1>2. OutputsOK'
  BY <1>1, OutputGone, Zenon DEF KInv
<1>3. TimerOK'
  BY <1>1 DEF KInv, TimerOK
<1>4. /\ lo \in [Outputs -> Covers] /\ kb \in {"none", "view"} \cup Outputs
      /\ up' \in BOOLEAN /\ secured \in BOOLEAN
      /\ out'[o] = "absent" /\ \A p \in Outputs \ {o} : out'[p] = out[p]
  BY <1>1 DEF KInv, LockOK, OutputsOK
<1>5. NoCover \in Covers /\ NoCover.surface = "none"
  BY DEF NoCover, Covers
<1>6. Mapped(lo') = Mapped(lo) \ {o}
  BY <1>1, <1>4, <1>5 DEF Mapped
<1>7. CASE lo[o].tree = "none"
  <2>1. lock' = lock /\ kb' = kb /\ secured' = secured
    BY <1>7 DEF DestroyOutput
  <2>2. lo[o].surface = "none"
    BY <1>7, CoverFacts
  <2>3. LockOK'
    BY <1>1, <1>4, <1>5, <2>1 DEF KInv, LockOK
  <2>4. CoversOfLock' /\ OutputsCovered'
    BY <1>1, <1>4, <1>5, <2>1 DEF KInv, CoversOfLock, OutputsCovered, On, Held
  <2>5. (lock # NoLock => Focused(lock, lo, kb))'
    <3>1. Mapped(lo') = Mapped(lo)
      BY <1>6, <2>2 DEF Mapped
    <3> QED BY <2>1, <3>1 DEF KInv, Focused, KbOf, Mapped
  <2> QED BY <1>2, <1>3, <2>3, <2>4, <2>5 DEF KInv
<1>8. CASE lo[o].tree # "none"
  <2>1. PICK s \in FocusChoice(NoOutput, lo') :
          /\ lock' = TrySend(Refocused(removed, lock, lo', s), out', lo')
          /\ kb' = RefocusedKb(removed, lock, s)
          /\ secured' = (secured \/ lock'.locked)
    BY <1>8, Zenon DEF DestroyOutput
  <2>2. lock \in Locks /\ lock # NoLock
    BY <1>8, CoverFacts, SessionLockAssumption DEF Locks
  <2>3. removed \in {o, NoOutput} /\ (removed = NoOutput => o \notin Mapped(lo))
    BY SessionLockAssumption DEF Mapped
  <2>4. Focused(lock, lo, kb)
    BY <2>2 DEF KInv
  <2> DEFINE l == lo'
             lk == Refocused(removed, lock, l, s)
             k == RefocusedKb(removed, lock, s)
  <2> HIDE DEF l, removed
  <2>5. /\ lk \in Locks /\ lk.abandoned = lock.abandoned
        /\ k \in {"none", "view"} \cup Outputs /\ Focused(lk, l, k)
    BY <1>4, <1>6, <2>1, <2>2, <2>3, <2>4, RefocusFacts DEF l
  <2> HIDE DEF lk, k
  <2>6. lock' = TrySend(lk, out', lo') /\ kb' = k
    BY <2>1 DEF l, lk, k
  <2>7. lock' \in Locks /\ lock'.focused = lk.focused /\ lock'.abandoned = lock.abandoned
    BY <2>5, <2>6, TrySendFacts
  <2>8. secured' \in BOOLEAN
    BY <1>4, <2>1, <2>7 DEF Locks
  <2>9. Focused(lock', lo', kb')
    BY <2>5, <2>6, <2>7 DEF Focused, l
  <2>10. kb' \in {"none", "view"} \cup Outputs
    BY <2>5, <2>6
  <2>11. /\ LockOK' /\ CoversOfLock' /\ OutputsCovered'
         /\ (lock # NoLock => Focused(lock, lo, kb))'
    BY <1>1, <1>4, <1>5, <2>2, <2>7, <2>8, <2>9, <2>10, OneCover, Zenon
  <2> QED BY <1>2, <1>3, <2>11 DEF KInv
<1> QED BY <1>7, <1>8

(* The scene changes. *)
LEMMA StepDamage ==
  ASSUME KInv, NEW o \in Outputs, Damage(o)
  PROVE  KInv'
<1>1. /\ damaged' = [damaged EXCEPT ![o] = TRUE] /\ out' = out /\ flight' = flight
      /\ screen' = screen /\ plugs' = plugs /\ lock' = lock /\ lo' = lo /\ kb' = kb
      /\ timer' = timer /\ up' = up /\ secured' = secured
  BY DEF Damage
<1>2. OutputsOK' /\ TimerOK'
  BY <1>1 DEF KInv, OutputsOK, TimerOK
<1>3. up' \in BOOLEAN /\ secured' \in BOOLEAN
  BY <1>1 DEF KInv, LockOK
<1> QED BY <1>1, <1>2, <1>3, NoCoverChanges DEF KInv

(* A frame is committed. *)
LEMMA StepCommit ==
  ASSUME KInv, NEW o \in Outputs, Commit(o)
  PROVE  KInv'
<1> DEFINE f == [content |-> IF lo[o].tree = "enabled" THEN "lock" ELSE "session",
                 previous |-> FALSE]
<1>1. /\ damaged' = [damaged EXCEPT ![o] = FALSE] /\ Len(flight[o]) < MaxInFlight
      /\ flight' = [flight EXCEPT ![o] = Append(@, f)]
      /\ out' = out /\ screen' = screen /\ plugs' = plugs /\ lock' = lock /\ lo' = lo
      /\ kb' = kb /\ timer' = timer /\ up' = up /\ secured' = secured
  BY DEF Commit
<1>2. f \in Frames
  BY DEF Frames
<1>3. flight \in [Outputs -> Seq(Frames)] /\ \A p \in Outputs : Len(flight[p]) <= MaxInFlight
  BY DEF KInv, OutputsOK
<1> HIDE DEF f
<1>4. Append(flight[o], f) \in Seq(Frames) /\ Len(Append(flight[o], f)) <= MaxInFlight
  BY <1>1, <1>2, <1>3, SessionLockAssumption
<1>5. flight' \in [Outputs -> Seq(Frames)] /\ \A p \in Outputs : Len(flight'[p]) <= MaxInFlight
  BY <1>1, <1>3, <1>4
<1>6. OutputsOK' /\ TimerOK'
  BY <1>1, <1>5 DEF KInv, OutputsOK, TimerOK
<1>7. up' \in BOOLEAN /\ secured' \in BOOLEAN
  BY <1>1 DEF KInv, LockOK
<1> QED BY <1>1, <1>6, <1>7, NoCoverChanges DEF KInv

(* The head and the rest of the frames in flight. *)
LEMMA FlightFacts ==
  ASSUME NEW fs \in Seq(Frames), fs # <<>>
  PROVE  /\ Head(fs) \in Frames /\ Tail(fs) \in Seq(Frames) /\ Len(Tail(fs)) = Len(fs) - 1
         /\ Head(fs) = fs[1] /\ 1 \in DOMAIN fs
         /\ \A i \in DOMAIN Tail(fs) : i + 1 \in DOMAIN fs /\ Tail(fs)[i] = fs[i + 1]
OBVIOUS

(* A frame is presented or discarded; the locked event may be due. *)
LEMMA StepPresent ==
  ASSUME KInv, NEW o \in Outputs, NEW presented \in BOOLEAN, Present(o, presented)
  PROVE  KInv'
<1> DEFINE counts == lo[o].tree # "none" /\ ~lo[o].presented /\ ~Head(flight[o]).previous
           c == [lo[o] EXCEPT !.presented = TRUE]
<1>1. /\ flight[o] # <<>> /\ flight' = [flight EXCEPT ![o] = Tail(@)]
      /\ screen' = [screen EXCEPT ![o] = IF presented THEN Head(flight[o]).content ELSE @]
      /\ damaged' = [damaged EXCEPT ![o] = @ \/ (counts /\ ~presented)]
      /\ IF counts /\ presented
         THEN /\ lo' = [lo EXCEPT ![o] = c] /\ lock' = TrySend(lock, out, lo')
              /\ secured' = (secured \/ lock'.locked)
         ELSE lo' = lo /\ lock' = lock /\ secured' = secured
      /\ out' = out /\ plugs' = plugs /\ kb' = kb /\ timer' = timer /\ up' = up
  BY DEF Present
<1>2. /\ lo \in [Outputs -> Covers] /\ kb \in {"none", "view"} \cup Outputs
      /\ up' \in BOOLEAN /\ secured \in BOOLEAN
      /\ flight \in [Outputs -> Seq(Frames)] /\ \A p \in Outputs : Len(flight[p]) <= MaxInFlight
  BY <1>1 DEF KInv, LockOK, OutputsOK
<1>3. OutputsOK'
  <2>1. /\ Head(flight[o]).content \in {"session", "lock"} /\ Tail(flight[o]) \in Seq(Frames)
        /\ Len(Tail(flight[o])) <= MaxInFlight
    BY <1>1, <1>2, FlightFacts, SessionLockAssumption DEF Frames
  <2>2. flight' \in [Outputs -> Seq(Frames)] /\ \A p \in Outputs : Len(flight'[p]) <= MaxInFlight
    BY <1>1, <1>2, <2>1
  <2>3. screen' \in [Outputs -> {"blank", "session", "lock"}] /\ damaged' \in [Outputs -> BOOLEAN]
    BY <1>1, <2>1 DEF KInv, OutputsOK
  <2> QED BY <1>1, <2>2, <2>3 DEF KInv, OutputsOK
<1>4. TimerOK'
  BY <1>1 DEF KInv, TimerOK
<1>5. CASE ~(counts /\ presented)
  BY <1>1, <1>2, <1>3, <1>4, <1>5, NoCoverChanges DEF KInv
<1>6. CASE counts /\ presented
  <2>1. lock \in Locks /\ lock # NoLock
    BY <1>6, CoverFacts, SessionLockAssumption DEF Locks
  <2>2. c \in Covers /\ c.tree = lo[o].tree /\ c.surface = lo[o].surface
    BY <1>2, Zenon DEF Covers
  <2>3. /\ c.surface # "none" => c.tree # "none" /\ ~lock.abandoned
        /\ out[o] = "on" => c.tree = "enabled"
    BY <2>1, <2>2, CoverFacts
  <2> HIDE DEF c
  <2>4. lock' \in Locks /\ lock'.focused = lock.focused /\ lock'.abandoned = lock.abandoned
    BY <1>1, <1>6, <2>1, TrySendFacts
  <2>5. secured' \in BOOLEAN
    BY <1>1, <1>2, <1>6, <2>4 DEF Locks
  <2>6. Focused(lock', lo', kb')
    <3>1. Mapped(lo') = Mapped(lo)
      BY <1>1, <1>2, <1>6, <2>2, Zenon DEF Mapped
    <3> QED BY <1>1, <2>1, <2>4, <3>1 DEF KInv, Focused
  <2>7. /\ LockOK' /\ CoversOfLock' /\ OutputsCovered'
        /\ (lock # NoLock => Focused(lock, lo, kb))'
    BY <1>1, <1>2, <1>6, <2>1, <2>2, <2>3, <2>4, <2>5, <2>6, OneCover
  <2> QED BY <1>3, <1>4, <2>7 DEF KInv
<1> QED BY <1>5, <1>6

(* Every step keeps the invariant. *)
LEMMA StepKInv == KInv /\ [Next]_vars => KInv'
<1> SUFFICES ASSUME KInv, [Next]_vars PROVE KInv'
  OBVIOUS
<1>1. CASE LockerStep
  BY <1>1, StepNewLock, StepNewLockFails, StepUnlock, StepLockerGone, StepNewSurface,
     StepMapSurface, StepDestroySurface, StepClick DEF LockerStep
<1>2. CASE OutputStep
  BY <1>2, StepAddOutput, StepEnableOutput, StepDisableOutput, StepDestroyOutput,
     StepDamage, StepCommit, StepPresent DEF OutputStep
<1>3. CASE RecoveryTimer \/ ManagerDestroy \/ \E k \in {"none", "view"} : FocusRequest(k)
  BY <1>3, StepRecoveryTimer, StepManagerDestroy, StepFocusRequest
<1>4. CASE UNCHANGED vars
  BY <1>4 DEF vars, KInv, OutputsOK, LockOK, TimerOK, CoversOfLock, OutputsCovered, On, Held,
     Focused, Mapped, KbOf
<1> QED BY <1>1, <1>2, <1>3, <1>4 DEF Next

-----------------------------------------------------------------------------
(* NULL is no lock. *)
LEMMA NoLockIsNone == NoLock \notin Locks
BY SessionLockAssumption DEF Locks

(* Nothing of the session is or comes on the screen of o. *)
Safe(o) ==
  /\ screen[o] # "session"
  /\ \A i \in DOMAIN flight[o] : flight[o][i].content # "session"

(* Why the locked event is not sent too early: a frame of the session that is
   in flight is the marked one, and an output that counts as presented, or any
   once locked is sent, is safe.  What is off has no frame in flight. *)
Shielded ==
  \A o \in Outputs :
    /\ out[o] # "on" => flight[o] = <<>>
    /\ lock # NoLock /\ out[o] = "on" =>
         /\ \A i \in DOMAIN flight[o] : flight[o][i].content = "session" => flight[o][i].previous
         /\ lo[o].presented \/ lock.locked => Safe(o)

(* At first there is no lock and no frame in flight. *)
LEMMA InitShielded == Init => Shielded
BY Zenon DEF Init, Shielded

(* A step that leaves the screens and the frames alone, and lets no output
   count that did not count before. *)
LEMMA NothingCounts ==
  ASSUME KInv, Shielded, out' = out, flight' = flight, screen' = screen,
         lock' # NoLock => lock # NoLock /\ (lock'.locked => lock.locked),
         lock' # NoLock => \A o \in Outputs : lo'[o].presented => lo[o].presented
  PROVE  Shielded'
BY DEF Shielded, Safe

(* Outputs that do not count have nothing to fulfil: no lock is left. *)
LEMMA NothingLocked ==
  ASSUME Shielded, lock' = NoLock, out' = out, flight' = flight
  PROVE  Shielded'
BY DEF Shielded

(* The locked event, sent because every output that is on has presented. *)
LEMMA SentIsSafe ==
  ASSUME NEW lk \in Locks, lock' = TrySend(lk, out', lo'), lock' # NoLock,
         \A o \in Outputs : out'[o] = "on" => lo'[o].tree = "enabled",
         \A o \in Outputs : out'[o] = "on" =>
           (lo'[o].presented \/ lk.locked => Safe(o)')
  PROVE  \A o \in Outputs : out'[o] = "on" => (lo'[o].presented \/ lock'.locked => Safe(o)')
<1>1. lock'.locked => lk.locked \/ CanSend(out', lo')
  BY TrySendFacts
<1>2. CASE CanSend(out', lo')
  <2>1. \A o \in Outputs : out'[o] = "on" => lo'[o].presented
    BY <1>2 DEF CanSend
  <2> QED BY <2>1
<1>3. CASE ~CanSend(out', lo')
  BY <1>1, <1>3
<1> QED BY <1>2, <1>3

(* A frame that was in flight when the lock came is marked: there is only one. *)
LEMMA MarkedAll ==
  ASSUME MaxInFlight = 1, NEW fs \in Seq(Frames), Len(fs) <= MaxInFlight
  PROVE  \A i \in DOMAIN Marked(fs) : Marked(fs)[i].previous
<1>1. Marked(fs) \in Seq(Frames) /\ Len(Marked(fs)) = Len(fs) /\ DOMAIN Marked(fs) = 1..Len(fs)
  BY MarkedFacts
<1> SUFFICES ASSUME NEW i \in DOMAIN Marked(fs) PROVE Marked(fs)[i].previous
  OBVIOUS
<1>2. i \in DOMAIN fs /\ i = Len(fs)
  BY <1>1
<1> QED BY <1>2, MarkedFacts, Zenon

(* Marking no frame. *)
LEMMA MarkedEmpty == Marked(<<>>) = <<>>
<1>1. <<>> \in Seq(Frames) /\ Len(<<>>) = 0
  OBVIOUS
<1>2. Marked(<<>>) \in Seq(Frames) /\ Len(Marked(<<>>)) = 0
  BY <1>1, MarkedFacts, ZenonT(40)
<1> QED BY <1>2

(* A new lock, which replaces an abandoned one at most. *)
LEMMA ShieldNewLock ==
  ASSUME MaxInFlight = 1, KInv, Shielded, NewLock, KInv'
  PROVE  Shielded'
<1> DEFINE lk == [abandoned |-> FALSE, locked |-> FALSE, focused |-> NoOutput]
<1>1. /\ lo' = [o \in Outputs |-> IF o \in On THEN Cover(o) ELSE NoCover]
      /\ flight' = [o \in Outputs |-> IF o \in On THEN Marked(flight[o]) ELSE flight[o]]
      /\ lock' = TrySend(lk, out', lo') /\ out' = out /\ screen' = screen
  BY DEF NewLock
<1>2. lk \in Locks /\ ~lk.locked
  BY DEF Locks
<1> HIDE DEF lk
<1>3. lock' \in Locks /\ lock' # NoLock
  BY <1>1, <1>2, TrySendFacts, SessionLockAssumption, SMTT(30) DEF Locks
<1>4. \A o \in Outputs : out'[o] = "on" => lo'[o].tree = "enabled" /\ ~lo'[o].presented
  BY <1>1, ZenonT(40) DEF On, Cover
<1>5. \A o \in Outputs : out'[o] = "on" => (lo'[o].presented \/ lock'.locked => Safe(o)')
  <2> HIDE DEF Safe
  <2> QED BY <1>1, <1>2, <1>3, <1>4, SentIsSafe
<1>6. \A o \in Outputs : flight[o] \in Seq(Frames) /\ Len(flight[o]) <= MaxInFlight
  BY DEF KInv, OutputsOK
<1>7. \A o \in Outputs : out'[o] = "on" => \A i \in DOMAIN flight'[o] : flight'[o][i].previous
  BY <1>1, <1>6, MarkedAll DEF On
<1>8. \A o \in Outputs : out'[o] # "on" => flight'[o] = <<>>
  BY <1>1 DEF Shielded, On
<1> QED BY <1>5, <1>7, <1>8 DEF Shielded

(* A lock surface, with the cover of an output that is off. *)
LEMMA ShieldNewSurface ==
  ASSUME KInv, Shielded, NEW o \in Outputs, NewSurface(o)
  PROVE  Shielded'
<1> DEFINE was == IF lo[o].tree = "none" THEN Cover(o) ELSE lo[o]
           c == [was EXCEPT !.surface = "created"]
<1>1. /\ lo' = [lo EXCEPT ![o] = c] /\ lock' = lock /\ lock # NoLock
      /\ flight' = [flight EXCEPT ![o] = IF lo[o].tree = "none" THEN Marked(@) ELSE @]
      /\ out' = out /\ screen' = screen
  BY DEF NewSurface, Held
<1>2. lo \in [Outputs -> Covers] /\ flight \in [Outputs -> Seq(Frames)]
  BY DEF KInv, LockOK, OutputsOK
<1>3. flight' = flight
  <2>1. lo[o].tree = "none" => flight[o] = <<>>
    BY <1>1 DEF KInv, OutputsCovered, On, Shielded
  <2> QED BY <1>1, <1>2, <2>1, MarkedEmpty
<1>4. c.presented => lo[o].presented
  <2>1. was \in Covers /\ (was.presented => lo[o].presented)
    BY <1>2 DEF Cover, Covers
  <2> HIDE DEF was
  <2> QED BY <2>1 DEF Covers
<1> HIDE DEF c
<1>5. \A p \in Outputs : lo'[p].presented => lo[p].presented
  BY <1>1, <1>2, <1>4
<1> QED BY <1>1, <1>3, <1>5, NothingCounts

(* The lock client's other requests and its end. *)
LEMMA ShieldLocker ==
  ASSUME KInv, Shielded,
         \/ NewLockFails \/ Unlock \/ LockerGone
         \/ \E o \in Outputs : MapSurface(o) \/ DestroySurface(o) \/ Click(o)
  PROVE  Shielded'
<1>1. lo \in [Outputs -> Covers] /\ lock \in Locks \cup {NoLock}
  BY DEF KInv, LockOK
<1>2. CASE NewLockFails
  BY <1>2, NothingCounts DEF NewLockFails, outputVars
<1>3. CASE Unlock
  BY <1>3, NothingLocked DEF Unlock, Release
<1>4. CASE LockerGone
  <2>1. CASE Release
    BY <2>1, NothingLocked DEF Release
  <2>2. CASE /\ lock.locked
             /\ lock' = [abandoned |-> TRUE, locked |-> TRUE, focused |-> NoOutput]
             /\ lo' = [o \in Outputs |-> [lo[o] EXCEPT !.surface = "none"]]
             /\ UNCHANGED <<out, flight, screen>>
    <3>1. \A o \in Outputs : lo'[o].presented => lo[o].presented
      BY <1>1, <2>2 DEF Covers
    <3>2. lock # NoLock
      BY <1>4 DEF LockerGone, Held
    <3> QED BY <2>2, <3>1, <3>2, NothingCounts
  <2> QED BY <1>4, <2>1, <2>2, Zenon DEF LockerGone
<1>5. ASSUME NEW o \in Outputs, MapSurface(o)
      PROVE  Shielded'
  <2>1. lo' = [lo EXCEPT ![o].surface = "mapped"] /\ out' = out /\ flight' = flight /\ screen' = screen
    BY <1>5 DEF MapSurface
  <2>2. \A p \in Outputs : lo'[p].presented => lo[p].presented
    BY <1>1, <2>1 DEF Covers
  <2>3. lock # NoLock
    BY <1>5, CoverFacts, NoLockIsNone DEF MapSurface
  <2>4. lock'.locked => lock.locked
    BY <1>1, <1>5, <2>3 DEF MapSurface, Locks
  <2> QED BY <2>1, <2>2, <2>3, <2>4, NothingCounts
<1>6. ASSUME NEW o \in Outputs, DestroySurface(o)
      PROVE  Shielded'
  <2>1. /\ lo' = [lo EXCEPT ![o].surface = "none"] /\ out' = out /\ flight' = flight /\ screen' = screen
        /\ \E s \in FocusChoice(NoOutput, lo') : lock' = Refocused(o, lock, lo', s)
    BY <1>6 DEF DestroySurface
  <2>2. \A p \in Outputs : lo'[p].presented => lo[p].presented
    BY <1>1, <2>1 DEF Covers
  <2>3. lock # NoLock
    BY <1>6, CoverFacts, NoLockIsNone DEF DestroySurface
  <2>4. lock'.locked => lock.locked
    BY <1>1, <2>1, <2>3 DEF Refocused, Locks
  <2> QED BY <2>1, <2>2, <2>3, <2>4, NothingCounts
<1>7. ASSUME NEW o \in Outputs, Click(o)
      PROVE  Shielded'
  <2>1. lock' = [lock EXCEPT !.focused = o] /\ lo' = lo /\ out' = out /\ flight' = flight /\ screen' = screen
    BY <1>7 DEF Click, outputVars
  <2>2. lock # NoLock
    BY <1>7, CoverFacts, NoLockIsNone DEF Click
  <2>3. lock'.locked => lock.locked
    BY <1>1, <2>1, <2>2 DEF Locks
  <2> QED BY <2>1, <2>2, <2>3, NothingCounts
<1> QED BY <1>2, <1>3, <1>4, <1>5, <1>6, <1>7

(* An output is plugged in or switched on. *)
LEMMA ShieldOutputComes ==
  ASSUME KInv, Shielded, NEW o \in Outputs, AddOutput(o) \/ EnableOutput(o)
  PROVE  Shielded'
<1>1. out \in [Outputs -> {"absent", "off", "on"}] /\ lo \in [Outputs -> Covers]
      /\ screen \in [Outputs -> {"blank", "session", "lock"}]
  BY DEF KInv, OutputsOK, LockOK
<1>2. CASE AddOutput(o)
  <2>1. /\ out[o] = "absent" /\ out' = [out EXCEPT ![o] = "off"]
        /\ flight' = flight /\ screen' = screen /\ lock' = lock /\ lo' = lo
    BY <1>2, SMTT(30) DEF AddOutput
  <2> QED BY <1>1, <2>1 DEF Shielded, Safe
<1>3. CASE EnableOutput(o)
  <2>1. /\ out[o] = "off" /\ out' = [out EXCEPT ![o] = "on"] /\ screen' = [screen EXCEPT ![o] = "blank"]
        /\ flight' = flight /\ lock' = lock
        /\ \A p \in Outputs \ {o} : lo'[p] = lo[p]
    BY <1>1, <1>3 DEF EnableOutput
  <2>2. flight'[o] = <<>> /\ screen'[o] # "session"
    BY <1>1, <2>1 DEF Shielded
  <2>3. \A p \in Outputs \ {o} : out'[p] = out[p] /\ screen'[p] = screen[p]
    BY <1>1, <2>1
  <2>4. out'[o] = "on"
    BY <1>1, <2>1
  <2> QED BY <2>1, <2>2, <2>3, <2>4 DEF Shielded, Safe
<1> QED BY <1>2, <1>3

(* An output is switched off or removed: what was waited for may be complete. *)
LEMMA ShieldOutputGoes ==
  ASSUME KInv, Shielded, KInv', NEW o \in Outputs, DisableOutput(o) \/ DestroyOutput(o)
  PROVE  Shielded'
<1>1. /\ out \in [Outputs -> {"absent", "off", "on"}] /\ lo \in [Outputs -> Covers]
      /\ screen \in [Outputs -> {"blank", "session", "lock"}] /\ flight \in [Outputs -> Seq(Frames)]
      /\ lock \in Locks \cup {NoLock}
  BY SMTT(30) DEF KInv, OutputsOK, LockOK
<1>2. /\ out'[o] # "on" /\ flight'[o] = <<>>
      /\ \A p \in Outputs \ {o} : out'[p] = out[p] /\ flight'[p] = flight[p]
                                  /\ screen'[p] = screen[p] /\ lo'[p] = lo[p]
  <2>1. CASE DisableOutput(o)
    BY <1>1, <2>1 DEF DisableOutput
  <2>2. CASE DestroyOutput(o)
    BY <1>1, <2>2 DEF DestroyOutput
  <2> QED BY <2>1, <2>2
<1>3. \/ lock' = lock
      \/ lock # NoLock /\ \E lk \in Locks : lk.locked = lock.locked /\ lock' = TrySend(lk, out', lo')
  <2>1. CASE lo[o].tree = "none"
    BY <2>1 DEF DisableOutput, DestroyOutput
  <2>2. CASE lo[o].tree # "none"
    <3>1. lock # NoLock /\ lock \in Locks
      BY <1>1, <2>2, CoverFacts, NoLockIsNone
    <3>2. CASE DisableOutput(o)
      BY <2>2, <3>1, <3>2 DEF DisableOutput
    <3>3. CASE DestroyOutput(o)
      <4> DEFINE removed == IF lo[o].surface = "none" THEN NoOutput ELSE o
      <4>1. PICK s \in FocusChoice(NoOutput, lo') :
              lock' = TrySend(Refocused(removed, lock, lo', s), out', lo')
        BY <2>2, <3>3, ZenonT(40) DEF DestroyOutput
      <4>2. s \in Outputs \cup {NoOutput}
        BY FocusChoiceFacts
      <4> HIDE DEF removed
      <4>3. /\ Refocused(removed, lock, lo', s) \in Locks
            /\ Refocused(removed, lock, lo', s).locked = lock.locked
        BY <3>1, <4>2 DEF Refocused, Locks
      <4> QED BY <3>1, <4>1, <4>3
    <3> QED BY <3>2, <3>3
  <2> QED BY <2>1, <2>2
<1>4. lock' # NoLock => lock # NoLock
  BY <1>3
<1>5. \A p \in Outputs : lock # NoLock /\ out'[p] = "on" =>
        (lo'[p].presented \/ lock.locked => Safe(p)')
  BY <1>2, SMTT(30) DEF Shielded, Safe
<1>6. \A p \in Outputs : lock' # NoLock /\ out'[p] = "on" =>
        (lo'[p].presented \/ lock'.locked => Safe(p)')
  <2>1. CASE lock' = lock
    BY <1>5, <2>1, SMTT(30)
  <2>2. CASE lock # NoLock /\ \E lk \in Locks : lk.locked = lock.locked /\ lock' = TrySend(lk, out', lo')
    <3>1. PICK lk \in Locks : lk.locked = lock.locked /\ lock' = TrySend(lk, out', lo')
      BY <2>2
    <3>2. lock' # NoLock => \A p \in Outputs : out'[p] = "on" => lo'[p].tree = "enabled"
      BY SMTT(30) DEF KInv, OutputsCovered, On
    <3> QED BY <1>5, <2>2, <3>1, <3>2, SentIsSafe
  <2> QED BY <1>3, <2>1, <2>2
<1>7. \A p \in Outputs : out'[p] # "on" => flight'[p] = <<>>
  BY <1>2 DEF Shielded
<1>8. \A p \in Outputs : lock' # NoLock /\ out'[p] = "on" =>
        \A i \in DOMAIN flight'[p] : flight'[p][i].content = "session" => flight'[p][i].previous
  BY <1>2, <1>4 DEF Shielded
<1> QED BY <1>6, <1>7, <1>8 DEF Shielded

(* A frame rendered while a lock exists shows the lock. *)
LEMMA ShieldCommit ==
  ASSUME KInv, Shielded, NEW o \in Outputs, Commit(o)
  PROVE  Shielded'
<1> DEFINE f == [content |-> IF lo[o].tree = "enabled" THEN "lock" ELSE "session",
                 previous |-> FALSE]
<1>1. /\ out[o] = "on" /\ flight' = [flight EXCEPT ![o] = Append(@, f)]
      /\ out' = out /\ screen' = screen /\ lock' = lock /\ lo' = lo
  BY DEF Commit
<1>2. flight \in [Outputs -> Seq(Frames)]
  BY DEF KInv, OutputsOK
<1>3. f \in Frames /\ (lock # NoLock => f.content = "lock")
  BY <1>1 DEF Frames, KInv, OutputsCovered, On
<1> HIDE DEF f
<1>4. lock # NoLock => \A i \in DOMAIN flight'[o] :
        \/ flight'[o][i].content = "lock"
        \/ i \in DOMAIN flight[o] /\ flight'[o][i] = flight[o][i]
  <2>1. flight'[o] = Append(flight[o], f)
    BY <1>1, <1>2
  <2>2. \A fs \in Seq(Frames) : \A i \in DOMAIN Append(fs, f) :
          Append(fs, f)[i] = f \/ (i \in DOMAIN fs /\ Append(fs, f)[i] = fs[i])
    BY <1>3
  <2> QED BY <1>2, <1>3, <2>1, <2>2
<1>5. \A p \in Outputs \ {o} : flight'[p] = flight[p]
  BY <1>1, <1>2
<1> QED BY <1>1, <1>4, <1>5 DEF Shielded, Safe

(* The first unmarked frame makes an output count: it shows the lock. *)
LEMMA ShieldPresent ==
  ASSUME MaxInFlight = 1, KInv, Shielded, KInv',
         NEW o \in Outputs, NEW presented \in BOOLEAN, Present(o, presented)
  PROVE  Shielded'
<1> DEFINE counts == lo[o].tree # "none" /\ ~lo[o].presented /\ ~Head(flight[o]).previous
<1>1. /\ out[o] = "on" /\ flight[o] # <<>> /\ flight' = [flight EXCEPT ![o] = Tail(@)]
      /\ screen' = [screen EXCEPT ![o] = IF presented THEN Head(flight[o]).content ELSE @]
      /\ IF counts /\ presented
         THEN /\ lo' = [lo EXCEPT ![o].presented = TRUE] /\ lock' = TrySend(lock, out', lo')
         ELSE lo' = lo /\ lock' = lock
      /\ out' = out
  BY DEF Present
<1>2. /\ lo \in [Outputs -> Covers] /\ lock \in Locks \cup {NoLock}
      /\ screen \in [Outputs -> {"blank", "session", "lock"}] /\ flight \in [Outputs -> Seq(Frames)]
      /\ Len(flight[o]) = 1
  <2>1. flight \in [Outputs -> Seq(Frames)] /\ Len(flight[o]) <= 1
    BY DEF KInv, OutputsOK
  <2>2. Len(flight[o]) # 0
    BY <1>1, <2>1
  <2>3. Len(flight[o]) \in Nat
    BY <2>1
  <2>4. Len(flight[o]) = 1
    <3>1. \A n \in Nat : n <= 1 /\ n # 0 => n = 1
      OBVIOUS
    <3> QED BY <2>1, <2>2, <2>3, <3>1, Zenon
  <2> QED BY <2>1, <2>4 DEF KInv, OutputsOK, LockOK
<1> DEFINE h == Head(flight[o])
<1>3. h \in Frames /\ h = flight[o][1] /\ 1 \in DOMAIN flight[o] /\ Tail(flight[o]) = <<>>
  BY <1>1, <1>2, FlightFacts
<1> HIDE DEF h
<1>4. /\ flight'[o] = <<>> /\ (screen'[o] = IF presented THEN h.content ELSE screen[o])
      /\ \A p \in Outputs \ {o} : flight'[p] = flight[p] /\ screen'[p] = screen[p] /\ lo'[p] = lo[p]
  BY <1>1, <1>2, <1>3 DEF h
<1>5. Safe(o) => Safe(o)'
  BY <1>3, <1>4 DEF Safe
<1>6. lock # NoLock /\ (lo[o].presented \/ lock.locked) => Safe(o)'
  BY <1>1, <1>5 DEF Shielded
<1>7. lock # NoLock /\ counts /\ presented => Safe(o)'
  <2>1. lock # NoLock /\ counts => h.content # "session"
    BY <1>1, <1>3 DEF Shielded, h
  <2> QED BY <1>4, <2>1 DEF Safe
<1>8. \A p \in Outputs \ {o} : Safe(p) => Safe(p)'
  BY <1>4 DEF Safe
<1>9. lock' # NoLock => lock # NoLock
  <2>1. counts => lock # NoLock
    BY CoverFacts, NoLockIsNone
  <2> QED BY <1>1, <2>1
<1> HIDE DEF Safe
<1>10. \A p \in Outputs : lock' # NoLock /\ out'[p] = "on" =>
         (lo'[p].presented \/ lock.locked => Safe(p)')
  <2>1. lock' # NoLock => (lo'[o].presented \/ lock.locked => Safe(o)')
    BY <1>1, <1>6, <1>7, <1>9
  <2>2. \A p \in Outputs \ {o} : lock' # NoLock /\ out'[p] = "on" =>
         (lo'[p].presented \/ lock.locked => Safe(p)')
    BY <1>1, <1>4, <1>8, <1>9 DEF Shielded
  <2> QED BY <2>1, <2>2
<1>11. \A p \in Outputs : lock' # NoLock /\ out'[p] = "on" =>
         (lo'[p].presented \/ lock'.locked => Safe(p)')
  <2>1. CASE lock' = lock
    BY <1>10, <2>1
  <2>2. CASE lock' = TrySend(lock, out', lo') /\ counts
    <3>1. lock \in Locks
      BY <1>2, <2>2, CoverFacts, SMTT(30)
    <3>2. lock' # NoLock => \A p \in Outputs : out'[p] = "on" => lo'[p].tree = "enabled"
      BY DEF KInv, OutputsCovered, On
    <3> QED BY <1>10, <2>2, <3>1, <3>2, SentIsSafe
  <2> QED BY <1>1, <2>1, <2>2
<1>12. \A p \in Outputs : lock' # NoLock /\ out'[p] = "on" =>
         \A i \in DOMAIN flight'[p] : flight'[p][i].content = "session" => flight'[p][i].previous
  BY <1>1, <1>4, <1>9 DEF Shielded
<1>13. \A p \in Outputs : out'[p] # "on" => flight'[p] = <<>>
  BY <1>1, <1>4 DEF Shielded
<1> QED BY <1>11, <1>12, <1>13 DEF Shielded

(* Every step keeps the screens shielded, where one frame at most is in flight. *)
LEMMA StepShielded ==
  ASSUME MaxInFlight = 1, KInv, Shielded, KInv', [Next]_vars
  PROVE  Shielded'
<1>1. CASE LockerStep
  BY <1>1, ShieldNewLock, ShieldNewSurface, ShieldLocker DEF LockerStep
<1>2. CASE OutputStep
  <2>1. ASSUME NEW o \in Outputs, Damage(o) PROVE Shielded'
    BY <2>1, NothingCounts DEF Damage
  <2> QED BY <1>2, <2>1, ShieldOutputComes, ShieldOutputGoes, ShieldCommit, ShieldPresent
          DEF OutputStep
<1>3. CASE RecoveryTimer
  BY <1>3, NothingCounts DEF RecoveryTimer, outputVars
<1>4. CASE ManagerDestroy
  BY <1>4, NothingLocked DEF ManagerDestroy, outputVars
<1>5. CASE \E v \in {"none", "view"} : FocusRequest(v)
  BY <1>5, NothingCounts DEF FocusRequest, outputVars
<1>6. CASE UNCHANGED vars
  BY <1>6, NothingCounts DEF vars
<1> QED BY <1>1, <1>2, <1>3, <1>4, <1>5, <1>6 DEF Next
-----------------------------------------------------------------------------
(* The invariant of the lock, the covers and the keyboard (KInv) is kept. *)
THEOREM LockInvariant == Spec => []KInv
BY InitKInv, StepKInv, PTL DEF Spec

(* While a lock exists the keyboard is on one of its mapped surfaces, if it has
   any, whatever surfaces, outputs and clients come and go: refocus_surface and
   the focus redirection of seat.c leave no view and no dead surface focused. *)
THEOREM KeyboardStaysOnLock == Spec => []KeyboardOnLock
<1>1. KInv => KeyboardOnLock
  BY TypeParts DEF KInv, KeyboardOnLock, Focused
<1> QED BY <1>1, LockInvariant, PTL

(* Every output that is on is covered as long as a lock exists, for any number
   of frames in flight: handle_new_lock, handle_new_output and
   handle_output_disable leave no gap. *)
THEOREM OutputsStayCovered == Spec => []OutputsCovered
<1>1. KInv => OutputsCovered
  BY DEF KInv
<1> QED BY <1>1, LockInvariant, PTL

(* With a backend that has one frame in flight (DRM, fbdev, headless), no
   output shows the session once the locked event is sent: previous_commit_seq
   tells the frame rendered before the lock from those after it. *)
THEOREM LockHidesSession == MaxInFlight = 1 => (Spec => []LockedHidesSession)
<1> SUFFICES ASSUME MaxInFlight = 1 PROVE Spec => []LockedHidesSession
  OBVIOUS
<1>1. KInv /\ Shielded => LockedHidesSession
  BY DEF KInv, Shielded, LockedHidesSession, Safe, On
<1>2. Init => KInv /\ Shielded
  BY InitKInv, InitShielded
<1>3. KInv /\ Shielded /\ [Next]_vars => (KInv /\ Shielded)'
  BY StepKInv, StepShielded
<1> QED BY <1>1, <1>2, <1>3, PTL DEF Spec

(* session_lock_destroy is reached with a locked session only from the unlock
   request of its client or with the manager: no output change, no surface and
   no end of a client releases it. *)
THEOREM LockedIsKept == Spec => LockedOnlyUnlocked
<1> DEFINE A == lock # NoLock /\ lock' = NoLock => ~lock.locked \/ Unlock \/ ManagerDestroy
<1>1. KInv /\ [Next]_vars => [A]_vars
  <2> SUFFICES ASSUME KInv, Next, lock # NoLock, lock' = NoLock, lock.locked, ~Unlock, ~ManagerDestroy
               PROVE  FALSE
    OBVIOUS
  <2>1. lock \in Locks
    BY DEF KInv, LockOK
  <2>2. CASE NewLock
    <3>1. [abandoned |-> FALSE, locked |-> FALSE, focused |-> NoOutput] \in Locks
      BY DEF Locks
    <3> QED BY <2>2, <3>1, TrySendFacts, NoLockIsNone DEF NewLock
  <2>3. CASE NewLockFails \/ RecoveryTimer \/ \E v \in {"none", "view"} : FocusRequest(v)
    BY <2>3 DEF NewLockFails, RecoveryTimer, FocusRequest
  <2>4. CASE LockerGone
    <3>1. [abandoned |-> TRUE, locked |-> TRUE, focused |-> NoOutput] \in Locks
      BY DEF Locks
    <3> QED BY <2>4, <3>1, NoLockIsNone, Zenon DEF LockerGone
  <2>5. ASSUME NEW o \in Outputs, NewSurface(o) \/ AddOutput(o) \/ EnableOutput(o) \/ Damage(o) \/ Commit(o)
        PROVE  FALSE
    BY <2>5 DEF NewSurface, AddOutput, EnableOutput, Damage, Commit
  <2>6. ASSUME NEW o \in Outputs, MapSurface(o) \/ Click(o)
        PROVE  FALSE
    <3>1. [lock EXCEPT !.focused = o] \in Locks
      BY <2>1 DEF Locks
    <3> QED BY <2>6, <3>1, NoLockIsNone DEF MapSurface, Click
  <2>7. \A removed, l : \A s \in FocusChoice(NoOutput, l) : Refocused(removed, lock, l, s) \in Locks
    <3>1. \A l : \A s \in FocusChoice(NoOutput, l) : s \in Outputs \cup {NoOutput}
      BY FocusChoiceFacts
    <3> QED BY <2>1, <3>1 DEF Refocused, Locks
  <2>8. ASSUME NEW o \in Outputs, DestroySurface(o)
        PROVE  FALSE
    BY <2>7, <2>8, NoLockIsNone DEF DestroySurface
  <2>9. \A lk \in Locks : \A st, l : TrySend(lk, st, l) # NoLock
    BY TrySendFacts, NoLockIsNone
  <2>10. ASSUME NEW o \in Outputs, NEW presented \in BOOLEAN, DisableOutput(o) \/ Present(o, presented)
         PROVE  FALSE
    BY <2>1, <2>9, <2>10 DEF DisableOutput, Present
  <2>11. ASSUME NEW o \in Outputs, DestroyOutput(o)
         PROVE  FALSE
    BY <2>7, <2>9, <2>11 DEF DestroyOutput
  <2> QED BY <2>2, <2>3, <2>4, <2>5, <2>6, <2>8, <2>10, <2>11, ZenonT(40) DEF Next, LockerStep, OutputStep
<1>2. Spec => [][A]_vars
  BY <1>1, LockInvariant, PTL DEF Spec
<1> QED BY <1>2 DEF LockedOnlyUnlocked
=============================================================================
