----------------------------- MODULE IdleProofs -----------------------------
(***************************************************************************)
(* Proofs about idle notifications and inhibitors, for any seats, idles,   *)
(* surfaces and timeouts.                                                  *)
(***************************************************************************)
EXTENDS Idle, TLAPS

(* The longest timeout is one, and bounds the others. *)
LEMMA LongestFacts ==
  /\ Longest \in Nat /\ Longest \in Timeouts \cup {0} /\ \A u \in Timeouts : u <= Longest
  /\ Timeouts \cup {0} \subseteq 0..Longest
<1>1. \E t \in Timeouts \cup {0} : \A u \in Timeouts : u <= t
  BY IdleAssumption
<1>2. Longest \in Timeouts \cup {0} /\ \A u \in Timeouts : u <= Longest
  BY <1>1 DEF Longest
<1> HIDE DEF Longest
<1> QED BY <1>2, IdleAssumption

IdleRec == [kind : {"kde", "notifier", "input", "server"}, seat : Seats,
            timeout : Timeouts \cup {0}, armed : BOOLEAN, left : 0..Longest, idle : BOOLEAN]

InhibitorRec == [onMap : BOOLEAN, first : BOOLEAN, maps : 0..2, minimizes : 0..2,
                 visible : BOOLEAN]

(* An idle r is counting right: q ticks are quiet, inh: inhibition is in force. *)
Counting(r, q, inh) ==
  /\ inh /\ Inhibitable(r) => ~r.idle /\ ~r.armed
  /\ r.idle => q >= r.timeout
  /\ r.armed => q + r.left >= r.timeout

IdleType ==
  /\ seats \subseteq Seats /\ inhibited \in BOOLEAN /\ powered \in BOOLEAN
  /\ idle \in [Ids -> IdleRec \cup {NoIdle}]
  /\ quiet \in [Ids -> 0..Longest] /\ bypassed \subseteq Idles

IdlesCount ==
  \A i \in Ids : Live(i) =>
    /\ idle[i].seat \in seats
    /\ idle[i].armed => idle[i].timeout > 0
    /\ i \notin bypassed => Counting(idle[i], quiet[i], inhibited)

(* The server's own idle of every seat is there, and is idle. *)
ServerIdles ==
  \A s \in seats : /\ idle[s] \in IdleRec /\ idle[s].kind = "server" /\ idle[s].seat = s
                   /\ idle[s].timeout = 0 /\ idle[s].idle

IInv == IdleType /\ IdlesCount /\ ServerIdles

(* Inhibitor h of surface s, in state w, follows what is shown.  A toplevel's
   listens for minimization as soon as it is in force. *)
Follows(h, s, w) ==
  /\ h.visible => w.mapped /\ ~w.minimized
  /\ h.onMap /\ w.mapped /\ ~w.minimized => h.visible
  /\ s \in Toplevels => /\ h.visible => h.minimizes > 0
                        /\ h.onMap /\ w.mapped => h.minimizes > 0
                        /\ h.maps > 0 => h.minimizes > 0

SurfaceRec == [view : BOOLEAN, mapped : BOOLEAN, minimized : BOOLEAN]

SInv ==
  /\ stuck \in BOOLEAN
  /\ surface \in [Surfaces -> SurfaceRec]
  /\ inhibitor \in [Surfaces -> InhibitorRec \cup {NoInhibitor}]
  /\ \A s \in Surfaces \ Toplevels : ~surface[s].minimized
  /\ \A s \in Surfaces : inhibitor[s] # NoInhibitor => Follows(inhibitor[s], s, surface[s])
  /\ inhibited = \E s \in Surfaces : inhibitor[s] # NoInhibitor /\ inhibitor[s].visible
-----------------------------------------------------------------------------
(* An idle's numbers. *)
LEMMA NumbersFacts ==
  ASSUME NEW r \in IdleRec
  PROVE  r.timeout \in Timeouts \cup {0} /\ r.timeout \in Nat /\ r.left \in Nat
<1>1. Timeouts \cup {0} \subseteq Nat /\ Longest \in Nat
  BY LongestFacts
<1>2. r.timeout \in Timeouts \cup {0} /\ r.left \in 0..Longest
  BY DEF IdleRec
<1> QED BY <1>1, <1>2

(* The fields of an idle after idle_reset_timer. *)
LEMMA ResetFacts ==
  ASSUME NEW r \in IdleRec, NEW inh \in BOOLEAN
  PROVE  /\ Reset(r, inh) \in IdleRec
         /\ Reset(r, inh).kind = r.kind /\ Reset(r, inh).seat = r.seat
         /\ Reset(r, inh).timeout = r.timeout
         /\ inh /\ Inhibitable(r) => ~Reset(r, inh).idle /\ ~Reset(r, inh).armed
         /\ ~(inh /\ Inhibitable(r)) /\ r.timeout > 0 =>
              /\ Reset(r, inh).armed /\ Reset(r, inh).left = r.timeout
              /\ Reset(r, inh).idle = r.idle
         /\ ~(inh /\ Inhibitable(r)) /\ ~(r.timeout > 0) =>
              /\ Reset(r, inh).idle /\ Reset(r, inh).armed = r.armed
<1>1. r.timeout \in 0..Longest /\ r.timeout \in Timeouts \cup {0}
  BY LongestFacts, Zenon DEF IdleRec
<1>2. CASE inh /\ Inhibitable(r)
  <2>1. Reset(r, inh) = [r EXCEPT !.idle = FALSE, !.armed = FALSE]
    BY <1>2 DEF Reset
  <2> QED BY <1>2, <2>1, Zenon DEF IdleRec
<1>3. CASE ~(inh /\ Inhibitable(r)) /\ r.timeout > 0
  <2>1. Reset(r, inh) = [r EXCEPT !.armed = TRUE, !.left = r.timeout]
    BY <1>3 DEF Reset
  <2> QED BY <1>1, <1>3, <2>1, Zenon DEF IdleRec
<1>4. CASE ~(inh /\ Inhibitable(r)) /\ ~(r.timeout > 0)
  <2>1. Reset(r, inh) = [r EXCEPT !.idle = TRUE]
    BY <1>4 DEF Reset
  <2> QED BY <1>4, <2>1, Zenon DEF IdleRec
<1> QED BY <1>2, <1>3, <1>4

(* An idle that was reset counts from zero, if it was not idle. *)
LEMMA ResetCounts ==
  ASSUME NEW r \in IdleRec, NEW inh \in BOOLEAN, r.armed => r.timeout > 0,
         ~r.idle \/ (inh /\ Inhibitable(r)), NEW q \in Nat
  PROVE  /\ Reset(r, inh).armed => Reset(r, inh).timeout > 0
         /\ Counting(Reset(r, inh), q, inh)
<1> DEFINE n == Reset(r, inh)
<1>1. r.timeout \in Nat /\ r.timeout \in Timeouts \cup {0}
  BY NumbersFacts
<1>2. /\ n.kind = r.kind /\ n.timeout = r.timeout
      /\ inh /\ Inhibitable(r) => ~n.idle /\ ~n.armed
      /\ ~(inh /\ Inhibitable(r)) /\ r.timeout > 0 => n.armed /\ n.left = r.timeout /\ n.idle = r.idle
      /\ ~(inh /\ Inhibitable(r)) /\ ~(r.timeout > 0) => n.idle /\ n.armed = r.armed
  BY ResetFacts
<1> HIDE DEF n
<1>3. Inhibitable(n) = Inhibitable(r)
  BY <1>2 DEF Inhibitable
<1> SUFFICES (n.armed => n.timeout > 0) /\ Counting(n, q, inh)
  BY DEF n
<1>4. CASE inh /\ Inhibitable(r)
  BY <1>2, <1>4 DEF Counting
<1>5. CASE ~(inh /\ Inhibitable(r)) /\ r.timeout > 0
  <2>1. n.armed /\ ~n.idle /\ n.left = r.timeout /\ n.timeout = r.timeout
    BY <1>2, <1>5
  <2> QED BY <1>1, <1>3, <1>5, <2>1 DEF Counting
<1>6. CASE ~(inh /\ Inhibitable(r)) /\ ~(r.timeout > 0)
  <2>1. n.timeout = 0 /\ ~n.armed
    BY <1>1, <1>2, <1>6
  <2> QED BY <1>3, <1>6, <2>1 DEF Counting
<1> QED BY <1>4, <1>5, <1>6

(* An idle with user activity. *)
LEMMA ActiveFacts ==
  ASSUME NEW r \in IdleRec, NEW inh \in BOOLEAN, r.armed => r.timeout > 0, NEW q \in Nat
  PROVE  LET n == Reset([r EXCEPT !.idle = FALSE], inh) IN
         /\ n \in IdleRec /\ n.kind = r.kind /\ n.seat = r.seat /\ n.timeout = r.timeout
         /\ n.armed => n.timeout > 0
         /\ Counting(n, q, inh)
         /\ r.timeout = 0 /\ r.kind = "server" => n.idle
<1> DEFINE a == [r EXCEPT !.idle = FALSE]
<1>1. /\ a \in IdleRec /\ a.kind = r.kind /\ a.seat = r.seat /\ a.timeout = r.timeout
      /\ a.armed = r.armed /\ ~a.idle
  BY Zenon DEF IdleRec
<1> HIDE DEF a
<1>2. a.armed => a.timeout > 0
  BY <1>1
<1>3. Reset(a, inh).armed => Reset(a, inh).timeout > 0
  BY <1>1, <1>2, ResetCounts
<1>4. Counting(Reset(a, inh), q, inh)
  BY <1>1, <1>2, ResetCounts
<1>5. r.timeout = 0 /\ r.kind = "server" => Reset(a, inh).idle
  BY <1>1, ResetFacts DEF Inhibitable
<1>6. Reset(a, inh) \in IdleRec /\ Reset(a, inh).kind = r.kind /\ Reset(a, inh).seat = r.seat
      /\ Reset(a, inh).timeout = r.timeout
  BY <1>1, ResetFacts
<1> QED BY <1>3, <1>4, <1>5, <1>6 DEF a

(* An idle that is created. *)
LEMMA CreatedFacts ==
  ASSUME inhibited \in BOOLEAN, NEW kind \in {"kde", "notifier", "input", "server"},
         NEW seat \in Seats, NEW timeout \in Timeouts \cup {0}, NEW q \in Nat
  PROVE  LET n == Created(kind, seat, timeout) IN
         /\ n \in IdleRec /\ n.kind = kind /\ n.seat = seat /\ n.timeout = timeout
         /\ n.armed => n.timeout > 0
         /\ Counting(n, q, inhibited)
         /\ timeout = 0 /\ kind = "server" => n.idle
<1> DEFINE r == [kind |-> kind, seat |-> seat, timeout |-> timeout, armed |-> FALSE,
                 left |-> 0, idle |-> FALSE]
<1>1. /\ r \in IdleRec /\ r.kind = kind /\ r.seat = seat /\ r.timeout = timeout
      /\ ~r.armed /\ ~r.idle /\ Created(kind, seat, timeout) = Reset(r, inhibited)
  BY LongestFacts DEF IdleRec, Created
<1> HIDE DEF r
<1> DEFINE n == Reset(r, inhibited)
<1>2. n.armed => n.timeout > 0
  BY <1>1, ResetCounts
<1>3. Counting(n, q, inhibited)
  BY <1>1, ResetCounts
<1>4. timeout = 0 /\ kind = "server" => n.idle
  BY <1>1, ResetFacts DEF Inhibitable
<1>5. n \in IdleRec /\ n.kind = kind /\ n.seat = seat /\ n.timeout = timeout
  BY <1>1, ResetFacts
<1> HIDE DEF n
<1> QED BY <1>1, <1>2, <1>3, <1>4, <1>5 DEF n
-----------------------------------------------------------------------------
(* At first there is no idle. *)
LEMMA InitIInv == Init => IInv
<1> SUFFICES ASSUME Init PROVE IInv
  OBVIOUS
<1>1. IdleType
  BY LongestFacts, Zenon DEF Init, IdleType
<1>2. IdlesCount /\ ServerIdles
  BY <1>1 DEF Init, IdlesCount, ServerIdles, Live, Ids
<1> QED BY <1>1, <1>2 DEF IInv

(* What the invariant says of one idle. *)
LEMMA OneIdle ==
  ASSUME IInv, NEW i \in Ids, Live(i)
  PROVE  /\ idle[i] \in IdleRec /\ idle[i].seat \in seats /\ quiet[i] \in 0..Longest
         /\ idle[i].armed => idle[i].timeout > 0
         /\ i \notin bypassed => Counting(idle[i], quiet[i], inhibited)
BY DEF IInv, IdleType, IdlesCount, Live

(* A step that changes at most idle j, and keeps the seats and inhibition. *)
LEMMA OneChanges ==
  ASSUME IInv, NEW j \in Ids, NEW r \in IdleRec \cup {NoIdle}, NEW q \in 0..Longest,
         seats' = seats, inhibited' = inhibited, powered' \in BOOLEAN,
         idle' = [idle EXCEPT ![j] = r], quiet' = [quiet EXCEPT ![j] = q],
         bypassed' \subseteq Idles, \A i \in bypassed : i = j \/ i \in bypassed',
         r # NoIdle => /\ r.seat \in seats /\ (r.armed => r.timeout > 0)
                       /\ j \notin bypassed' => Counting(r, q, inhibited),
         j \in seats => r \in IdleRec /\ r.kind = "server" /\ r.seat = j /\ r.timeout = 0 /\ r.idle
  PROVE  IInv'
<1>1. idle \in [Ids -> IdleRec \cup {NoIdle}] /\ quiet \in [Ids -> 0..Longest]
  BY DEF IInv, IdleType
<1>2. /\ idle'[j] = r /\ quiet'[j] = q
      /\ \A i \in Ids \ {j} : idle'[i] = idle[i] /\ quiet'[i] = quiet[i]
  BY <1>1
<1>3. IdleType'
  BY <1>1 DEF IInv, IdleType
<1>4. IdlesCount'
  BY <1>2 DEF IInv, IdlesCount, Live
<1>5. ServerIdles'
  <2>1. seats \subseteq Ids
    BY DEF IInv, IdleType, Ids
  <2> QED BY <1>2, <2>1 DEF IInv, ServerIdles
<1> QED BY <1>3, <1>4, <1>5 DEF IInv

(* A client creates an idle. *)
LEMMA StepNewIdle ==
  ASSUME IInv, NEW i \in Idles, NEW k \in {"kde", "notifier", "input"}, NEW s \in Seats,
         NEW t \in Timeouts, NewIdle(i, k, s, t)
  PROVE  IInv'
<1> DEFINE r == Created(k, s, t)
<1>1. /\ idle' = [idle EXCEPT ![i] = r] /\ quiet' = [quiet EXCEPT ![i] = 0] /\ s \in seats
      /\ seats' = seats /\ powered' = powered /\ bypassed' = bypassed /\ inhibited' = inhibited
  BY DEF NewIdle
<1>2. inhibited \in BOOLEAN /\ powered \in BOOLEAN /\ bypassed \subseteq Idles /\ seats \subseteq Seats
  BY DEF IInv, IdleType
<1>3. /\ r \in IdleRec /\ r.seat = s /\ (r.armed => r.timeout > 0) /\ Counting(r, 0, inhibited)
  BY <1>2, CreatedFacts
<1>4. i \in Ids /\ i \notin seats /\ 0 \in 0..Longest
  BY <1>2, IdleAssumption, LongestFacts DEF Ids
<1> HIDE DEF r
<1> QED BY <1>1, <1>2, <1>3, <1>4, OneChanges, Zenon

(* A client destroys one. *)
LEMMA StepDestroyIdle ==
  ASSUME IInv, NEW i \in Idles, DestroyIdle(i)
  PROVE  IInv'
<1>1. /\ idle' = [idle EXCEPT ![i] = NoIdle] /\ quiet' = quiet
      /\ seats' = seats /\ powered' = powered /\ bypassed' = bypassed \ {i} /\ inhibited' = inhibited
  BY DEF DestroyIdle
<1>2. /\ powered \in BOOLEAN /\ bypassed \subseteq Idles /\ seats \subseteq Seats
      /\ quiet \in [Ids -> 0..Longest]
  BY DEF IInv, IdleType
<1>3. i \in Ids /\ i \notin seats
  BY <1>2, IdleAssumption DEF Ids
<1>4. quiet[i] \in 0..Longest /\ quiet' = [quiet EXCEPT ![i] = quiet[i]]
  BY <1>1, <1>2, <1>3
<1> QED BY <1>1, <1>2, <1>3, <1>4, OneChanges, Zenon

(* simulate_activity: the idle is excused while inhibition lasts. *)
LEMMA StepSimulate ==
  ASSUME IInv, NEW i \in Idles, Simulate(i)
  PROVE  IInv'
<1> DEFINE r == Reset([idle[i] EXCEPT !.idle = FALSE], FALSE)
<1>1. i \in Ids /\ 0 \in 0..Longest
  BY LongestFacts DEF Ids
<1>2. /\ powered \in BOOLEAN /\ bypassed \subseteq Idles /\ seats \subseteq Seats
      /\ inhibited \in BOOLEAN /\ idle \in [Ids -> IdleRec \cup {NoIdle}]
  BY DEF IInv, IdleType
<1>3. /\ idle' = [idle EXCEPT ![i] = r] /\ quiet' = [quiet EXCEPT ![i] = 0]
      /\ seats' = seats /\ powered' = powered /\ inhibited' = inhibited
      /\ bypassed' = IF inhibited THEN bypassed \cup {i} ELSE bypassed \ {i}
      /\ Live(i)
  BY <1>1, <1>2 DEF Simulate
<1>4. idle[i] \in IdleRec /\ idle[i].seat \in seats /\ (idle[i].armed => idle[i].timeout > 0)
  BY <1>1, <1>3, OneIdle
<1>5. /\ r \in IdleRec /\ r.seat \in seats /\ (r.armed => r.timeout > 0) /\ Counting(r, 0, FALSE)
  BY <1>4, ActiveFacts, Zenon
<1>6. i \notin seats
  BY <1>2, IdleAssumption
<1> HIDE DEF r
<1>7. i \notin bypassed' => Counting(r, 0, inhibited)
  BY <1>3, <1>2, <1>5, Zenon
<1> QED BY <1>1, <1>2, <1>3, <1>5, <1>6, <1>7, OneChanges, Zenon

(* A timer expires: what it was waiting for has passed. *)
LEMMA StepTimer ==
  ASSUME IInv, NEW i \in Ids, Timer(i)
  PROVE  IInv'
<1> DEFINE r == [idle[i] EXCEPT !.idle = TRUE, !.armed = FALSE]
<1>1. /\ powered \in BOOLEAN /\ bypassed \subseteq Idles /\ seats \subseteq Seats
      /\ idle \in [Ids -> IdleRec \cup {NoIdle}] /\ quiet \in [Ids -> 0..Longest]
  BY DEF IInv, IdleType
<1>2. /\ idle' = [idle EXCEPT ![i] = r] /\ quiet' = quiet /\ Live(i) /\ idle[i].armed /\ idle[i].left = 0
      /\ seats' = seats /\ powered' = powered /\ inhibited' = inhibited /\ bypassed' = bypassed
  BY <1>1, Zenon DEF Timer
<1>3. /\ idle[i] \in IdleRec /\ idle[i].seat \in seats /\ idle[i].timeout > 0 /\ quiet[i] \in 0..Longest
      /\ i \notin bypassed => Counting(idle[i], quiet[i], inhibited)
  BY <1>2, OneIdle
<1>4. /\ r \in IdleRec /\ r.seat = idle[i].seat /\ ~r.armed /\ r.timeout = idle[i].timeout
      /\ r.kind = idle[i].kind
  BY <1>3, Zenon DEF IdleRec
<1>5. i \notin seats
  BY <1>3 DEF IInv, ServerIdles
<1> HIDE DEF r
<1>6. i \notin bypassed => Counting(r, quiet[i], inhibited)
  <2>1. idle[i].timeout \in Nat /\ quiet[i] \in Nat
    BY <1>3, LongestFacts, NumbersFacts
  <2>2. i \notin bypassed => quiet[i] >= r.timeout
    BY <1>2, <1>3, <1>4, <2>1 DEF Counting
  <2>3. i \notin bypassed => ~(inhibited /\ Inhibitable(r))
    BY <1>2, <1>3, <1>4 DEF Counting, Inhibitable
  <2> QED BY <1>4, <2>2, <2>3 DEF Counting
<1>7. quiet' = [quiet EXCEPT ![i] = quiet[i]]
  BY <1>1, <1>2
<1> QED BY <1>1, <1>2, <1>3, <1>4, <1>5, <1>6, <1>7, OneChanges, Zenon

(* A seat gets the idle of the server. *)
LEMMA StepNewSeat ==
  ASSUME IInv, NEW s \in Seats, NewSeat(s)
  PROVE  IInv'
<1> DEFINE r == Created("server", s, 0)
<1>1. /\ idle' = [idle EXCEPT ![s] = r] /\ quiet' = quiet /\ seats' = seats \cup {s}
      /\ powered' = powered /\ bypassed' = bypassed /\ inhibited' = inhibited /\ s \notin seats
  BY DEF NewSeat
<1>2. /\ inhibited \in BOOLEAN /\ powered \in BOOLEAN /\ bypassed \subseteq Idles /\ seats \subseteq Seats
      /\ idle \in [Ids -> IdleRec \cup {NoIdle}] /\ quiet \in [Ids -> 0..Longest]
  BY DEF IInv, IdleType
<1>3. s \in Ids /\ quiet[s] \in Nat /\ seats \subseteq Ids
  BY <1>2, LongestFacts DEF Ids
<1>4. /\ r \in IdleRec /\ r.kind = "server" /\ r.seat = s /\ r.timeout = 0 /\ r.idle
      /\ (r.armed => r.timeout > 0) /\ Counting(r, quiet[s], inhibited)
  BY <1>2, <1>3, CreatedFacts
<1> HIDE DEF r
<1>5. idle'[s] = r /\ \A i \in Ids \ {s} : idle'[i] = idle[i]
  BY <1>1, <1>2, <1>3
<1>6. IdleType'
  BY <1>1, <1>2, <1>4, Zenon DEF IdleType
<1>7. IdlesCount'
  BY <1>1, <1>4, <1>5 DEF IInv, IdlesCount, Live
<1>8. ServerIdles'
  BY <1>1, <1>3, <1>4, <1>5 DEF IInv, ServerIdles
<1> QED BY <1>6, <1>7, <1>8 DEF IInv

(* The idles of a seat go with it. *)
LEMMA StepDestroySeat ==
  ASSUME IInv, NEW s \in Seats, DestroySeat(s)
  PROVE  IInv'
<1>1. /\ idle' = [i \in Ids |-> IF Live(i) /\ idle[i].seat = s THEN NoIdle ELSE idle[i]]
      /\ bypassed' = {i \in bypassed : idle'[i] # NoIdle} /\ seats' = seats \ {s}
      /\ powered' = powered /\ quiet' = quiet /\ inhibited' = inhibited
  BY DEF DestroySeat
<1>2. /\ inhibited \in BOOLEAN /\ powered \in BOOLEAN /\ bypassed \subseteq Idles /\ seats \subseteq Seats
      /\ idle \in [Ids -> IdleRec \cup {NoIdle}] /\ quiet \in [Ids -> 0..Longest]
  BY DEF IInv, IdleType
<1>3. \A i \in Ids : idle'[i] # NoIdle => idle'[i] = idle[i] /\ Live(i) /\ idle[i].seat # s
  BY <1>1 DEF Live
<1>4. \A i \in Ids : idle'[i] # NoIdle /\ i \notin bypassed' => i \notin bypassed
  BY <1>1
<1>5. IdleType'
  BY <1>1, <1>2 DEF IdleType
<1>6. IdlesCount'
  BY <1>1, <1>3, <1>4 DEF IInv, IdlesCount, Live
<1>7. ServerIdles'
  <2>1. \A p \in seats \ {s} : p \in Ids /\ idle[p].seat = p /\ idle'[p] = idle[p]
    BY <1>1, <1>2 DEF IInv, ServerIdles, Ids
  <2> QED BY <1>1, <2>1 DEF IInv, ServerIdles
<1> QED BY <1>5, <1>6, <1>7 DEF IInv

(* An input event resets every idle of its seat but those that are held. *)
LEMMA StepActivity ==
  ASSUME IInv, NEW s \in Seats, Activity(s)
  PROVE  IInv' /\ powered'
<1>1. /\ idle' = [i \in Ids |-> IF Live(i) /\ Noticed(i, s) THEN Active(idle[i]) ELSE idle[i]]
      /\ powered' = (powered \/ \E i \in seats : Noticed(i, s) /\ idle[i].idle)
      /\ quiet' = [i \in Ids |-> IF Live(i) /\ idle[i].seat = s THEN 0 ELSE quiet[i]]
      /\ bypassed' = {i \in bypassed : ~Noticed(i, s)} /\ s \in seats
      /\ seats' = seats /\ inhibited' = inhibited
  BY DEF Activity
<1>2. /\ inhibited \in BOOLEAN /\ powered \in BOOLEAN /\ bypassed \subseteq Idles /\ seats \subseteq Seats
      /\ idle \in [Ids -> IdleRec \cup {NoIdle}] /\ quiet \in [Ids -> 0..Longest] /\ 0 \in 0..Longest
  BY LongestFacts DEF IInv, IdleType
<1>3. powered'
  <2>1. idle[s].kind = "server" /\ idle[s].seat = s /\ idle[s].idle
    BY <1>1 DEF IInv, ServerIdles
  <2>2. Noticed(s, s)
    BY <2>1 DEF Noticed, Held, Inhibitable
  <2> QED BY <1>1, <2>1, <2>2, Zenon
<1>4. \A i \in Ids : Live(i) /\ Noticed(i, s) =>
        /\ idle'[i] \in IdleRec /\ idle'[i].kind = idle[i].kind /\ idle'[i].seat = idle[i].seat
        /\ idle'[i].timeout = idle[i].timeout /\ (idle'[i].armed => idle'[i].timeout > 0)
        /\ Counting(idle'[i], quiet'[i], inhibited)
        /\ idle[i].timeout = 0 /\ idle[i].kind = "server" => idle'[i].idle
  <2> SUFFICES ASSUME NEW i \in Ids, Live(i), Noticed(i, s)
               PROVE  /\ idle'[i] \in IdleRec /\ idle'[i].kind = idle[i].kind
                      /\ idle'[i].seat = idle[i].seat
                      /\ idle'[i].timeout = idle[i].timeout /\ (idle'[i].armed => idle'[i].timeout > 0)
                      /\ Counting(idle'[i], quiet'[i], inhibited)
                      /\ idle[i].timeout = 0 /\ idle[i].kind = "server" => idle'[i].idle
    OBVIOUS
  <2>1. idle'[i] = Reset([idle[i] EXCEPT !.idle = FALSE], inhibited)
    BY <1>1 DEF Active
  <2>2. idle[i] \in IdleRec /\ (idle[i].armed => idle[i].timeout > 0)
    BY OneIdle
  <2>3. quiet'[i] = 0
    BY <1>1 DEF Noticed
  <2> DEFINE r == idle[i]
  <2>4. r \in IdleRec /\ (r.armed => r.timeout > 0)
    BY <2>2
  <2> HIDE DEF r
  <2> QED BY <1>2, <2>1, <2>3, <2>4, ActiveFacts DEF r
<1>5. \A i \in Ids : Live(i) /\ ~Noticed(i, s) => idle'[i] = idle[i]
  BY <1>1
<1>6. \A i \in Ids : Live(i) /\ ~Noticed(i, s) /\ i \notin bypassed' =>
        Counting(idle[i], quiet'[i], inhibited)
  <2> SUFFICES ASSUME NEW i \in Ids, Live(i), ~Noticed(i, s), i \notin bypassed'
               PROVE  Counting(idle[i], quiet'[i], inhibited)
    OBVIOUS
  <2>1. i \notin bypassed /\ Counting(idle[i], quiet[i], inhibited)
    BY <1>1, OneIdle
  <2>2. CASE idle[i].seat = s
    BY <2>1, <2>2 DEF Noticed, Held, Counting
  <2>3. CASE idle[i].seat # s
    BY <1>1, <2>1, <2>3
  <2> QED BY <2>2, <2>3
<1>7. \A i \in Ids : ~Live(i) => idle'[i] = NoIdle
  BY <1>1 DEF Live
<1>8. IdleType'
  <2>1. \A i \in Ids : idle'[i] \in IdleRec \cup {NoIdle}
    BY <1>2, <1>4, <1>5, <1>7
  <2>2. idle' \in [Ids -> IdleRec \cup {NoIdle}]
    BY <1>1, <2>1
  <2> QED BY <1>1, <1>2, <1>3, <2>2 DEF IdleType
<1>9. IdlesCount'
  <2> SUFFICES ASSUME NEW i \in Ids, idle'[i] # NoIdle
               PROVE  /\ idle'[i].seat \in seats /\ (idle'[i].armed => idle'[i].timeout > 0)
                      /\ i \notin bypassed' => Counting(idle'[i], quiet'[i], inhibited)
    BY <1>1 DEF IdlesCount, Live
  <2>1. Live(i)
    BY <1>7
  <2>2. idle[i].seat \in seats /\ (idle[i].armed => idle[i].timeout > 0)
    BY <2>1, OneIdle
  <2>3. CASE Noticed(i, s)
    BY <1>4, <2>1, <2>2, <2>3
  <2>4. CASE ~Noticed(i, s)
    BY <1>5, <1>6, <2>1, <2>2, <2>4
  <2> QED BY <2>3, <2>4
<1>10. ServerIdles'
  <2> SUFFICES ASSUME NEW p \in seats
               PROVE  /\ idle'[p] \in IdleRec /\ idle'[p].kind = "server" /\ idle'[p].seat = p
                      /\ idle'[p].timeout = 0 /\ idle'[p].idle
    BY <1>1 DEF ServerIdles
  <2>1. /\ idle[p] \in IdleRec /\ idle[p].kind = "server" /\ idle[p].seat = p
        /\ idle[p].timeout = 0 /\ idle[p].idle /\ p \in Ids
    BY <1>2 DEF IInv, ServerIdles, Ids
  <2>2. CASE Live(p) /\ Noticed(p, s)
    BY <1>4, <2>1, <2>2
  <2>3. CASE ~(Live(p) /\ Noticed(p, s))
    BY <1>1, <2>1, <2>3
  <2> QED BY <2>2, <2>3
<1> QED BY <1>3, <1>8, <1>9, <1>10 DEF IInv

(* A tick takes one off what is left and adds one to what is quiet. *)
LEMMA StepTick ==
  ASSUME IInv, Tick
  PROVE  IInv'
<1>1. /\ idle' = [i \in Ids |-> IF Live(i) /\ idle[i].armed /\ idle[i].left > 0
                                THEN [idle[i] EXCEPT !.left = @ - 1] ELSE idle[i]]
      /\ quiet' = [i \in Ids |-> IF Live(i) /\ quiet[i] < Longest THEN quiet[i] + 1 ELSE quiet[i]]
      /\ seats' = seats /\ powered' = powered /\ bypassed' = bypassed /\ inhibited' = inhibited
  BY DEF Tick
<1>2. /\ inhibited \in BOOLEAN /\ powered \in BOOLEAN /\ bypassed \subseteq Idles /\ seats \subseteq Seats
      /\ idle \in [Ids -> IdleRec \cup {NoIdle}] /\ quiet \in [Ids -> 0..Longest] /\ Longest \in Nat
  BY LongestFacts DEF IInv, IdleType
<1>3. ASSUME NEW i \in Ids, Live(i)
      PROVE  /\ idle'[i] \in IdleRec /\ idle'[i].kind = idle[i].kind /\ idle'[i].seat = idle[i].seat
             /\ idle'[i].timeout = idle[i].timeout /\ idle'[i].armed = idle[i].armed
             /\ idle'[i].idle = idle[i].idle
             /\ idle'[i].left = IF idle[i].armed /\ idle[i].left > 0 THEN idle[i].left - 1
                               ELSE idle[i].left
  <2>1. idle[i] \in IdleRec /\ idle[i].left \in 0..Longest
    BY <1>3, OneIdle DEF IdleRec
  <2>2. CASE idle[i].armed /\ idle[i].left > 0
    <3>1. idle'[i] = [idle[i] EXCEPT !.left = @ - 1]
      BY <1>1, <1>3, <2>2
    <3>2. idle[i].left - 1 \in 0..Longest
      BY <1>2, <2>1, <2>2
    <3> QED BY <2>1, <2>2, <3>1, <3>2, ZenonT(40) DEF IdleRec
  <2>3. CASE ~(idle[i].armed /\ idle[i].left > 0)
    <3>1. idle'[i] = idle[i]
      BY <1>1, <1>3, <2>3
    <3> QED BY <2>1, <2>3, <3>1
  <2> QED BY <2>2, <2>3
<1>4. \A i \in Ids : ~Live(i) => idle'[i] = NoIdle
  BY <1>1 DEF Live
<1>5. ASSUME NEW i \in Ids, Live(i)
      PROVE  /\ quiet'[i] \in Nat /\ quiet[i] \in Nat /\ quiet'[i] >= quiet[i]
             /\ quiet'[i] = quiet[i] + 1 \/ quiet'[i] >= Longest
  BY <1>1, <1>2, <1>5
<1>6. ASSUME NEW i \in Ids, Live(i), i \notin bypassed
      PROVE  Counting(idle'[i], quiet'[i], inhibited)
  <2>1. idle[i] \in IdleRec /\ Counting(idle[i], quiet[i], inhibited)
    BY <1>6, OneIdle
  <2>2. idle[i].timeout \in Nat /\ idle[i].left \in Nat /\ idle[i].timeout <= Longest
    BY <2>1, NumbersFacts, LongestFacts
  <2>3. Inhibitable(idle'[i]) = Inhibitable(idle[i])
    BY <1>3, <1>6 DEF Inhibitable
  <2>4. idle'[i].idle => quiet'[i] >= idle'[i].timeout
    BY <1>2, <1>3, <1>5, <1>6, <2>1, <2>2 DEF Counting
  <2>5. idle'[i].armed => quiet'[i] + idle'[i].left >= idle'[i].timeout
    <3>1. idle'[i].armed => quiet[i] + idle[i].left >= idle[i].timeout
      BY <1>3, <1>6, <2>1 DEF Counting
    <3> DEFINE q == quiet[i]
               q1 == quiet'[i]
               l == idle[i].left
               l1 == idle'[i].left
               t == idle[i].timeout
    <3>2. /\ q \in Nat /\ q1 \in Nat /\ q1 >= q /\ (q1 = q + 1 \/ q1 >= Longest) /\ l \in Nat /\ t \in Nat
          /\ t <= Longest /\ Longest \in Nat /\ ((l1 = l - 1 /\ l > 0) \/ l1 = l)
      BY <1>2, <1>3, <1>5, <1>6, <2>2
    <3> HIDE DEF q, q1, l, l1, t
    <3>3. q + l >= t => q1 + l1 >= t
      BY <3>2
    <3> QED BY <1>3, <1>6, <3>1, <3>3 DEF q, q1, l, l1, t
  <2> QED BY <1>3, <1>6, <2>1, <2>3, <2>4, <2>5 DEF Counting
<1>7. IdleType'
  <2>1. \A i \in Ids : idle'[i] \in IdleRec \cup {NoIdle}
    BY <1>3, <1>4
  <2>2. idle' \in [Ids -> IdleRec \cup {NoIdle}]
    BY <1>1, <2>1
  <2>3. quiet' \in [Ids -> 0..Longest]
    BY <1>1, <1>2
  <2> QED BY <1>1, <1>2, <2>2, <2>3 DEF IdleType
<1>8. IdlesCount'
  <2> SUFFICES ASSUME NEW i \in Ids, idle'[i] # NoIdle
               PROVE  /\ idle'[i].seat \in seats /\ (idle'[i].armed => idle'[i].timeout > 0)
                      /\ i \notin bypassed => Counting(idle'[i], quiet'[i], inhibited)
    BY <1>1, SMTT(30) DEF IdlesCount, Live
  <2>1. Live(i)
    BY <1>4
  <2>2. idle[i].seat \in seats /\ (idle[i].armed => idle[i].timeout > 0)
    BY <2>1, OneIdle
  <2> QED BY <1>3, <1>6, <2>1, <2>2
<1>9. ServerIdles'
  <2> SUFFICES ASSUME NEW p \in seats
               PROVE  /\ idle'[p] \in IdleRec /\ idle'[p].kind = "server" /\ idle'[p].seat = p
                      /\ idle'[p].timeout = 0 /\ idle'[p].idle
    BY <1>1 DEF ServerIdles
  <2>1. /\ idle[p] \in IdleRec /\ idle[p].kind = "server" /\ idle[p].seat = p
        /\ idle[p].timeout = 0 /\ idle[p].idle /\ p \in Ids
    BY <1>2 DEF IInv, ServerIdles, Ids
  <2>2. CASE Live(p)
    BY <1>3, <2>1, <2>2
  <2>3. CASE ~Live(p)
    BY <1>1, <2>1, <2>3
  <2> QED BY <2>2, <2>3
<1> QED BY <1>7, <1>8, <1>9 DEF IInv

(* idle_manager_set_inhibited: every idle that honours inhibition is reset. *)
LEMMA StepSetInhibit ==
  ASSUME IInv, NEW s \in Surfaces, NEW h, SetInhibit(s, h)
  PROVE  IInv'
<1> DEFINE inh == Inhibits([inhibitor EXCEPT ![s] = h], s)
           hit == {i \in Ids : Live(i) /\ inh # inhibited /\ Inhibitable(idle[i])}
<1>1. /\ inhibited' = inh /\ seats' = seats /\ powered' = powered
      /\ idle' = [i \in Ids |-> IF i \in hit THEN Reset(idle[i], inh) ELSE idle[i]]
      /\ quiet' = [i \in Ids |-> IF i \in hit THEN 0 ELSE quiet[i]]
      /\ bypassed' = IF inh THEN bypassed \ hit ELSE bypassed
  BY DEF SetInhibit, Restarted
<1>2. inh \in BOOLEAN
  BY DEF Inhibits
<1> HIDE DEF inh
<1>3. /\ inhibited \in BOOLEAN /\ powered \in BOOLEAN /\ bypassed \subseteq Idles /\ seats \subseteq Seats
      /\ idle \in [Ids -> IdleRec \cup {NoIdle}] /\ quiet \in [Ids -> 0..Longest] /\ 0 \in 0..Longest
  BY LongestFacts DEF IInv, IdleType
<1>4. ASSUME NEW i \in hit
      PROVE  /\ i \in Ids /\ Live(i) /\ idle'[i] \in IdleRec /\ idle'[i].kind = idle[i].kind
             /\ idle'[i].seat = idle[i].seat /\ idle'[i].timeout = idle[i].timeout
             /\ idle'[i].armed => idle'[i].timeout > 0
             /\ i \notin bypassed' => Counting(idle'[i], quiet'[i], inh)
  <2> DEFINE r == idle[i]
  <2>1. i \in Ids /\ Live(i) /\ inh # inhibited /\ Inhibitable(r)
    OBVIOUS
  <2>2. /\ r \in IdleRec /\ (r.armed => r.timeout > 0)
        /\ i \notin bypassed => Counting(r, quiet[i], inhibited)
    BY <2>1, OneIdle
  <2>3. idle'[i] = Reset(r, inh) /\ quiet'[i] = 0
    BY <1>1, <2>1
  <2>4. i \notin bypassed' => inh \/ i \notin bypassed
    BY <1>1
  <2>5. i \notin bypassed' => ~r.idle \/ (inh /\ Inhibitable(r))
    BY <1>2, <1>3, <2>1, <2>2, <2>4 DEF Counting
  <2> HIDE DEF r
  <2>6. /\ Reset(r, inh) \in IdleRec /\ Reset(r, inh).kind = r.kind
        /\ Reset(r, inh).seat = r.seat /\ Reset(r, inh).timeout = r.timeout
    BY <1>2, <2>2, ResetFacts
  <2>7. Reset(r, inh).armed => Reset(r, inh).timeout > 0
    BY <1>2, <2>2, ResetFacts
  <2>8. i \notin bypassed' => Counting(Reset(r, inh), 0, inh)
    BY <1>2, <2>2, <2>5, ResetCounts
  <2> QED BY <2>1, <2>3, <2>6, <2>7, <2>8 DEF r
<1>5. ASSUME NEW i \in Ids \ hit
      PROVE  /\ idle'[i] = idle[i] /\ quiet'[i] = quiet[i]
             /\ Live(i) /\ i \notin bypassed' => Counting(idle[i], quiet[i], inh)
  <2>1. idle'[i] = idle[i] /\ quiet'[i] = quiet[i]
    BY <1>1
  <2>2. i \notin bypassed' => i \notin bypassed
    BY <1>1
  <2>3. Live(i) /\ i \notin bypassed' => Counting(idle[i], quiet[i], inhibited)
    BY <2>2, OneIdle
  <2>4. Live(i) => inh = inhibited \/ ~Inhibitable(idle[i])
    OBVIOUS
  <2> HIDE DEF hit
  <2>5. CASE Live(i) /\ i \notin bypassed'
    <3>1. CASE inh = inhibited
      BY <2>1, <2>3, <3>1
    <3>2. CASE ~Inhibitable(idle[i])
      BY <2>1, <2>3, <2>5, <3>2 DEF Counting
    <3> QED BY <2>4, <2>5, <3>1, <3>2
  <2> QED BY <2>1, <2>5
<1> HIDE DEF hit
<1>6. \A i \in Ids : i \in hit \/ i \in Ids \ hit
  OBVIOUS
<1>7. IdleType'
  <2>1. \A i \in Ids : idle'[i] \in IdleRec \cup {NoIdle}
    BY <1>3, <1>4, <1>5, <1>6
  <2>2. idle' \in [Ids -> IdleRec \cup {NoIdle}]
    BY <1>1, <2>1
  <2>3. quiet' \in [Ids -> 0..Longest] /\ bypassed' \subseteq Idles
    BY <1>1, <1>3
  <2> QED BY <1>1, <1>2, <1>3, <2>2, <2>3 DEF IdleType
<1>8. IdlesCount'
  <2> SUFFICES ASSUME NEW i \in Ids, idle'[i] # NoIdle
               PROVE  /\ idle'[i].seat \in seats /\ (idle'[i].armed => idle'[i].timeout > 0)
                      /\ i \notin bypassed' => Counting(idle'[i], quiet'[i], inh)
    BY <1>1 DEF IdlesCount, Live
  <2>1. CASE i \in hit
    <3>1. Live(i) /\ idle[i].seat \in seats
      BY <1>4, <2>1, OneIdle
    <3> QED BY <1>4, <2>1, <3>1
  <2>2. CASE i \in Ids \ hit
    <3>1. idle'[i] = idle[i] /\ quiet'[i] = quiet[i] /\ Live(i)
      BY <1>5, <2>2 DEF Live
    <3>2. idle[i].seat \in seats /\ (idle[i].armed => idle[i].timeout > 0)
      BY <3>1, OneIdle
    <3> QED BY <1>5, <2>2, <3>1, <3>2
  <2> QED BY <1>6, <2>1, <2>2
<1>9. ServerIdles'
  <2> SUFFICES ASSUME NEW p \in seats
               PROVE  /\ idle'[p] \in IdleRec /\ idle'[p].kind = "server" /\ idle'[p].seat = p
                      /\ idle'[p].timeout = 0 /\ idle'[p].idle
    BY <1>1 DEF ServerIdles
  <2>1. /\ idle[p] \in IdleRec /\ idle[p].kind = "server" /\ idle[p].seat = p
        /\ idle[p].timeout = 0 /\ idle[p].idle /\ p \in Ids
    BY <1>3 DEF IInv, ServerIdles, Ids
  <2>2. p \notin hit
    BY <2>1 DEF hit, Inhibitable
  <2> QED BY <1>5, <2>1, <2>2
<1> QED BY <1>7, <1>8, <1>9 DEF IInv
-----------------------------------------------------------------------------
(* At first there is no inhibitor. *)
LEMMA InitSInv == Init => SInv
<1> SUFFICES ASSUME Init PROVE SInv
  OBVIOUS
<1>1. /\ surface = [s \in Surfaces |-> [view |-> FALSE, mapped |-> FALSE, minimized |-> FALSE]]
      /\ inhibitor = [s \in Surfaces |-> NoInhibitor] /\ stuck = FALSE /\ inhibited = FALSE
  BY DEF Init
<1>2. surface \in [Surfaces -> SurfaceRec] /\ \A s \in Surfaces : ~surface[s].minimized
  BY <1>1 DEF SurfaceRec
<1>3. \A s \in Surfaces : inhibitor[s] = NoInhibitor
  BY <1>1
<1> QED BY <1>1, <1>2, <1>3, Zenon DEF SInv

(* A change of surface s and of its inhibitor, followed by
   idle_inhibitor_set_inhibit. *)
LEMMA OneFollows ==
  ASSUME SInv, NEW s \in Surfaces, NEW h \in InhibitorRec \cup {NoInhibitor},
         NEW w \in SurfaceRec, SetInhibit(s, h), surface' = [surface EXCEPT ![s] = w],
         stuck' \in BOOLEAN, s \notin Toplevels => ~w.minimized,
         h # NoInhibitor => Follows(h, s, w)
  PROVE  SInv'
<1>1. surface \in [Surfaces -> SurfaceRec] /\ inhibitor \in [Surfaces -> InhibitorRec \cup {NoInhibitor}]
  BY DEF SInv
<1>2. /\ inhibitor' = [inhibitor EXCEPT ![s] = h]
      /\ inhibited' = \E t \in Surfaces : inhibitor'[t] # NoInhibitor /\ inhibitor'[t].visible
  BY DEF SetInhibit, Inhibits
<1>3. /\ surface'[s] = w /\ inhibitor'[s] = h
      /\ \A t \in Surfaces \ {s} : surface'[t] = surface[t] /\ inhibitor'[t] = inhibitor[t]
  BY <1>1, <1>2
<1>4. /\ surface' \in [Surfaces -> SurfaceRec]
      /\ inhibitor' \in [Surfaces -> InhibitorRec \cup {NoInhibitor}]
  BY <1>1, <1>2
<1>5. \A t \in Surfaces \ Toplevels : ~surface'[t].minimized
  BY <1>3 DEF SInv
<1>6. \A t \in Surfaces : inhibitor'[t] # NoInhibitor => Follows(inhibitor'[t], t, surface'[t])
  BY <1>3 DEF SInv
<1> QED BY <1>2, <1>4, <1>5, <1>6 DEF SInv

(* A surface without an inhibitor changes. *)
LEMMA NoneFollows ==
  ASSUME SInv, NEW s \in Surfaces, inhibitor[s] = NoInhibitor, NEW w \in SurfaceRec,
         surface' = [surface EXCEPT ![s] = w], inhibitor' = inhibitor, inhibited' = inhibited,
         stuck' \in BOOLEAN, s \notin Toplevels => ~w.minimized
  PROVE  SInv'
<1>1. surface \in [Surfaces -> SurfaceRec]
  BY DEF SInv
<1>2. surface'[s] = w /\ \A t \in Surfaces \ {s} : surface'[t] = surface[t]
  BY <1>1
<1>3. surface' \in [Surfaces -> SurfaceRec] /\ \A t \in Surfaces \ Toplevels : ~surface'[t].minimized
  BY <1>1, <1>2 DEF SInv
<1>4. \A t \in Surfaces : inhibitor'[t] # NoInhibitor => Follows(inhibitor'[t], t, surface'[t])
  BY <1>2 DEF SInv
<1> QED BY <1>3, <1>4 DEF SInv

(* An inhibitor after handle_surface_map: of a toplevel whose view is not mapped
   yet, of one whose view is, and of another surface. *)
LEMMA MappedLater ==
  ASSUME NEW h \in InhibitorRec, NEW s \in Toplevels, NEW m
  PROVE  LET n == SurfaceMapped(h, s, FALSE, m) IN
         /\ n \in InhibitorRec /\ n.onMap = h.onMap /\ n.visible = h.visible
         /\ n.minimizes > 0 /\ n.maps > 0
<1> DEFINE x == Twice(h.maps)
           y == Twice(h.minimizes)
<1>1. x \in 0..2 /\ x > 0 /\ y \in 0..2 /\ y > 0
  BY DEF Twice, InhibitorRec
<1>2. SurfaceMapped(h, s, FALSE, m) = [h EXCEPT !.maps = x, !.minimizes = y]
  BY DEF SurfaceMapped
<1> HIDE DEF x, y
<1> QED BY <1>1, <1>2, Zenon DEF InhibitorRec

(* The view is mapped. *)
LEMMA MappedNow ==
  ASSUME NEW h \in InhibitorRec, NEW s \in Toplevels, NEW m
  PROVE  LET n == SurfaceMapped(h, s, TRUE, m) IN
         /\ n \in InhibitorRec /\ n.onMap = h.onMap /\ n.minimizes > 0
         /\ n.visible => ~m
         /\ ~m => n.visible
<1> DEFINE v == ~m
           y == Twice(h.minimizes)
           n == SurfaceMapped(h, s, TRUE, m)
<1>1. y \in 0..2 /\ y > 0 /\ v \in BOOLEAN
  BY DEF Twice, InhibitorRec
<1>2. n = [h EXCEPT !.visible = v, !.maps = 0, !.minimizes = y]
  BY DEF SurfaceMapped, Shown
<1> HIDE DEF v, y, n
<1>3. /\ n = [onMap |-> h.onMap, first |-> h.first, maps |-> 0, minimizes |-> y, visible |-> v]
      /\ h.onMap \in BOOLEAN /\ h.first \in BOOLEAN
  BY <1>2, Zenon DEF InhibitorRec
<1>4. n \in InhibitorRec
  BY <1>1, <1>3 DEF InhibitorRec
<1>5. n.onMap = h.onMap /\ n.visible = v /\ n.minimizes = y
  BY <1>3
<1> QED BY <1>1, <1>4, <1>5, Zenon DEF n, v

(* The surface is no toplevel. *)
LEMMA MappedOther ==
  ASSUME NEW h \in InhibitorRec, NEW s, s \notin Toplevels, NEW m
  PROVE  LET n == SurfaceMapped(h, s, TRUE, m) IN
         n \in InhibitorRec /\ n.onMap = h.onMap /\ n.visible
<1>1. SurfaceMapped(h, s, TRUE, m) = [h EXCEPT !.visible = TRUE]
  BY DEF SurfaceMapped
<1> QED BY <1>1, Zenon DEF InhibitorRec

(* What the invariant says of one surface. *)
LEMMA OneSurface ==
  ASSUME SInv, NEW s \in Surfaces
  PROVE  /\ surface[s] \in SurfaceRec /\ surface[s].view \in BOOLEAN /\ surface[s].mapped \in BOOLEAN
         /\ surface[s].minimized \in BOOLEAN
         /\ s \notin Toplevels => ~surface[s].minimized
         /\ inhibitor[s] # NoInhibitor =>
              inhibitor[s] \in InhibitorRec /\ Follows(inhibitor[s], s, surface[s])
<1>1. /\ surface[s] \in SurfaceRec
      /\ s \notin Toplevels => ~surface[s].minimized
      /\ inhibitor[s] # NoInhibitor =>
           inhibitor[s] \in InhibitorRec /\ Follows(inhibitor[s], s, surface[s])
  BY DEF SInv
<1> QED BY <1>1 DEF SurfaceRec

(* handle_new_idle_inhibitor. *)
LEMMA StepNewInhibitor ==
  ASSUME SInv, NEW s \in Surfaces, NewInhibitor(s)
  PROVE  SInv'
<1> DEFINE w == surface[s]
           a == ~w.mapped
           b == ~w.view
           h == [onMap |-> a, first |-> b, maps |-> 0, minimizes |-> 0, visible |-> FALSE]
           n == IF w.mapped THEN SurfaceMapped(h, s, TRUE, w.minimized) ELSE h
<1>1. SetInhibit(s, n) /\ surface' = surface /\ stuck' = stuck
  BY Zenon DEF NewInhibitor
<1>2. w \in SurfaceRec /\ w.mapped \in BOOLEAN /\ w.minimized \in BOOLEAN
      /\ (s \notin Toplevels => ~w.minimized)
  BY OneSurface
<1>3. surface' = [surface EXCEPT ![s] = w] /\ stuck' \in BOOLEAN
  BY <1>1 DEF SInv
<1> HIDE DEF w
<1>4. a \in BOOLEAN /\ b \in BOOLEAN /\ a = ~w.mapped
  OBVIOUS
<1> HIDE DEF a, b
<1>5. h \in InhibitorRec /\ h.onMap = a /\ ~h.visible /\ h.maps = 0
  BY <1>4 DEF InhibitorRec
<1> HIDE DEF h
<1>6. n \in InhibitorRec /\ Follows(n, s, w)
  <2>1. CASE ~w.mapped
    BY <1>5, <2>1 DEF Follows
  <2>2. CASE w.mapped
    <3>1. /\ n \in InhibitorRec /\ n.onMap = h.onMap
          /\ s \notin Toplevels => n.visible
          /\ s \in Toplevels => /\ n.minimizes > 0
                                /\ n.visible => ~w.minimized
                                /\ ~w.minimized => n.visible
      <4>1. n = SurfaceMapped(h, s, TRUE, w.minimized)
        BY <2>2
      <4> HIDE DEF n
      <4>2. s \in Toplevels => n \in InhibitorRec /\ n.onMap = h.onMap
                             /\ n.minimizes > 0
                             /\ (n.visible => ~w.minimized) /\ (~w.minimized => n.visible)
        BY <1>5, <4>1, MappedNow, Zenon
      <4>3. s \notin Toplevels => n \in InhibitorRec /\ n.onMap = h.onMap /\ n.visible
        BY <1>5, <4>1, MappedOther, Zenon
      <4> QED BY <4>2, <4>3
    <3>2. ~n.onMap
      BY <1>4, <1>5, <2>2, <3>1, Zenon
    <3> HIDE DEF n
    <3>3. CASE s \in Toplevels
      <4>1. n.minimizes > 0 /\ (n.visible => ~w.minimized)
        BY <3>1, <3>3
      <4> QED BY <2>2, <3>1, <3>2, <4>1 DEF Follows
    <3>4. CASE s \notin Toplevels
      BY <1>2, <2>2, <3>1, <3>2, <3>4 DEF Follows
    <3> QED BY <3>1, <3>3, <3>4
  <2> QED BY <1>2, <2>1, <2>2, Zenon
<1> HIDE DEF n
<1> QED BY <1>1, <1>2, <1>3, <1>6, OneFollows, Zenon

(* The inhibitor is destroyed. *)
LEMMA StepDestroyInhibitor ==
  ASSUME SInv, NEW s \in Surfaces, DestroyInhibitor(s)
  PROVE  SInv'
<1>1. SetInhibit(s, NoInhibitor) /\ surface' = [surface EXCEPT ![s] = surface[s]] /\ stuck' \in BOOLEAN
  BY DEF DestroyInhibitor, SInv
<1> QED BY <1>1, OneSurface, OneFollows, Zenon

(* The surface becomes a toplevel. *)
LEMMA StepNewView ==
  ASSUME SInv, NEW s \in Surfaces, NewView(s)
  PROVE  SInv'
<1> DEFINE w == [surface[s] EXCEPT !.view = TRUE]
<1>1. surface \in [Surfaces -> SurfaceRec] /\ inhibitor \in [Surfaces -> InhibitorRec \cup {NoInhibitor}]
  BY DEF SInv
<1>2. surface' = [surface EXCEPT ![s] = w] /\ inhibitor' = inhibitor /\ inhibited' = inhibited
      /\ stuck' = stuck
  BY <1>1 DEF NewView
<1>3. w \in SurfaceRec /\ w.mapped = surface[s].mapped /\ w.minimized = surface[s].minimized
  BY <1>1, Zenon DEF SurfaceRec
<1> HIDE DEF w
<1>4. /\ surface'[s] = w /\ surface' \in [Surfaces -> SurfaceRec]
      /\ \A t \in Surfaces \ {s} : surface'[t] = surface[t]
  BY <1>1, <1>2, <1>3
<1>5. \A t \in Surfaces : surface'[t].mapped = surface[t].mapped
                         /\ surface'[t].minimized = surface[t].minimized
  BY <1>3, <1>4
<1>6. \A t \in Surfaces : inhibitor'[t] # NoInhibitor => Follows(inhibitor'[t], t, surface'[t])
  BY <1>2, <1>5 DEF SInv, Follows
<1> QED BY <1>2, <1>4, <1>5, <1>6 DEF SInv

(* The map event: whichever of the two listeners is first, an inhibitor that
   was waiting for it takes over what the view shows. *)
LEMMA StepMapToplevel ==
  ASSUME SInv, NEW s \in Surfaces, NEW asked \in BOOLEAN, NEW focus \in BOOLEAN,
         MapToplevel(s, asked, focus)
  PROVE  SInv'
<1> DEFINE m == asked /\ ~focus
           w == [surface[s] EXCEPT !.mapped = TRUE, !.minimized = m]
<1>1. surface[s] \in SurfaceRec /\ surface \in [Surfaces -> SurfaceRec] /\ stuck \in BOOLEAN
  BY DEF SInv
<1>2. surface' = [surface EXCEPT ![s] = w] /\ s \in Toplevels /\ ~surface[s].mapped
  BY <1>1, Zenon DEF MapToplevel
<1>3. m \in BOOLEAN
  OBVIOUS
<1> HIDE DEF m
<1>4. w \in SurfaceRec /\ w.mapped = TRUE /\ w.minimized = m
  BY <1>1, <1>3, Zenon DEF SurfaceRec
<1> HIDE DEF w
<1>5. CASE inhibitor[s] = NoInhibitor
  <2>1. inhibitor' = inhibitor /\ inhibited' = inhibited /\ stuck' = stuck
    BY <1>5 DEF MapToplevel
  <2> QED BY <1>1, <1>2, <1>4, <1>5, <2>1, NoneFollows, Zenon
<1>6. CASE inhibitor[s] # NoInhibitor
  <2> DEFINE h == inhibitor[s]
             h1 == IF h.onMap /\ h.first THEN SurfaceMapped(h, s, FALSE, asked) ELSE h
             h2 == IF h1.maps > 0 \/ (h1.minimizes > 0 /\ asked /\ focus)
                   THEN [h1 EXCEPT !.visible = Shown(m)] ELSE h1
             h3 == IF h.onMap /\ ~h.first THEN SurfaceMapped(h2, s, TRUE, m) ELSE h2
  <2>1. /\ stuck' \in {FALSE, h1.maps > 1 \/ (asked /\ focus /\ h1.minimizes > 1)}
        /\ SetInhibit(s, h3)
    BY <1>6, Zenon DEF MapToplevel, ViewMap, Emission, m
  <2>2. stuck' \in BOOLEAN
    BY <2>1, ZenonT(40)
  <2>3. /\ h \in InhibitorRec /\ h.onMap \in BOOLEAN /\ h.first \in BOOLEAN /\ ~h.visible
        /\ h.maps > 0 => h.minimizes > 0
    BY <1>2, <1>6, OneSurface DEF Follows, InhibitorRec
  <2> HIDE DEF h
  <2>4. /\ h1 \in InhibitorRec /\ h1.onMap = h.onMap /\ h1.visible = h.visible
        /\ h1.maps > 0 => h1.minimizes > 0
        /\ h.onMap /\ h.first => h1.maps > 0
    <3>1. CASE h.onMap /\ h.first
      <4> DEFINE n == SurfaceMapped(h, s, FALSE, asked)
      <4>1. /\ n \in InhibitorRec /\ n.onMap = h.onMap /\ n.visible = h.visible
            /\ n.minimizes > 0 /\ n.maps > 0
        BY <1>2, <2>3, MappedLater, Zenon
      <4> HIDE DEF n
      <4>2. h1 = n
        BY <3>1 DEF n
      <4> HIDE DEF h1
      <4> QED BY <4>1, <4>2
    <3>2. CASE ~(h.onMap /\ h.first)
      BY <2>3, <3>2, Zenon
    <3> QED BY <3>1, <3>2, Zenon
  <2> HIDE DEF h1
  <2>5. /\ h2 \in InhibitorRec /\ h2.onMap = h.onMap
        /\ h2.maps > 0 => h2.minimizes > 0
        /\ h2.visible => h2.minimizes > 0 /\ ~m
        /\ h.onMap /\ h.first => h2.visible = ~m /\ h2.minimizes > 0
    <3> DEFINE v == ~m
    <3>1. v \in BOOLEAN /\ Shown(m) = v
      BY DEF Shown
    <3>2. CASE h1.maps > 0 \/ (h1.minimizes > 0 /\ asked /\ focus)
      <4> HIDE DEF v
      <4>1. /\ h2 \in InhibitorRec /\ h2.onMap = h1.onMap /\ h2.visible = v
            /\ h2.maps = h1.maps /\ h2.minimizes = h1.minimizes
        BY <2>4, <3>1, <3>2 DEF InhibitorRec
      <4> QED BY <2>4, <3>2, <4>1, Zenon DEF v
    <3>3. CASE ~(h1.maps > 0 \/ (h1.minimizes > 0 /\ asked /\ focus))
      BY <2>3, <2>4, <3>3
    <3> QED BY <3>2, <3>3
  <2> HIDE DEF h2
  <2>6. h3 \in InhibitorRec /\ Follows(h3, s, w)
    <3>1. CASE h.onMap /\ ~h.first
      <4> DEFINE n == SurfaceMapped(h2, s, TRUE, m)
      <4>1. /\ n \in InhibitorRec /\ n.onMap = h2.onMap /\ n.minimizes > 0
            /\ n.visible => ~m
            /\ ~m => n.visible
        BY <1>2, <2>5, MappedNow, Zenon
      <4> HIDE DEF n
      <4>2. h3 = n
        BY <3>1 DEF n
      <4> HIDE DEF h3
      <4> QED BY <1>4, <4>1, <4>2 DEF Follows
    <3>2. CASE ~(h.onMap /\ ~h.first)
      <4>1. h3 = h2
        BY <3>2, Zenon
      <4>2. h2.onMap => h2.visible = ~m /\ h2.minimizes > 0
        BY <2>3, <2>5, <3>2
      <4> QED BY <1>4, <2>5, <4>1, <4>2, Zenon DEF Follows
    <3> QED BY <3>1, <3>2, Zenon
  <2> HIDE DEF h3
  <2> QED BY <1>2, <1>4, <2>1, <2>2, <2>6, OneFollows, Zenon
<1> QED BY <1>5, <1>6

(* Another surface is mapped. *)
LEMMA StepMapOther ==
  ASSUME SInv, NEW s \in Surfaces, MapOther(s)
  PROVE  SInv'
<1> DEFINE w == [surface[s] EXCEPT !.mapped = TRUE]
<1>1. /\ surface[s] \in SurfaceRec /\ surface \in [Surfaces -> SurfaceRec] /\ stuck \in BOOLEAN
      /\ s \notin Toplevels => ~surface[s].minimized
  BY DEF SInv
<1>2. surface' = [surface EXCEPT ![s] = w] /\ s \notin Toplevels /\ ~surface[s].mapped /\ stuck' = stuck
  BY <1>1, Zenon DEF MapOther
<1>3. w \in SurfaceRec /\ w.mapped /\ ~w.minimized
  BY <1>1, <1>2, Zenon DEF SurfaceRec
<1> HIDE DEF w
<1>4. CASE inhibitor[s] = NoInhibitor
  <2>1. inhibitor' = inhibitor /\ inhibited' = inhibited
    BY <1>4 DEF MapOther
  <2> QED BY <1>1, <1>2, <1>3, <1>4, <2>1, NoneFollows, Zenon
<1>5. CASE inhibitor[s] # NoInhibitor
  <2> DEFINE h == inhibitor[s]
             n == IF h.onMap THEN SurfaceMapped(h, s, TRUE, FALSE) ELSE h
  <2>1. SetInhibit(s, n)
    BY <1>5, Zenon DEF MapOther
  <2>2. h \in InhibitorRec /\ ~h.visible
    BY <1>2, <1>5, OneSurface DEF Follows
  <2> HIDE DEF h
  <2>3. n \in InhibitorRec /\ Follows(n, s, w)
    <3>1. CASE h.onMap
      BY <1>2, <1>3, <2>2, <3>1, MappedOther, Zenon DEF Follows
    <3>2. CASE ~h.onMap
      BY <1>2, <2>2, <3>2 DEF Follows
    <3> QED BY <3>1, <3>2, Zenon
  <2> HIDE DEF n
  <2> QED BY <1>1, <1>2, <1>3, <2>1, <2>3, OneFollows, Zenon
<1> QED BY <1>4, <1>5

(* A surface is unmapped. *)
LEMMA StepUnmap ==
  ASSUME SInv, NEW s \in Surfaces, Unmap(s)
  PROVE  SInv'
<1> DEFINE w == [surface[s] EXCEPT !.mapped = FALSE]
<1>1. /\ surface[s] \in SurfaceRec /\ surface \in [Surfaces -> SurfaceRec] /\ stuck \in BOOLEAN
      /\ s \notin Toplevels => ~surface[s].minimized
  BY DEF SInv
<1>2. surface' = [surface EXCEPT ![s] = w] /\ stuck' = stuck
  BY <1>1 DEF Unmap
<1>3. w \in SurfaceRec /\ ~w.mapped /\ w.minimized = surface[s].minimized
  BY <1>1, Zenon DEF SurfaceRec
<1> HIDE DEF w
<1>4. CASE inhibitor[s] = NoInhibitor
  <2>1. inhibitor' = inhibitor /\ inhibited' = inhibited
    BY <1>4 DEF Unmap
  <2> QED BY <1>1, <1>2, <1>3, <1>4, <2>1, NoneFollows, Zenon
<1>5. CASE inhibitor[s] # NoInhibitor
  <2> DEFINE n == [inhibitor[s] EXCEPT !.visible = FALSE]
  <2>1. SetInhibit(s, n)
    BY <1>5 DEF Unmap
  <2>2. inhibitor[s] \in InhibitorRec /\ Follows(inhibitor[s], s, surface[s])
    BY <1>5, OneSurface
  <2>3. n \in InhibitorRec /\ ~n.visible /\ n.maps = inhibitor[s].maps /\ n.minimizes = inhibitor[s].minimizes
    BY <2>2, Zenon DEF InhibitorRec
  <2> HIDE DEF n
  <2>4. Follows(n, s, w)
    BY <1>3, <2>2, <2>3 DEF Follows
  <2> QED BY <1>1, <1>2, <1>3, <2>1, <2>3, <2>4, OneFollows, Zenon
<1> QED BY <1>4, <1>5

(* A view is minimized or restored. *)
LEMMA StepMinimize ==
  ASSUME SInv, NEW s \in Surfaces, Minimize(s)
  PROVE  SInv'
<1> DEFINE m == ~surface[s].minimized
           w == [surface[s] EXCEPT !.minimized = m]
<1>1. surface[s] \in SurfaceRec /\ surface \in [Surfaces -> SurfaceRec] /\ stuck \in BOOLEAN
  BY DEF SInv
<1>2. surface' = [surface EXCEPT ![s] = w] /\ s \in Toplevels /\ surface[s].mapped
  BY <1>1 DEF Minimize
<1>3. m \in BOOLEAN /\ m = ~surface[s].minimized
  OBVIOUS
<1> HIDE DEF m
<1>4. w \in SurfaceRec /\ w.mapped = surface[s].mapped /\ w.minimized = m
  BY <1>1, <1>3, Zenon DEF SurfaceRec
<1> HIDE DEF w
<1>5. CASE inhibitor[s] = NoInhibitor
  <2>1. inhibitor' = inhibitor /\ inhibited' = inhibited /\ stuck' = stuck
    BY <1>5 DEF Minimize
  <2> QED BY <1>1, <1>2, <1>4, <1>5, <2>1, NoneFollows, Zenon
<1>6. CASE inhibitor[s] # NoInhibitor
  <2> DEFINE h == inhibitor[s]
             n == IF h.minimizes > 0 THEN [h EXCEPT !.visible = Shown(m)] ELSE h
  <2>1. SetInhibit(s, n) /\ stuck' \in {FALSE, h.minimizes > 1}
    BY <1>6, Zenon DEF Minimize, Emission, m
  <2>2. stuck' \in BOOLEAN
    <3>1. (h.minimizes > 1) \in BOOLEAN
      BY <1>6, OneSurface DEF InhibitorRec
    <3> QED BY <2>1, <3>1, Zenon
  <2>3. h \in InhibitorRec /\ Follows(h, s, surface[s])
    BY <1>6, OneSurface
  <2> HIDE DEF h
  <2>4. n \in InhibitorRec /\ Follows(n, s, w)
    <3>1. CASE h.minimizes > 0
      <4> DEFINE v == ~m
      <4>1. v \in BOOLEAN /\ Shown(m) = v
        BY DEF Shown
      <4> HIDE DEF v
      <4>2. /\ n \in InhibitorRec /\ n.visible = v /\ n.maps = h.maps
            /\ n.minimizes = h.minimizes
        BY <2>3, <3>1, <4>1 DEF InhibitorRec
      <4> HIDE DEF n
      <4> QED BY <1>2, <1>4, <3>1, <4>2, Zenon DEF Follows, v
    <3>2. CASE ~(h.minimizes > 0)
      <4>1. ~h.visible /\ ~h.onMap /\ n = h /\ ~(h.maps > 0)
        BY <1>2, <2>3, <3>2 DEF Follows
      <4> QED BY <2>3, <4>1, Zenon DEF Follows
    <3> QED BY <3>1, <3>2
  <2> HIDE DEF n
  <2> QED BY <1>2, <1>4, <2>1, <2>2, <2>4, OneFollows, Zenon
<1> QED BY <1>5, <1>6
-----------------------------------------------------------------------------
(* Every step keeps both invariants. *)
LEMMA StepInv == IInv /\ SInv /\ [Next]_vars => IInv' /\ SInv'
<1> SUFFICES ASSUME IInv, SInv, [Next]_vars PROVE IInv' /\ SInv'
  OBVIOUS
<1>1. ASSUME UNCHANGED <<seatVars, inhibited>>
      PROVE  IInv'
  BY <1>1 DEF seatVars, IInv, IdleType, IdlesCount, ServerIdles, Live
<1>2. ASSUME UNCHANGED <<inhibited, surfaceVars>>
      PROVE  SInv'
  BY <1>2 DEF surfaceVars, SInv
<1>3. CASE Clients
  <2>1. ASSUME NEW i \in Idles, NEW k \in {"kde", "notifier", "input"}, NEW s \in Seats,
               NEW t \in Timeouts, NewIdle(i, k, s, t)
        PROVE  IInv' /\ SInv'
    BY <1>2, <2>1, StepNewIdle, Zenon DEF NewIdle
  <2>2. ASSUME NEW i \in Idles, DestroyIdle(i) PROVE IInv' /\ SInv'
    BY <1>2, <2>2, StepDestroyIdle, Zenon DEF DestroyIdle
  <2>3. ASSUME NEW i \in Idles, Simulate(i) PROVE IInv' /\ SInv'
    BY <1>2, <2>3, StepSimulate, Zenon DEF Simulate
  <2>4. ASSUME NEW s \in Surfaces, NewInhibitor(s) PROVE IInv' /\ SInv'
    <3>1. \E h : SetInhibit(s, h)
      BY <2>4, Zenon DEF NewInhibitor
    <3> QED BY <2>4, <3>1, StepSetInhibit, StepNewInhibitor
  <2>5. ASSUME NEW s \in Surfaces, DestroyInhibitor(s) PROVE IInv' /\ SInv'
    <3>1. \E h : SetInhibit(s, h)
      BY <2>5 DEF DestroyInhibitor
    <3> QED BY <2>5, <3>1, StepSetInhibit, StepDestroyInhibitor
  <2>6. ASSUME NEW s \in Surfaces, NewView(s) PROVE IInv' /\ SInv'
    BY <1>1, <2>6, StepNewView, Zenon DEF NewView
  <2>7. ASSUME NEW s \in Surfaces, MapOther(s) PROVE IInv' /\ SInv'
    <3>1. UNCHANGED <<seatVars, inhibited>> \/ \E h : SetInhibit(s, h)
      BY <2>7, Zenon DEF MapOther
    <3> QED BY <1>1, <2>7, <3>1, StepSetInhibit, StepMapOther
  <2>8. ASSUME NEW s \in Surfaces, Unmap(s) PROVE IInv' /\ SInv'
    <3>1. UNCHANGED <<seatVars, inhibited>> \/ \E h : SetInhibit(s, h)
      BY <2>8 DEF Unmap
    <3> QED BY <1>1, <2>8, <3>1, StepSetInhibit, StepUnmap
  <2>9. ASSUME NEW s \in Surfaces, Minimize(s) PROVE IInv' /\ SInv'
    <3>1. UNCHANGED <<seatVars, inhibited>> \/ \E h : SetInhibit(s, h)
      BY <2>9 DEF Minimize
    <3> QED BY <1>1, <2>9, <3>1, StepSetInhibit, StepMinimize
  <2>10. ASSUME NEW s \in Surfaces, NEW asked \in BOOLEAN, NEW focus \in BOOLEAN,
                MapToplevel(s, asked, focus)
         PROVE  IInv' /\ SInv'
    <3>1. UNCHANGED <<seatVars, inhibited>> \/ \E h : SetInhibit(s, h)
      BY <2>10, Zenon DEF MapToplevel, ViewMap
    <3> QED BY <1>1, <2>10, <3>1, StepSetInhibit, StepMapToplevel
  <2> QED BY <1>3, <2>1, <2>2, <2>3, <2>4, <2>5, <2>6, <2>7, <2>8, <2>9, <2>10 DEF Clients
<1>4. CASE Environment
  <2>1. ASSUME NEW s \in Seats, NewSeat(s) PROVE IInv' /\ SInv'
    BY <1>2, <2>1, StepNewSeat, Zenon DEF NewSeat
  <2>2. ASSUME NEW s \in Seats, DestroySeat(s) PROVE IInv' /\ SInv'
    BY <1>2, <2>2, StepDestroySeat DEF DestroySeat
  <2>3. ASSUME NEW s \in Seats, Activity(s) PROVE IInv' /\ SInv'
    BY <1>2, <2>3, StepActivity DEF Activity
  <2>4. CASE Tick
    BY <1>2, <2>4, StepTick DEF Tick
  <2>5. CASE PowerOff
    <3>1. IInv'
      BY <2>5, Zenon DEF PowerOff, IInv, IdleType, IdlesCount, ServerIdles, Live
    <3> QED BY <1>2, <2>5, <3>1 DEF PowerOff
  <2>6. ASSUME NEW i \in Ids, Timer(i) PROVE IInv' /\ SInv'
    BY <1>2, <2>6, StepTimer, Zenon DEF Timer
  <2> QED BY <1>4, <2>1, <2>2, <2>3, <2>4, <2>5, <2>6 DEF Environment
<1>5. CASE UNCHANGED vars
  BY <1>1, <1>2, <1>5 DEF vars
<1> QED BY <1>3, <1>4, <1>5 DEF Next, Hung

(* The two invariants, about the idles and about the inhibitors, are kept. *)
THEOREM IdleInvariant == Spec => [](IInv /\ SInv)
BY InitIInv, InitSInv, StepInv, PTL DEF Spec

(* Inhibition is in force while, and only while, what an inhibitor belongs to
   is shown, for any number of surfaces and any order of their events: each
   path of idle_inhibit.c leaves the flag of the inhibitor right. *)
THEOREM InhibitionFollowsScreen == Spec => []InhibitsWhileShown
<1>1. SInv => InhibitsWhileShown
  <2> SUFFICES ASSUME SInv PROVE InhibitsWhileShown
    OBVIOUS
  <2>1. inhibited => \E s \in Surfaces : inhibitor[s] # NoInhibitor /\ Visible(s)
    BY Zenon DEF SInv, Follows, Visible
  <2>2. \A s \in Surfaces :
          inhibitor[s] # NoInhibitor /\ inhibitor[s].onMap /\ Visible(s) => inhibited
    BY DEF SInv, Follows, Visible
  <2> QED BY <2>1, <2>2 DEF InhibitsWhileShown
<1> QED BY <1>1, IdleInvariant, PTL

(* Nothing that honours inhibition is idle, or has its timer running, while
   inhibition is in force: idle_manager_set_inhibited reaches every idle, and
   one created later starts without a timer. *)
THEOREM InhibitionHoldsTimers == Spec => []InhibitedStaysActive
<1>1. IInv => InhibitedStaysActive
  BY DEF IInv, IdlesCount, InhibitedStaysActive, Held, Counting
<1> QED BY <1>1, IdleInvariant, PTL

(* No client is told too early that its user is idle, whatever its timeout and
   however activity, inhibition and expiry of the timer follow each other. *)
THEOREM IdleOnlyAfterQuiet == Spec => []IdleAfterQuiet
<1>1. IInv /\ SInv => IdleAfterQuiet
  <2> SUFFICES ASSUME IInv, SInv PROVE IdleAfterQuiet
    OBVIOUS
  <2>1. \A i \in Ids : Live(i) =>
          /\ idle[i] \in [kind : {"kde", "notifier", "input", "server"}, seat : seats,
                          timeout : Timeouts \cup {0}, armed : BOOLEAN,
                          left : Timeouts \cup 0..Longest, idle : BOOLEAN]
          /\ idle[i].armed => idle[i].timeout > 0
    BY OneIdle DEF IdleRec
  <2>2. TypeOK
    BY <2>1 DEF TypeOK, IInv, SInv, IdleType, SurfaceRec, InhibitorRec
  <2>3. \A i \in Ids \ bypassed : Live(i) /\ idle[i].idle => quiet[i] >= idle[i].timeout
    BY DEF IInv, IdlesCount, Counting
  <2> QED BY <2>2, <2>3 DEF IdleAfterQuiet
<1> QED BY <1>1, IdleInvariant, PTL

(* Any input event of any seat leaves the outputs on: the server's own idle of
   the seat, of timeout 0, is idle whenever an event arrives. *)
THEOREM ActivityTurnsOn == Spec => ActivityWakes
<1>1. IInv /\ [Next]_vars => [\A s \in Seats : Activity(s) => powered']_vars
  BY StepActivity
<1>2. Spec => [][\A s \in Seats : Activity(s) => powered']_vars
  BY <1>1, IdleInvariant, PTL DEF Spec
<1> QED BY <1>2 DEF ActivityWakes
=============================================================================
