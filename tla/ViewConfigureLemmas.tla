------------------------- MODULE ViewConfigureLemmas -------------------------
(***************************************************************************)
(* The invariant of the configuration of windows, what each operation on a *)
(* window draws, tells the client and waits for, and that the requests of  *)
(* the user and the client keep the invariant.                             *)
(***************************************************************************)
EXTENDS ViewConfigure, TLAPS

Confs == [serial : Nat, action : SUBSET SizeActions, geo : Boxes, timer : BOOLEAN]

(* A window in the middle of an operation: actions are collected. *)
Views == [geo : Boxes, saved : Boxes, state : {"mapped", "unmapped", "initial"},
          max : BOOLEAN, full : BOOLEAN, tile : Tiles,
          action : SUBSET (SizeActions \cup {"move"}), want : Boxes, conf : Confs,
          told : ToldStates, idle : Nat, serial : Nat]

(* The window's own state, which configuring it does not change. *)
Rest(n, s) ==
  n.saved = s.saved /\ n.state = s.state /\ n.max = s.max /\ n.full = s.full /\ n.tile = s.tile

(* An event waited for, or scheduled, is not beyond the last one. *)
Serials(s) ==
  /\ s.idle \in {0, s.serial}
  /\ s.conf.serial <= s.serial

(* A window waits for something, and with a timer when it is mapped. *)
WaitsFor(s) ==
  /\ s.conf.serial = 0 => s.conf = NoConf
  /\ s.conf.serial # 0 => s.conf.action # {}

Timed(s) == s.state = "mapped" => (s.conf.timer <=> s.conf.serial # 0)

Waits(s) == WaitsFor(s) /\ Timed(s)

(* What the client was told last is what the compositor acts on. *)
Knows(s) ==
  /\ s.told.max = s.max /\ s.told.full = s.full
  /\ s.told.tile = (s.tile # "none")

(* What the client is told of a maximized or fullscreen window. *)
ToldRight(told) == told.max \/ told.full => told.w = Width

(* A maximized or fullscreen window is on its way to cover the output. *)
Spreads(s) ==
  s.max \/ s.full =>
    IF s.conf = NoConf THEN s.geo.x = 0
    ELSE s.conf.geo = Full /\ "resize" \notin s.conf.action
-----------------------------------------------------------------------------
Events == [serial : Nat, told : ToldStates]

Grabs == [edge : {"none", "left", "right"}, geo : Boxes, moved : BOOLEAN, clean : BOOLEAN]

Types ==
  /\ v \in Views /\ v.action = {} /\ v.want = NoBox
  /\ sent \in Seq(Events) /\ acked \in Events /\ current \in Nat
  /\ grab \in Grabs /\ odd \subseteq {"resize", "remap"} /\ asked \in 0..MaxRequests

(* The serials are in order: the event waited for, the one to be sent, those
   sent, the one acknowledged and the one committed. *)
Order ==
  /\ Serials(v)
  /\ current <= acked.serial /\ acked.serial <= v.serial
  /\ v.idle # 0 => acked.serial < v.idle
  /\ \A i \in DOMAIN sent :
       /\ acked.serial < sent[i].serial /\ sent[i].serial <= v.serial
       /\ v.idle # 0 => sent[i].serial < v.idle
       /\ \A j \in DOMAIN sent : i < j => sent[i].serial < sent[j].serial

(* A window that is not mapped has no grab, and what it is told from then on
   is later than what it waited for when it was unmapped. *)
Hidden ==
  /\ v.state # "mapped" => grab = NoGrab
  /\ v.state = "unmapped" => v.idle = 0 /\ sent = <<>> /\ current = acked.serial
  /\ v.state = "initial" =>
       /\ v.idle # 0 => v.idle > v.conf.serial
       /\ \A i \in DOMAIN sent : sent[i].serial > v.conf.serial
       /\ acked.serial > current => acked.serial > v.conf.serial

Right(box) == box.x + box.w

(* A clean grab only waits for its own last resize. *)
Anchored ==
  grab.clean =>
    /\ ~v.max /\ ~v.full
    /\ v.conf = NoConf => Quiet
    /\ v.conf # NoConf => /\ v.conf.action = {"resize"} /\ v.conf.serial = v.serial
                          /\ grab.moved
    /\ grab.edge = "left" => /\ Right(v.geo) = Right(grab.geo)
                             /\ v.conf # NoConf => Right(v.conf.geo) = Right(grab.geo)

(* The last event sent carries the last state. *)
Latest ==
  v.idle = 0 => IF sent = <<>> THEN acked.told = v.told ELSE sent[Len(sent)].told = v.told

Covering ==
  odd = {} =>
    /\ Latest /\ ToldRight(v.told) /\ ToldRight(acked.told)
    /\ \A i \in DOMAIN sent : ToldRight(sent[i].told)
    /\ v.state # "mapped" =>
         /\ ~v.max /\ ~v.full /\ v.conf = NoConf
         /\ ~acked.told.max /\ ~acked.told.full
         /\ \A i \in DOMAIN sent : ~sent[i].told.max /\ ~sent[i].told.full
    /\ Spreads(v)
    /\ current = acked.serial /\ (acked.told.max \/ acked.told.full) => v.geo.w = Width

VInv == Types /\ Order /\ Waits(v) /\ Knows(v) /\ Hidden /\ Anchored /\ Covering
-----------------------------------------------------------------------------
(* The output has a width. *)
LEMMA BoxFacts ==
  /\ Width \in Nat /\ Width > 1
  /\ NoBox \in Boxes /\ NoBox.x = 0 /\ NoBox.w = 0
  /\ Full \in Boxes /\ Full.x = 0 /\ Full.w = Width
  /\ \A w \in Widths : w \in 1..(Width - 1) /\ w \in 0..Width /\ w # 0
<1>1. PICK w \in Widths : w \in 1..(Width - 1)
  BY ViewAssumption, Zenon
<1>2. Width \in Nat /\ Width > 1
  BY <1>1, ViewAssumption
<1>3. \A u \in Widths : u \in 1..(Width - 1) /\ u \in 0..Width /\ u # 0
  BY <1>2, ViewAssumption
<1> QED BY <1>2, <1>3 DEF NoBox, Full, Box, Boxes

(* An event is scheduled; one that is scheduled already takes the change along. *)
LEMMA ScheduledFacts ==
  ASSUME NEW s \in Views, Serials(s)
  PROVE  LET n == Scheduled(s) IN
         /\ n \in Views /\ Rest(n, s) /\ Serials(n)
         /\ n.geo = s.geo /\ n.action = s.action /\ n.want = s.want /\ n.conf = s.conf
         /\ n.told = s.told /\ n.idle # 0 /\ n.idle = n.serial /\ n.serial >= s.serial
         /\ s.idle # 0 => n.serial = s.serial
         /\ s.idle = 0 => n.serial = s.serial + 1
<1>1. s.idle \in Nat /\ s.serial \in Nat /\ s.conf.serial \in Nat
  BY DEF Views, Confs
<1>2. CASE s.idle # 0
  BY <1>1, <1>2 DEF Scheduled, Serials, Rest
<1>3. CASE s.idle = 0
  <2> DEFINE n == [s EXCEPT !.idle = s.serial + 1, !.serial = s.serial + 1]
  <2>1. Scheduled(s) = n
    BY <1>3 DEF Scheduled
  <2>2. s.serial + 1 \in Nat
    BY <1>1
  <2>3. /\ n \in Views /\ n.idle = s.serial + 1 /\ n.serial = s.serial + 1
        /\ n.geo = s.geo /\ n.action = s.action /\ n.want = s.want /\ n.conf = s.conf
        /\ n.told = s.told
    BY <2>2, Zenon DEF Views
  <2>4. Rest(n, s)
    BY DEF Rest, Views
  <2> HIDE DEF n
  <2> QED BY <1>1, <1>3, <2>1, <2>3, <2>4 DEF Serials
<1> QED BY <1>2, <1>3

(* A window is moved. *)
LEMMA MovedFacts ==
  ASSUME NEW s \in Views, NEW x \in Int
  PROVE  LET n == MovedTo(s, x) IN
         /\ n \in Views /\ Rest(n, s) /\ n.geo = [s.geo EXCEPT !.x = x]
         /\ n.geo.x = x /\ n.geo.w = s.geo.w
         /\ n.action = s.action /\ n.want = s.want /\ n.conf = s.conf
         /\ n.told = s.told /\ n.idle = s.idle /\ n.serial = s.serial
<1> DEFINE g == [s.geo EXCEPT !.x = x]
<1>1. s.geo \in Boxes
  BY DEF Views
<1>2. g \in Boxes /\ g.x = x /\ g.w = s.geo.w
  BY <1>1 DEF Boxes
<1>3. MovedTo(s, x) = [s EXCEPT !.geo = g]
  BY <1>1 DEF MovedTo, Views
<1> HIDE DEF g
<1>4. /\ MovedTo(s, x) \in Views /\ Rest(MovedTo(s, x), s) /\ MovedTo(s, x).geo = g
      /\ MovedTo(s, x).action = s.action /\ MovedTo(s, x).want = s.want
      /\ MovedTo(s, x).conf = s.conf /\ MovedTo(s, x).told = s.told
      /\ MovedTo(s, x).idle = s.idle /\ MovedTo(s, x).serial = s.serial
  BY <1>2, <1>3 DEF Views, Rest
<1> QED BY <1>2, <1>4 DEF g

(* The wait is over. *)
LEMMA ConfiguredFacts ==
  ASSUME NEW s \in Views
  PROVE  LET n == Configured(s) IN
         /\ n \in Views /\ Rest(n, s) /\ n.conf = NoConf /\ n.geo = s.geo
         /\ n.action = s.action /\ n.want = s.want
         /\ n.told = s.told /\ n.idle = s.idle /\ n.serial = s.serial
<1>1. NoConf \in Confs
  BY BoxFacts DEF NoConf, Confs
<1> HIDE DEF NoConf
<1> QED BY <1>1 DEF Configured, Views, Rest

(* What a client is told when the actions left are passed on. *)
ToldOf(s, left) ==
  [w |-> s.want.w,
   full |-> IF "fullscreen" \in left THEN s.full ELSE s.told.full,
   max |-> IF "maximize" \in left THEN s.max ELSE s.told.max,
   tile |-> IF "tile" \in left THEN s.tile # "none" ELSE s.told.tile]

(* It is all of it a state a client can be told. *)
LEMMA ToldOfFacts ==
  ASSUME NEW s \in Views, NEW left
  PROVE  /\ ToldOf(s, left) \in ToldStates /\ ToldOf(s, left).w = s.want.w
         /\ ToldOf(s, left).full = IF "fullscreen" \in left THEN s.full ELSE s.told.full
         /\ ToldOf(s, left).max = IF "maximize" \in left THEN s.max ELSE s.told.max
         /\ ToldOf(s, left).tile = IF "tile" \in left THEN s.tile # "none" ELSE s.told.tile
<1> DEFINE a == IF "fullscreen" \in left THEN s.full ELSE s.told.full
           b == IF "maximize" \in left THEN s.max ELSE s.told.max
           c == IF "tile" \in left THEN s.tile # "none" ELSE s.told.tile
<1>1. /\ s.want.w \in 0..Width /\ s.told.full \in BOOLEAN /\ s.told.max \in BOOLEAN
      /\ s.told.tile \in BOOLEAN /\ s.full \in BOOLEAN /\ s.max \in BOOLEAN
  BY DEF Views, Boxes, ToldStates
<1>2. a \in BOOLEAN
  BY <1>1, Zenon
<1>3. b \in BOOLEAN
  BY <1>1, Zenon
<1>4. c \in BOOLEAN
  BY <1>1, Zenon
<1>5. ToldOf(s, left) = [w |-> s.want.w, full |-> a, max |-> b, tile |-> c]
  BY Zenon DEF ToldOf
<1> HIDE DEF a, b, c
<1>6. /\ ToldOf(s, left) \in ToldStates /\ ToldOf(s, left).w = s.want.w
      /\ ToldOf(s, left).full = a /\ ToldOf(s, left).max = b /\ ToldOf(s, left).tile = c
  BY <1>1, <1>2, <1>3, <1>4, <1>5 DEF ToldStates
<1> QED BY <1>6, Zenon DEF a, b, c

(* xdg_view_configure: an operation that changes no size only moves, and any
   other leaves the window waiting for the event that tells of it. *)
LEMMA ConfigureFacts ==
  ASSUME NEW s \in Views, Serials(s)
  PROVE  LET n == Configure(s)
             left == s.action \ {"move"} IN
         /\ n \in Views /\ n.action = {} /\ n.want = NoBox /\ Rest(n, s) /\ Serials(n)
         /\ n.geo.w = s.geo.w
         /\ n.geo.x = IF "move" \in s.action /\ s.conf.action = {} THEN s.want.x ELSE s.geo.x
         /\ left = {} =>
              n.conf = s.conf /\ n.told = s.told /\ n.idle = s.idle /\ n.serial = s.serial
         /\ left # {} =>
              /\ n.conf = [serial |-> n.serial, action |-> s.conf.action \cup left,
                           geo |-> s.want, timer |-> TRUE]
              /\ n.told = ToldOf(s, left) /\ n.idle = n.serial /\ n.idle # 0
              /\ s.idle # 0 => n.serial = s.serial
              /\ s.idle = 0 => n.serial = s.serial + 1
<1> DEFINE direct == IF "move" \in s.action /\ s.conf.action = {} THEN MovedTo(s, s.want.x) ELSE s
           left == s.action \ {"move"}
<1>1. s.want \in Boxes /\ s.want.x \in Int /\ left \subseteq SizeActions /\ s.conf \in Confs
      /\ s.conf.action \subseteq SizeActions /\ s.action \subseteq SizeActions \cup {"move"}
  BY DEF Views, Boxes, Confs
<1>2. /\ direct \in Views /\ Rest(direct, s) /\ direct.geo.w = s.geo.w
      /\ direct.geo.x = IF "move" \in s.action /\ s.conf.action = {} THEN s.want.x ELSE s.geo.x
      /\ direct.action = s.action /\ direct.want = s.want /\ direct.conf = s.conf
      /\ direct.told = s.told /\ direct.idle = s.idle /\ direct.serial = s.serial
  <2>1. CASE "move" \in s.action /\ s.conf.action = {}
    <3> DEFINE m == MovedTo(s, s.want.x)
    <3>1. /\ m \in Views /\ Rest(m, s) /\ m.geo.w = s.geo.w /\ m.geo.x = s.want.x
          /\ m.action = s.action /\ m.want = s.want /\ m.conf = s.conf
          /\ m.told = s.told /\ m.idle = s.idle /\ m.serial = s.serial
      BY <1>1, MovedFacts, Zenon
    <3>2. direct = m
      BY <2>1
    <3> HIDE DEF m, direct
    <3> QED BY <2>1, <3>1, <3>2
  <2>2. CASE ~("move" \in s.action /\ s.conf.action = {})
    BY <2>2 DEF Rest
  <2> QED BY <2>1, <2>2
<1> HIDE DEF direct
<1>3. CASE left = {}
  <2> DEFINE n == [direct EXCEPT !.action = {}, !.want = NoBox]
  <2>1. Configure(s) = n
    BY <1>3 DEF Configure, direct
  <2>2. {} \in SUBSET (SizeActions \cup {"move"}) /\ NoBox \in Boxes
    BY BoxFacts
  <2> HIDE DEF NoBox
  <2>3. /\ n \in Views /\ n.action = {} /\ n.want = NoBox /\ n.geo = direct.geo
        /\ n.conf = direct.conf /\ n.told = direct.told /\ n.idle = direct.idle
        /\ n.serial = direct.serial
    BY <1>2, <2>2, Zenon DEF Views
  <2>4. Rest(n, direct)
    BY <1>2 DEF Views, Rest
  <2> HIDE DEF n
  <2>5. Rest(n, s) /\ Serials(n)
    BY <1>2, <2>3, <2>4 DEF Rest, Serials
  <2>6. n.geo.w = s.geo.w
        /\ n.geo.x = IF "move" \in s.action /\ s.conf.action = {} THEN s.want.x ELSE s.geo.x
    BY <1>2, <2>3
  <2>7. n.conf = s.conf /\ n.told = s.told /\ n.idle = s.idle /\ n.serial = s.serial
    BY <1>2, <2>3
  <2> QED BY <1>3, <2>1, <2>3, <2>5, <2>6, <2>7
<1>4. CASE left # {}
  <2> DEFINE told == ToldOf(s, left)
             p == [direct EXCEPT !.action = left, !.told = told]
             q == Scheduled(p)
             c == [serial |-> q.idle, action |-> q.conf.action \cup q.action, geo |-> q.want,
                   timer |-> TRUE]
             n == [q EXCEPT !.conf = c, !.action = {}, !.want = NoBox]
  <2>1. Configure(s) = n
    BY <1>4 DEF Configure, direct, Waiting, ToldOf
  <2>2. told \in ToldStates
    BY ToldOfFacts
  <2> HIDE DEF told
  <2>3. /\ p \in Views /\ p.action = left /\ p.told = told /\ p.geo = direct.geo
        /\ p.want = direct.want /\ p.conf = direct.conf /\ p.idle = direct.idle
        /\ p.serial = direct.serial
    BY <1>1, <1>2, <2>2, Zenon DEF Views
  <2>4. Rest(p, direct)
    BY <1>2 DEF Views, Rest
  <2> HIDE DEF p
  <2>5. Serials(p)
    BY <1>2, <2>3 DEF Serials
  <2>6. /\ q \in Views /\ Rest(q, p) /\ Serials(q) /\ q.geo = p.geo /\ q.action = p.action
        /\ q.want = p.want /\ q.conf = p.conf /\ q.told = p.told /\ q.idle # 0
        /\ q.idle = q.serial /\ (p.idle # 0 => q.serial = p.serial)
        /\ (p.idle = 0 => q.serial = p.serial + 1)
    BY <2>3, <2>5, ScheduledFacts
  <2> HIDE DEF q
  <2>7. c = [serial |-> q.serial, action |-> s.conf.action \cup left, geo |-> s.want, timer |-> TRUE]
    BY <1>2, <2>3, <2>6
  <2>8. c \in Confs /\ c.serial = q.serial /\ q.serial \in Nat
    <3>1. q.serial \in Nat
      BY <2>6 DEF Views
    <3> QED BY <1>1, <2>7, <3>1 DEF Confs
  <2> HIDE DEF c
  <2>9. {} \in SUBSET (SizeActions \cup {"move"}) /\ NoBox \in Boxes
    BY BoxFacts
  <2> HIDE DEF NoBox
  <2>10. /\ n \in Views /\ n.action = {} /\ n.want = NoBox /\ n.geo = q.geo
         /\ n.conf = c /\ n.told = q.told /\ n.idle = q.idle /\ n.serial = q.serial
    BY <2>6, <2>8, <2>9, Zenon DEF Views
  <2>11. Rest(n, q)
    BY <2>6 DEF Views, Rest
  <2> HIDE DEF n
  <2>12. Rest(n, s)
    BY <1>2, <2>4, <2>6, <2>11 DEF Rest
  <2>13. Serials(n)
    BY <2>6, <2>8, <2>10 DEF Serials
  <2>14. n.geo.w = s.geo.w
         /\ n.geo.x = IF "move" \in s.action /\ s.conf.action = {} THEN s.want.x ELSE s.geo.x
    BY <1>2, <2>3, <2>6, <2>10
  <2>15. n.conf = [serial |-> n.serial, action |-> s.conf.action \cup left, geo |-> s.want, timer |-> TRUE]
    BY <2>7, <2>10
  <2>16. n.told = ToldOf(s, left)
    BY <2>3, <2>6, <2>10 DEF told
  <2>17. /\ n.idle = n.serial /\ n.idle # 0 /\ (s.idle # 0 => n.serial = s.serial)
         /\ (s.idle = 0 => n.serial = s.serial + 1)
    BY <1>2, <2>3, <2>6, <2>10
  <2> QED BY <1>4, <2>1, <2>10, <2>12, <2>13, <2>14, <2>15, <2>16, <2>17
<1> QED BY <1>3, <1>4
-----------------------------------------------------------------------------
(* What the view_do functions do before the window is configured. *)
TiledTo(s, tile) ==
  [s EXCEPT !.saved = IF s.tile = "none" /\ ~s.max THEN s.geo ELSE @,
            !.action = @ \cup {"tile"} \cup (IF s.max THEN {"maximize"} ELSE {}),
            !.max = FALSE, !.tile = tile, !.want = TiledBox(s, tile)]

MaximizedTo(s, max) ==
  [s EXCEPT !.saved = IF max /\ s.tile = "none" THEN s.geo ELSE @,
            !.want = IF max THEN Full ELSE s.saved,
            !.action = @ \cup MaximizeActions(s),
            !.tile = "none", !.max = max]

FullscreenTo(s, full) ==
  [s EXCEPT !.saved = IF full /\ ~s.max /\ s.tile = "none" THEN s.geo ELSE @,
            !.want = FullscreenBox(s, full),
            !.action = @ \cup {"fullscreen"}, !.full = full]

(* Nothing is drawn, told or waited for by that. *)
Kept(n, s) ==
  /\ n.geo = s.geo /\ n.state = s.state /\ n.conf = s.conf /\ n.told = s.told
  /\ n.idle = s.idle /\ n.serial = s.serial

(* A window's state is told, or is among what is collected for the next event. *)
Collects(s) ==
  /\ s \in Views /\ Serials(s) /\ WaitsFor(s)
  /\ "maximize" \notin s.action => s.told.max = s.max
  /\ "fullscreen" \notin s.action => s.told.full = s.full
  /\ "tile" \notin s.action => s.told.tile = (s.tile # "none")

(* The geometry of every tile is a box of the output. *)
LEMMA TiledBoxFacts ==
  ASSUME NEW s \in Views, NEW tile \in {"none", "left", "right", "center", "all"}
  PROVE  TiledBox(s, tile) \in Boxes
<1>1. s.saved \in Boxes /\ Full \in Boxes
  BY BoxFacts DEF Views
<1>2. Width \div 2 \in Int /\ Width \div 4 \in Int /\ Width \div 2 \in 0..Width
  BY BoxFacts
<1>3. Box(0, Width \div 2) \in Boxes /\ Box(Width \div 2, Width \div 2) \in Boxes
      /\ Box(Width \div 4, Width \div 2) \in Boxes
  BY <1>2 DEF Box, Boxes
<1> HIDE DEF Full, Box
<1> QED BY <1>1, <1>3 DEF TiledBox

(* view_do_tiled: what it collects, the end of the maximized state included. *)
LEMMA TiledToFacts ==
  ASSUME NEW s, Collects(s), NEW tile \in Tiles
  PROVE  LET n == TiledTo(s, tile) IN
         /\ Collects(n) /\ Kept(n, s) /\ n.full = s.full /\ n.max = FALSE /\ n.tile = tile
         /\ n.action = s.action \cup {"tile"} \cup (IF s.max THEN {"maximize"} ELSE {})
<1> DEFINE saved == IF s.tile = "none" /\ ~s.max THEN s.geo ELSE s.saved
           action == s.action \cup {"tile"} \cup (IF s.max THEN {"maximize"} ELSE {})
           want == TiledBox(s, tile)
           n == TiledTo(s, tile)
<1>1. s \in Views /\ s.max \in BOOLEAN /\ tile \in {"none", "left", "right", "center", "all"}
  BY ViewAssumption DEF Collects, Views
<1>2. saved \in Boxes
  BY <1>1 DEF Views
<1>3. action \in SUBSET (SizeActions \cup {"move"})
  BY <1>1 DEF Views, SizeActions
<1>4. want \in Boxes
  BY <1>1, TiledBoxFacts
<1>5. n = [s EXCEPT !.saved = saved, !.action = action, !.max = FALSE, !.tile = tile, !.want = want]
  BY DEF TiledTo
<1> HIDE DEF saved, want, action, n
<1>6. n \in Views /\ n.action = action /\ n.max = FALSE /\ n.tile = tile /\ n.full = s.full
  BY <1>1, <1>2, <1>3, <1>4, <1>5, Zenon DEF Views
<1>7. Kept(n, s)
  BY <1>1, <1>5 DEF Views, Kept
<1>8. "tile" \in action /\ ("maximize" \notin action => s.max = FALSE /\ "maximize" \notin s.action)
      /\ ("fullscreen" \notin action => "fullscreen" \notin s.action)
  BY <1>1 DEF action
<1>9. Serials(n) /\ WaitsFor(n)
  BY <1>7 DEF Kept, Serials, WaitsFor, Collects
<1>10. "maximize" \notin n.action => n.told.max = n.max
  BY <1>6, <1>7, <1>8, Zenon DEF Kept, Collects
<1>11. "fullscreen" \notin n.action => n.told.full = n.full
  BY <1>6, <1>7, <1>8 DEF Kept, Collects
<1>12. "tile" \in n.action
  BY <1>6, <1>8
<1>13. Collects(n)
  BY <1>6, <1>9, <1>10, <1>11, <1>12 DEF Collects
<1> QED BY <1>6, <1>7, <1>13 DEF n, action

(* view_do_maximized: what it collects, the end of the tiled state included. *)
LEMMA MaximizedToFacts ==
  ASSUME NEW s, Collects(s), NEW max \in BOOLEAN
  PROVE  LET n == MaximizedTo(s, max) IN
         /\ Collects(n) /\ Kept(n, s) /\ n.full = s.full /\ n.max = max /\ n.tile = "none"
         /\ n.action = s.action \cup MaximizeActions(s) /\ (max => n.want = Full)
<1> DEFINE saved == IF max /\ s.tile = "none" THEN s.geo ELSE s.saved
           action == s.action \cup MaximizeActions(s)
           want == IF max THEN Full ELSE s.saved
           n == MaximizedTo(s, max)
<1>1. s \in Views /\ "none" \in Tiles
  BY ViewAssumption DEF Collects
<1>2. saved \in Boxes /\ want \in Boxes /\ (max => want = Full)
  BY <1>1, BoxFacts DEF Views
<1>3. action \in SUBSET (SizeActions \cup {"move"})
  BY <1>1 DEF Views, SizeActions, MaximizeActions
<1>4. n = [s EXCEPT !.saved = saved, !.want = want, !.action = action, !.tile = "none", !.max = max]
  BY DEF MaximizedTo
<1> HIDE DEF saved, want, action, n
<1>5. n \in Views /\ n.action = action /\ n.max = max /\ n.tile = "none" /\ n.full = s.full
      /\ n.want = want
  BY <1>1, <1>2, <1>3, <1>4, Zenon DEF Views
<1>6. Kept(n, s)
  BY <1>1, <1>4 DEF Views, Kept
<1>7. /\ "maximize" \in action /\ ("tile" \notin action => s.tile = "none" /\ "tile" \notin s.action)
      /\ "fullscreen" \notin action => "fullscreen" \notin s.action
  BY DEF action, MaximizeActions
<1>8. Serials(n) /\ WaitsFor(n)
  BY <1>6 DEF Kept, Serials, WaitsFor, Collects
<1>9. "tile" \notin n.action => n.told.tile = (n.tile # "none")
  BY <1>5, <1>6, <1>7 DEF Kept, Collects
<1>10. "fullscreen" \notin n.action => n.told.full = n.full
  BY <1>5, <1>6, <1>7 DEF Kept, Collects
<1>11. "maximize" \in n.action
  BY <1>5, <1>7
<1>12. Collects(n)
  BY <1>5, <1>8, <1>9, <1>10, <1>11 DEF Collects
<1> QED BY <1>2, <1>5, <1>6, <1>12 DEF n, action

(* view_do_fullscreen: what it collects. *)
LEMMA FullscreenToFacts ==
  ASSUME NEW s, Collects(s), NEW full \in BOOLEAN
  PROVE  LET n == FullscreenTo(s, full) IN
         /\ Collects(n) /\ Kept(n, s) /\ n.full = full /\ n.max = s.max /\ n.tile = s.tile
         /\ n.action = s.action \cup {"fullscreen"} /\ (full \/ s.max => n.want = Full)
<1> DEFINE saved == IF full /\ ~s.max /\ s.tile = "none" THEN s.geo ELSE s.saved
           action == s.action \cup {"fullscreen"}
           want == FullscreenBox(s, full)
           n == FullscreenTo(s, full)
<1>1. s \in Views /\ s.tile \in {"none", "left", "right", "center", "all"}
  BY ViewAssumption, Zenon DEF Collects, Views
<1>2. saved \in Boxes
  BY <1>1 DEF Views
<1>3. want \in Boxes /\ (full \/ s.max => want = Full)
  BY <1>1, BoxFacts, TiledBoxFacts DEF FullscreenBox
<1>4. action \in SUBSET (SizeActions \cup {"move"})
  BY <1>1 DEF Views, SizeActions
<1>5. n = [s EXCEPT !.saved = saved, !.want = want, !.action = action, !.full = full]
  BY DEF FullscreenTo
<1> HIDE DEF saved, want, action, n
<1>6. n \in Views /\ n.action = action /\ n.full = full /\ n.max = s.max /\ n.tile = s.tile
      /\ n.want = want
  BY <1>1, <1>2, <1>3, <1>4, <1>5, Zenon DEF Views
<1>7. Kept(n, s)
  BY <1>1, <1>5 DEF Views, Kept
<1>8. /\ "fullscreen" \in action /\ ("tile" \notin action => "tile" \notin s.action)
      /\ "maximize" \notin action => "maximize" \notin s.action
  BY DEF action
<1>9. Serials(n) /\ WaitsFor(n)
  BY <1>7 DEF Kept, Serials, WaitsFor, Collects
<1>10. "tile" \notin n.action => n.told.tile = (n.tile # "none")
  BY <1>6, <1>7, <1>8 DEF Kept, Collects
<1>11. "maximize" \notin n.action => n.told.max = n.max
  BY <1>6, <1>7, <1>8 DEF Kept, Collects
<1>12. "fullscreen" \in n.action
  BY <1>6, <1>8
<1>13. Collects(n)
  BY <1>6, <1>9, <1>10, <1>11, <1>12 DEF Collects
<1> QED BY <1>3, <1>6, <1>7, <1>13 DEF n, action
-----------------------------------------------------------------------------
(* No event was scheduled, or one is, which carries all that is told. *)
Advances(n, s) ==
  \/ n.idle = s.idle /\ n.serial = s.serial /\ n.told = s.told
  \/ /\ n.idle = n.serial /\ n.idle # 0
     /\ s.idle # 0 => n.serial = s.serial
     /\ s.idle = 0 => n.serial = s.serial + 1

(* What is true of a window after an operation, compared with before. *)
Steps(n, s) ==
  /\ n \in Views /\ n.action = {} /\ n.want = NoBox /\ n.state = s.state
  /\ Serials(n) /\ WaitsFor(n) /\ Knows(n) /\ n.geo.w = s.geo.w /\ Advances(n, s)

(* Nothing collected is forgotten. *)
LEMMA ConfigureSteps ==
  ASSUME NEW s, Collects(s)
  PROVE  LET n == Configure(s) IN
         /\ Steps(n, s) /\ Rest(n, s)
         /\ s.action \ {"move"} # {} \/ Timed(s) => Timed(n)
<1> DEFINE n == Configure(s)
           left == s.action \ {"move"}
           told == ToldOf(s, left)
<1>1. s \in Views /\ Serials(s) /\ WaitsFor(s)
  BY DEF Collects
<1>2. /\ n \in Views /\ n.action = {} /\ n.want = NoBox /\ Rest(n, s) /\ Serials(n)
      /\ n.geo.w = s.geo.w
      /\ left = {} =>
           n.conf = s.conf /\ n.told = s.told /\ n.idle = s.idle /\ n.serial = s.serial
      /\ left # {} =>
           /\ n.conf = [serial |-> n.serial, action |-> s.conf.action \cup left,
                        geo |-> s.want, timer |-> TRUE]
           /\ n.told = told /\ n.idle = n.serial /\ n.idle # 0
           /\ s.idle # 0 => n.serial = s.serial
           /\ s.idle = 0 => n.serial = s.serial + 1
  BY <1>1, ConfigureFacts, Zenon
<1>3. /\ told.full = IF "fullscreen" \in left THEN s.full ELSE s.told.full
      /\ told.max = IF "maximize" \in left THEN s.max ELSE s.told.max
      /\ told.tile = IF "tile" \in left THEN s.tile # "none" ELSE s.told.tile
  BY <1>1, ToldOfFacts
<1>4. /\ "maximize" \notin left => s.told.max = s.max
      /\ "fullscreen" \notin left => s.told.full = s.full
      /\ "tile" \notin left => s.told.tile = (s.tile # "none")
  BY DEF Collects
<1> HIDE DEF n, left, told
<1>5. CASE left = {}
  <2>1. Knows(n)
    BY <1>2, <1>4, <1>5 DEF Knows, Rest
  <2>2. WaitsFor(n) /\ Advances(n, s) /\ (Timed(s) => Timed(n)) /\ n.state = s.state
    BY <1>1, <1>2, <1>5 DEF WaitsFor, Advances, Timed, Rest
  <2> QED BY <1>2, <1>5, <2>1, <2>2 DEF Steps, n, left
<1>6. CASE left # {}
  <2>1. told.full = s.full /\ told.max = s.max /\ told.tile = (s.tile # "none")
    BY <1>3, <1>4, Zenon
  <2>2. Knows(n)
    BY <1>2, <1>6, <2>1 DEF Knows, Rest
  <2>3. n.conf.serial # 0 /\ n.conf.action # {} /\ n.conf.timer = TRUE
    BY <1>2, <1>6
  <2>4. WaitsFor(n) /\ Advances(n, s) /\ Timed(n) /\ n.state = s.state
    BY <1>2, <1>6, <2>3 DEF WaitsFor, Advances, Timed, Rest
  <2> QED BY <1>2, <1>6, <2>2, <2>4 DEF Steps, n, left
<1> QED BY <1>5, <1>6

(* A maximized or fullscreen window is told to cover the output, and waits
   for that. *)
LEMMA ConfigureCovers ==
  ASSUME NEW s, Collects(s), "move" \notin s.action, s.action # {},
         s.max \/ s.full => s.want = Full
  PROVE  LET n == Configure(s) IN
         /\ ToldRight(n.told) /\ n.conf # NoConf
         /\ "resize" \notin s.action \cup s.conf.action => Spreads(n)
<1> DEFINE n == Configure(s)
           left == s.action \ {"move"}
           told == ToldOf(s, left)
<1>1. s \in Views /\ Serials(s) /\ left = s.action /\ left # {}
  BY DEF Collects
<1>2. /\ Rest(n, s) /\ n.told = told /\ n.idle = n.serial /\ n.idle # 0
      /\ n.conf = [serial |-> n.serial, action |-> s.conf.action \cup left,
                   geo |-> s.want, timer |-> TRUE]
  BY <1>1, ConfigureFacts, Zenon
<1>3. told.w = s.want.w
  BY <1>1, ToldOfFacts
<1>4. Knows(n)
  BY ConfigureSteps DEF Steps
<1> HIDE DEF n, left, told, Full
<1>5. ToldRight(n.told)
  <2>1. n.told.max \/ n.told.full => s.want = Full
    BY <1>2, <1>4 DEF Knows, Rest
  <2> QED BY <1>2, <1>3, <2>1, BoxFacts DEF ToldRight
<1>6. n.conf.serial # 0 /\ n.conf.geo = s.want /\ n.conf.action = s.conf.action \cup s.action
  BY <1>1, <1>2
<1>7. n.conf # NoConf
  BY <1>6 DEF NoConf
<1>8. "resize" \notin s.action \cup s.conf.action => Spreads(n)
  BY <1>2, <1>6, <1>7 DEF Spreads, Rest
<1> QED BY <1>5, <1>7, <1>8 DEF n

(* A mapped window between two operations. *)
Rests(s) ==
  /\ s \in Views /\ s.action = {} /\ s.want = NoBox /\ s.state = "mapped"
  /\ Serials(s) /\ Waits(s) /\ Knows(s)

(* A window between two operations collects nothing. *)
LEMMA RestsFacts ==
  ASSUME NEW s, Rests(s)
  PROVE  Collects(s) /\ Steps(s, s) /\ Timed(s) /\ "move" \notin s.action
BY DEF Rests, Collects, Steps, Waits, Knows, Advances

(* After an operation it is between two operations again. *)
LEMMA StepsRests ==
  ASSUME NEW s, NEW n, Rests(s), Steps(n, s), Timed(n)
  PROVE  Rests(n)
BY DEF Rests, Steps, Waits

(* An operation on a window in which only the collected state is new. *)
LEMMA KeptSteps ==
  ASSUME NEW s, NEW t, NEW n, Kept(t, s), Steps(n, t)
  PROVE  Steps(n, s)
BY DEF Kept, Steps, Advances

(* A change of a window's state, without the guards of the functions. *)
LEMMA ChangeSteps ==
  ASSUME NEW s, NEW t, Rests(s), Collects(t), Kept(t, s), "move" \notin t.action, t.action # {},
         t.max \/ t.full => t.want = Full, "resize" \notin t.action
  PROVE  LET n == Configure(t) IN
         /\ Steps(n, s) /\ Timed(n) /\ Rest(n, t) /\ n.conf # NoConf /\ ToldRight(n.told)
         /\ "resize" \notin s.conf.action => Spreads(n)
<1> DEFINE n == Configure(t)
<1>1. t.action \ {"move"} # {} /\ t.conf = s.conf
  BY DEF Kept
<1>2. Steps(n, t) /\ Rest(n, t) /\ Timed(n)
  BY <1>1, ConfigureSteps
<1>3. ToldRight(n.told) /\ n.conf # NoConf
      /\ ("resize" \notin t.action \cup t.conf.action => Spreads(n))
  BY ConfigureCovers
<1> HIDE DEF n, NoConf
<1>4. Steps(n, s)
  BY <1>2, KeptSteps
<1> QED BY <1>1, <1>2, <1>3, <1>4 DEF n

(* view_do_maximized. *)
LEMMA MaximizedSteps ==
  ASSUME NEW s, Rests(s), ~s.full, NEW max \in BOOLEAN
  PROVE  LET n == DoMaximized(s, max) IN
         /\ Steps(n, s) /\ Timed(n) /\ n.full = s.full /\ n.max = max
         /\ "resize" \notin s.conf.action /\ ToldRight(s.told) /\ Spreads(s) =>
              ToldRight(n.told) /\ Spreads(n)
<1>1. CASE s.tile = "none" /\ s.max = max
  BY <1>1, RestsFacts DEF DoMaximized
<1>2. CASE ~(s.tile = "none" /\ s.max = max)
  <2> DEFINE t == MaximizedTo(s, max)
             n == Configure(t)
  <2>1. Collects(s) /\ s.action = {} /\ s.state = "mapped"
    BY RestsFacts DEF Rests
  <2>2. /\ Collects(t) /\ Kept(t, s) /\ t.full = s.full /\ t.max = max
        /\ t.action = s.action \cup MaximizeActions(s) /\ (max => t.want = Full)
    BY <2>1, MaximizedToFacts, Zenon
  <2>3. DoMaximized(s, max) = n
    <3>1. DoMaximized(s, max) = Flushed(t)
      BY <1>2 DEF DoMaximized, MaximizedTo
    <3> HIDE DEF t
    <3> QED BY <2>1, <2>2, <3>1 DEF Flushed, Kept
  <2> HIDE DEF t
  <2>4. "move" \notin t.action /\ t.action # {} /\ "resize" \notin t.action
    BY <2>1, <2>2 DEF MaximizeActions
  <2>5. t.max \/ t.full => t.want = Full
    BY <2>2
  <2>6. /\ Steps(n, s) /\ Timed(n) /\ Rest(n, t) /\ ToldRight(n.told)
        /\ "resize" \notin s.conf.action => Spreads(n)
    BY <2>2, <2>4, <2>5, ChangeSteps
  <2> HIDE DEF n
  <2>7. n.full = s.full /\ n.max = max
    BY <2>2, <2>6 DEF Rest
  <2> QED BY <2>3, <2>6, <2>7
<1> QED BY <1>1, <1>2

(* view_do_tiled. *)
LEMMA TiledSteps ==
  ASSUME NEW s, Rests(s), ~s.full, NEW tile \in Tiles
  PROVE  LET n == DoTiled(s, tile) IN
         /\ Steps(n, s) /\ Timed(n) /\ n.full = s.full /\ (s.tile # tile => n.max = FALSE)
         /\ (s.tile = tile => n = s)
         /\ "resize" \notin s.conf.action /\ ToldRight(s.told) /\ Spreads(s) =>
              ToldRight(n.told) /\ Spreads(n)
<1>1. CASE s.tile = tile
  BY <1>1, RestsFacts DEF DoTiled
<1>2. CASE s.tile # tile
  <2> DEFINE t == TiledTo(s, tile)
             n == Configure(t)
  <2>1. Collects(s) /\ s.action = {} /\ s.state = "mapped"
    BY RestsFacts DEF Rests
  <2>2. /\ Collects(t) /\ Kept(t, s) /\ t.full = s.full /\ t.max = FALSE
        /\ t.action = s.action \cup {"tile"} \cup (IF s.max THEN {"maximize"} ELSE {})
    BY <2>1, TiledToFacts, Zenon
  <2>3. DoTiled(s, tile) = n
    <3>1. DoTiled(s, tile) = Flushed(t)
      BY <1>2 DEF DoTiled, TiledTo
    <3> HIDE DEF t
    <3> QED BY <2>1, <2>2, <3>1 DEF Flushed, Kept
  <2> HIDE DEF t
  <2>4. "move" \notin t.action /\ t.action # {} /\ "resize" \notin t.action
    BY <2>1, <2>2
  <2>5. t.max \/ t.full => t.want = Full
    BY <2>2
  <2>6. /\ Steps(n, s) /\ Timed(n) /\ Rest(n, t) /\ ToldRight(n.told)
        /\ "resize" \notin s.conf.action => Spreads(n)
    BY <2>2, <2>4, <2>5, ChangeSteps
  <2> HIDE DEF n
  <2>7. n.full = s.full /\ n.max = FALSE
    BY <2>2, <2>6 DEF Rest
  <2> QED BY <1>2, <2>3, <2>6, <2>7
<1> QED BY <1>1, <1>2, Zenon

(* view_do_fullscreen. *)
LEMMA FullscreenSteps ==
  ASSUME NEW s, Rests(s), NEW full \in BOOLEAN
  PROVE  LET n == DoFullscreen(s, full) IN
         /\ Steps(n, s) /\ Timed(n)
         /\ "resize" \notin s.conf.action /\ ToldRight(s.told) /\ Spreads(s) =>
              ToldRight(n.told) /\ Spreads(n)
<1>1. CASE s.full = full
  BY <1>1, RestsFacts DEF DoFullscreen
<1>2. CASE s.full # full
  <2> DEFINE t == FullscreenTo(s, full)
             n == Configure(t)
  <2>1. Collects(s) /\ s.action = {} /\ s.state = "mapped"
    BY RestsFacts DEF Rests
  <2>2. /\ Collects(t) /\ Kept(t, s) /\ t.full = full /\ t.max = s.max
        /\ t.action = s.action \cup {"fullscreen"} /\ (full \/ s.max => t.want = Full)
    BY <2>1, FullscreenToFacts
  <2>3. DoFullscreen(s, full) = n
    <3>1. DoFullscreen(s, full) = Flushed(t)
      BY <1>2 DEF DoFullscreen, FullscreenTo
    <3> HIDE DEF t
    <3> QED BY <2>1, <2>2, <3>1 DEF Flushed, Kept
  <2> HIDE DEF t
  <2>4. "move" \notin t.action /\ t.action # {} /\ "resize" \notin t.action
    BY <2>1, <2>2
  <2>5. t.max \/ t.full => t.want = Full
    BY <2>2
  <2>6. /\ Steps(n, s) /\ Timed(n) /\ Rest(n, t) /\ ToldRight(n.told)
        /\ "resize" \notin s.conf.action => Spreads(n)
    BY <2>2, <2>4, <2>5, ChangeSteps
  <2> HIDE DEF n
  <2> QED BY <2>3, <2>6
<1> QED BY <1>1, <1>2

(* view_do_move tells the client nothing. *)
LEMMA MoveSteps ==
  ASSUME NEW s, Rests(s), NEW x \in Int
  PROVE  LET n == DoMove(s, x) IN
         /\ Steps(n, s) /\ Timed(n) /\ Rest(n, s) /\ n.conf = s.conf /\ n.told = s.told
         /\ n.idle = s.idle /\ n.serial = s.serial
<1> DEFINE box == [s.want EXCEPT !.x = x]
           t == [s EXCEPT !.action = s.action \cup {"move"}, !.want = box]
           n == Configure(t)
<1>1. s \in Views /\ s.action = {} /\ s.state = "mapped" /\ s.want \in Boxes
  BY DEF Rests, Views
<1>2. box \in Boxes
  BY <1>1 DEF Boxes
<1>3. DoMove(s, x) = Flushed(t)
  BY <1>1 DEF DoMove, Views
<1> HIDE DEF box
<1>4. /\ t \in Views /\ t.action = {"move"} /\ Kept(t, s) /\ t.max = s.max /\ t.full = s.full
      /\ t.tile = s.tile /\ Rest(t, s)
  BY <1>1, <1>2, Zenon DEF Views, Kept, Rest
<1> HIDE DEF t
<1>5. Collects(t)
  BY <1>4 DEF Collects, Rests, Waits, WaitsFor, Knows, Serials, Kept
<1>6. Timed(t)
  BY <1>4 DEF Rests, Waits, Timed, Kept
<1>7. Steps(n, t) /\ Rest(n, t) /\ Timed(n)
  BY <1>5, <1>6, ConfigureSteps
<1>8. n.conf = t.conf /\ n.told = t.told /\ n.idle = t.idle /\ n.serial = t.serial
  <2>1. t.action \ {"move"} = {} /\ Serials(t)
    BY <1>4, <1>5 DEF Collects
  <2> QED BY <1>4, <2>1, ConfigureFacts, ZenonT(40)
<1>9. DoMove(s, x) = n
  BY <1>1, <1>3, <1>4 DEF Flushed, Kept
<1> HIDE DEF n
<1>10. Steps(n, s)
  BY <1>4, <1>7, KeptSteps
<1>11. Rest(n, s)
  BY <1>4, <1>7 DEF Rest
<1>12. n.conf = s.conf /\ n.told = s.told /\ n.idle = s.idle /\ n.serial = s.serial
  BY <1>4, <1>8 DEF Kept
<1> QED BY <1>7, <1>9, <1>10, <1>11, <1>12

(* kywc_view_resize: the window waits for the size, and for nothing else if it
   waited for nothing else. *)
LEMMA ResizeSteps ==
  ASSUME NEW s, Rests(s), NEW box \in Boxes
  PROVE  LET n == Resize(s, box) IN
         /\ Steps(n, s) /\ Timed(n) /\ Rest(n, s)
         /\ ~s.full => /\ n.geo.x = s.geo.x /\ n.conf.geo = box /\ n.conf.serial = n.serial
                       /\ n.conf.action = s.conf.action \cup {"resize"}
<1>1. s \in Views /\ s.action = {} /\ s.state = "mapped"
  BY DEF Rests
<1>2. CASE s.full
  BY <1>2, RestsFacts, Zenon DEF Resize, Rest
<1>3. CASE ~s.full
  <2> DEFINE t == [s EXCEPT !.action = s.action \cup {"resize"}, !.want = box]
             n == Configure(t)
  <2>1. Resize(s, box) = Flushed(t)
    BY <1>3 DEF Resize, DoResize
  <2>2. /\ t \in Views /\ t.action = {"resize"} /\ Kept(t, s) /\ t.max = s.max /\ t.full = s.full
        /\ t.tile = s.tile /\ Rest(t, s) /\ t.want = box
    BY <1>1, Zenon DEF Views, Kept, Rest, SizeActions
  <2> HIDE DEF t
  <2>3. Collects(t)
    BY <2>2 DEF Collects, Rests, Waits, WaitsFor, Knows, Serials, Kept
  <2>4. t.action \ {"move"} = {"resize"} /\ Serials(t)
    BY <2>2, <2>3 DEF Collects
  <2>5. Steps(n, t) /\ Rest(n, t) /\ Timed(n)
    BY <2>3, <2>4, ConfigureSteps
  <2>6. /\ n.conf = [serial |-> n.serial, action |-> t.conf.action \cup {"resize"}, geo |-> t.want,
                     timer |-> TRUE]
        /\ n.geo.x = t.geo.x
    <3> DEFINE left == t.action \ {"move"}
    <3>1. /\ n.geo.x = IF "move" \in t.action /\ t.conf.action = {} THEN t.want.x ELSE t.geo.x
          /\ left # {} => n.conf = [serial |-> n.serial, action |-> t.conf.action \cup left,
                                    geo |-> t.want, timer |-> TRUE]
      BY <2>2, <2>4, ConfigureFacts
    <3>2. left = {"resize"} /\ "move" \notin t.action
      BY <2>2, <2>4
    <3> HIDE DEF left, n
    <3> QED BY <3>1, <3>2
  <2>7. Resize(s, box) = n
    BY <1>1, <2>1, <2>2 DEF Flushed, Kept
  <2> HIDE DEF n
  <2>8. Steps(n, s)
    BY <2>2, <2>5, KeptSteps
  <2>9. Rest(n, s) /\ n.geo.x = s.geo.x
    BY <2>2, <2>5, <2>6 DEF Rest, Kept
  <2>10. n.conf.geo = box /\ n.conf.serial = n.serial
         /\ n.conf.action = s.conf.action \cup {"resize"}
    BY <2>2, <2>6 DEF Kept
  <2> QED BY <1>3, <2>5, <2>7, <2>8, <2>9, <2>10
<1> QED BY <1>2, <1>3
-----------------------------------------------------------------------------
(* The commit ends the wait if the client has got that far, and moves the
   window as it does, or as the size of a resize calls for. *)
IsCommitted(n, s, serial, left) ==
  LET unacked == s.conf.serial >= serial /\ "resize" \in s.conf.action IN
  /\ n \in Views /\ Rest(n, s) /\ n.action = s.action /\ n.want = s.want
  /\ n.told = s.told /\ n.idle = s.idle /\ n.serial = s.serial /\ n.geo.w = s.geo.w
  /\ serial >= s.conf.serial => n.conf = NoConf
  /\ ~(serial >= s.conf.serial) => n.conf = s.conf
  /\ s.conf = NoConf => n.geo.x = s.geo.x
  /\ s.conf # NoConf /\ unacked => n.geo.x = Anchor(s, left)
  /\ s.conf # NoConf /\ ~unacked /\ serial >= s.conf.serial => n.geo.x = s.conf.geo.x

(* xdg_view_handle_commit does that. *)
LEMMA CommittedFacts ==
  ASSUME NEW s \in Views, NEW serial \in Nat, NEW left, WaitsFor(s)
  PROVE  IsCommitted(Committed(s, serial, left), s, serial, left)
<1> DEFINE unacked == s.conf.serial >= serial /\ "resize" \in s.conf.action
           x == IF unacked THEN Anchor(s, left) ELSE s.conf.geo.x
           at == IF unacked \/ Settled(s, serial) THEN MovedTo(s, x) ELSE s
           n == Committed(s, serial, left)
<1>1. /\ s.conf.serial \in Nat /\ s.conf.geo.x \in Int /\ s.conf.geo.w \in Int /\ s.geo.w \in Int
      /\ (Settled(s, serial) <=> serial >= s.conf.serial)
  BY DEF Views, Confs, Boxes, Settled
<1>2. NoConf.serial = 0 /\ NoConf.action = {}
  BY DEF NoConf
<1> HIDE DEF NoConf
<1>3. CASE s.conf = NoConf
  <2>1. n = s
    BY <1>2, <1>3 DEF Committed
  <2>2. serial >= s.conf.serial
    BY <1>1, <1>2, <1>3
  <2> HIDE DEF n
  <2> QED BY <1>3, <2>1, <2>2 DEF Rest, n, IsCommitted
<1>4. CASE s.conf # NoConf
  <2>1. n = IF Settled(s, serial) THEN Configured(at) ELSE at
    BY <1>4 DEF Committed, WaitsFor
  <2>2. x \in Int
    BY <1>1, SMTT(30) DEF Anchor
  <2> HIDE DEF x
  <2>3. /\ at \in Views /\ Rest(at, s) /\ at.action = s.action /\ at.want = s.want
        /\ at.told = s.told /\ at.idle = s.idle /\ at.serial = s.serial /\ at.geo.w = s.geo.w
        /\ at.conf = s.conf /\ (unacked \/ Settled(s, serial) => at.geo.x = x)
    <3>1. CASE unacked \/ Settled(s, serial)
      <4> DEFINE m == MovedTo(s, x)
      <4>1. /\ m \in Views /\ Rest(m, s) /\ m.action = s.action /\ m.want = s.want
            /\ m.told = s.told /\ m.idle = s.idle /\ m.serial = s.serial /\ m.geo.w = s.geo.w
            /\ m.conf = s.conf /\ m.geo.x = x
        BY <2>2, MovedFacts, Zenon
      <4>2. at = m
        BY <3>1
      <4> HIDE DEF m, at
      <4> QED BY <4>1, <4>2
    <3>2. CASE ~(unacked \/ Settled(s, serial))
      BY <3>2 DEF Rest
    <3> QED BY <3>1, <3>2
  <2> HIDE DEF at
  <2>4. CASE Settled(s, serial)
    <3> DEFINE c == Configured(at)
    <3>1. /\ c \in Views /\ Rest(c, at) /\ c.conf = NoConf /\ c.geo = at.geo
          /\ c.action = at.action /\ c.want = at.want
          /\ c.told = at.told /\ c.idle = at.idle /\ c.serial = at.serial
      BY <2>3, ConfiguredFacts
    <3>2. n = c
      BY <2>1, <2>4
    <3> HIDE DEF c, n
    <3>3. Rest(n, s)
      BY <2>3, <3>1, <3>2 DEF Rest
    <3>4. /\ n \in Views /\ n.action = s.action /\ n.want = s.want /\ n.conf = NoConf
          /\ n.told = s.told /\ n.idle = s.idle /\ n.serial = s.serial /\ n.geo.w = s.geo.w
          /\ n.geo.x = x
      BY <2>3, <2>4, <3>1, <3>2
    <3> QED BY <1>1, <1>4, <2>4, <3>3, <3>4 DEF n, x, IsCommitted
  <2>5. CASE ~Settled(s, serial)
    <3>1. n = at
      BY <2>1, <2>5
    <3> HIDE DEF n
    <3> QED BY <1>1, <1>4, <2>3, <2>5, <3>1 DEF n, x, IsCommitted
  <2> QED BY <2>4, <2>5
<1> QED BY <1>3, <1>4

(* The states a client asked for before its window is mapped are collected. *)
LEMMA RequestedFacts ==
  ASSUME NEW s, Collects(s), s.state = "initial", s.action = {},
         NEW max \in BOOLEAN, NEW full \in BOOLEAN
  PROVE  LET n == DoFullscreen(SetMaximized(s, max), full) IN
         /\ Collects(n) /\ Kept(n, s) /\ "move" \notin n.action /\ "resize" \notin n.action
         /\ ~s.max /\ ~s.full /\ (n.max \/ n.full) => n.action # {} /\ n.want = Full
<1> DEFINE m == SetMaximized(s, max)
           n == DoFullscreen(m, full)
<1>1. /\ Collects(m) /\ Kept(m, s) /\ "move" \notin m.action /\ "resize" \notin m.action
      /\ m.full = s.full
      /\ ~s.max /\ m.max => m.action # {} /\ m.want = Full
  <2>1. CASE s.full \/ (s.tile = "none" /\ s.max = max)
    <3>1. m = s
      BY <2>1 DEF SetMaximized, DoMaximized
    <3> HIDE DEF m
    <3> QED BY <3>1 DEF Kept
  <2>2. CASE ~(s.full \/ (s.tile = "none" /\ s.max = max))
    <3> DEFINE t == MaximizedTo(s, max)
    <3>1. /\ Collects(t) /\ Kept(t, s) /\ t.full = s.full /\ t.max = max
          /\ t.action = s.action \cup MaximizeActions(s) /\ (max => t.want = Full)
      BY MaximizedToFacts, Zenon
    <3>2. m = Flushed(t)
      BY <2>2 DEF SetMaximized, DoMaximized, MaximizedTo
    <3> HIDE DEF t, m
    <3>3. m = t
      BY <3>1, <3>2 DEF Flushed, Kept
    <3>4. "move" \notin t.action /\ "resize" \notin t.action /\ t.action # {}
      BY <3>1 DEF MaximizeActions
    <3> QED BY <3>1, <3>3, <3>4
  <2> QED BY <2>1, <2>2
<1> HIDE DEF m
<1>2. CASE m.full = full
  <2>1. n = m
    BY <1>2 DEF DoFullscreen
  <2> HIDE DEF n
  <2> QED BY <1>1, <2>1 DEF n, m
<1>3. CASE m.full # full
  <2> DEFINE t == FullscreenTo(m, full)
  <2>1. /\ Collects(t) /\ Kept(t, m) /\ t.full = full /\ t.max = m.max
        /\ t.action = m.action \cup {"fullscreen"} /\ (full \/ m.max => t.want = Full)
    BY <1>1, FullscreenToFacts
  <2>2. n = Flushed(t)
    BY <1>3 DEF DoFullscreen, FullscreenTo
  <2> HIDE DEF t, n
  <2>3. Kept(t, s)
    BY <1>1, <2>1 DEF Kept
  <2>4. n = t
    BY <2>2, <2>3 DEF Flushed, Kept
  <2>5. "move" \notin t.action /\ "resize" \notin t.action /\ t.action # {}
    BY <1>1, <2>1, SMTT(30)
  <2> QED BY <2>1, <2>3, <2>4, <2>5 DEF n, m
<1> QED BY <1>2, <1>3

(* What was collected is told, and an event is scheduled anyway. *)
IsMapped(n, r) ==
  /\ n \in Views /\ n.action = {} /\ n.want = NoBox /\ n.state = "mapped" /\ Serials(n)
  /\ WaitsFor(n) /\ Knows(n) /\ n.geo.w = r.geo.w
  /\ n.idle # 0 /\ n.idle = n.serial /\ n.serial = r.serial
  /\ n.max = r.max /\ n.full = r.full
  /\ n.conf = r.conf \/ (n.conf.serial = n.serial /\ n.conf.timer = TRUE)
  /\ ~r.max /\ ~r.full => ToldRight(n.told)
  /\ (r.max \/ r.full) /\ r.action # {} /\ r.want = Full =>
       /\ ToldRight(n.told) /\ n.conf.serial = n.serial
       /\ r.conf = NoConf => Spreads(n)

(* view_map does that. *)
LEMMA MappedFacts ==
  ASSUME NEW r, Collects(r), r.state = "initial", "move" \notin r.action, "resize" \notin r.action,
         r.idle # 0, NEW x \in Int
  PROVE  IsMapped(Mapped(r, x), r)
<1> DEFINE box == [r.want EXCEPT !.x = x]
           moved == [r EXCEPT !.action = r.action \cup {"move"}, !.want = box]
           placed == IF r.max \/ r.full THEN r ELSE DoMove(r, x)
           saved == IF placed.action # {} /\ (r.max \/ r.full) THEN TiledBox(r, "center")
                    ELSE placed.saved
           shown == [placed EXCEPT !.state = "mapped", !.saved = saved]
           c == Configure(shown)
           n == Scheduled(c)
<1>1. r \in Views /\ r.want \in Boxes /\ Serials(r) /\ WaitsFor(r)
  BY DEF Collects, Views
<1>2. box \in Boxes
  BY <1>1 DEF Boxes
<1>3. DoMove(r, x) = moved
  <2>1. DoMove(r, x) = Flushed(moved)
    BY <1>1 DEF DoMove, Views
  <2>2. moved.state = r.state
    BY <1>1 DEF Views
  <2> HIDE DEF moved
  <2> QED BY <2>1, <2>2 DEF Flushed
<1> HIDE DEF box
<1>4. /\ moved \in Views /\ Rest(moved, r) /\ moved.action = r.action \cup {"move"}
      /\ Kept(moved, r)
  BY <1>1, <1>2, Zenon DEF Views, Rest, Kept
<1> HIDE DEF moved
<1>5. /\ placed \in Views /\ Rest(placed, r) /\ Kept(placed, r)
      /\ (r.max \/ r.full => placed = r)
      /\ placed.action \in {r.action, r.action \cup {"move"}}
  <2>1. CASE r.max \/ r.full
    <3>1. placed = r
      BY <2>1
    <3> HIDE DEF placed
    <3> QED BY <1>1, <3>1 DEF Rest, Kept
  <2>2. CASE ~(r.max \/ r.full)
    <3>1. placed = moved
      BY <1>3, <2>2
    <3> HIDE DEF placed
    <3> QED BY <1>4, <2>2, <3>1
  <2> QED BY <2>1, <2>2
<1>6. Mapped(r, x) = n
  BY DEF Mapped
<1> HIDE DEF placed
<1>7. saved \in Boxes
  BY <1>1, <1>5, TiledBoxFacts DEF Views
<1> HIDE DEF saved
<1>8. /\ shown \in Views /\ shown.state = "mapped" /\ shown.geo = placed.geo
      /\ shown.action = placed.action /\ shown.want = placed.want /\ shown.conf = placed.conf
      /\ shown.told = placed.told /\ shown.idle = placed.idle /\ shown.serial = placed.serial
      /\ shown.max = placed.max /\ shown.full = placed.full /\ shown.tile = placed.tile
  BY <1>5, <1>7, Zenon DEF Views
<1> HIDE DEF shown
<1>9. /\ shown.geo = r.geo /\ shown.conf = r.conf /\ shown.told = r.told /\ shown.idle = r.idle
      /\ shown.serial = r.serial /\ shown.max = r.max /\ shown.full = r.full
      /\ shown.tile = r.tile /\ "resize" \notin shown.action
      /\ shown.action \in {r.action, r.action \cup {"move"}}
      /\ r.max \/ r.full => shown.action = r.action /\ shown.want = r.want
  BY <1>5, <1>8 DEF Rest, Kept
<1>10. Collects(shown)
  <2>1. \A a \in {"maximize", "fullscreen", "tile"} : a \notin shown.action => a \notin r.action
    BY <1>9
  <2> QED BY <1>1, <1>8, <1>9, <2>1 DEF Collects, Serials, WaitsFor
<1>11. Steps(c, shown) /\ Rest(c, shown)
  BY <1>10, ConfigureSteps
<1>12. c.conf = shown.conf \/ (c.conf.serial = c.serial /\ c.conf.timer = TRUE)
  <2> DEFINE left == shown.action \ {"move"}
             conf == [serial |-> c.serial, action |-> shown.conf.action \cup left,
                      geo |-> shown.want, timer |-> TRUE]
  <2>1. (left = {} => c.conf = shown.conf) /\ (left # {} => c.conf = conf)
    BY <1>1, <1>8, <1>10, ConfigureFacts, Zenon DEF Collects
  <2>2. conf.serial = c.serial /\ conf.timer = TRUE
    OBVIOUS
  <2> HIDE DEF left, conf, c
  <2> QED BY <2>1, <2>2, SMTT(30)
<1>13. (r.max \/ r.full) /\ r.action # {} /\ r.want = Full =>
          /\ ToldRight(c.told) /\ c.conf # NoConf
          /\ "resize" \notin shown.conf.action => Spreads(c)
  <2> SUFFICES ASSUME r.max \/ r.full, r.action # {}, r.want = Full
               PROVE  /\ ToldRight(c.told) /\ c.conf # NoConf
                      /\ "resize" \notin shown.conf.action => Spreads(c)
    OBVIOUS
  <2>1. "move" \notin shown.action /\ shown.action # {} /\ shown.want = Full
        /\ "resize" \notin shown.action
    BY <1>9
  <2> HIDE DEF Full, NoConf
  <2>2. /\ ToldRight(c.told) /\ c.conf # NoConf
        /\ "resize" \notin shown.action \cup shown.conf.action => Spreads(c)
    BY <1>10, <2>1, ConfigureCovers
  <2> HIDE DEF c
  <2> QED BY <2>1, <2>2
<1>14. (r.max \/ r.full) /\ r.action # {} /\ r.want = Full => c.conf.serial = c.serial
  <2> SUFFICES ASSUME r.max \/ r.full, r.action # {}, r.want = Full PROVE c.conf.serial = c.serial
    OBVIOUS
  <2> DEFINE left == shown.action \ {"move"}
             conf == [serial |-> c.serial, action |-> shown.conf.action \cup left,
                      geo |-> shown.want, timer |-> TRUE]
  <2>1. left # {}
    BY <1>9
  <2>2. left # {} => c.conf = conf
    BY <1>8, <1>10, ConfigureFacts, Zenon DEF Collects
  <2>3. conf.serial = c.serial
    OBVIOUS
  <2> HIDE DEF left, conf, c
  <2> QED BY <2>1, <2>2, <2>3
<1> HIDE DEF c
<1>15. /\ c \in Views /\ Serials(c) /\ c.action = {} /\ c.want = NoBox /\ c.state = "mapped"
       /\ WaitsFor(c) /\ Knows(c) /\ c.geo.w = r.geo.w /\ c.idle # 0 /\ c.serial = r.serial
       /\ c.idle = c.serial /\ c.max = r.max /\ c.full = r.full /\ c.tile = r.tile
  <2>1. r.serial \in Nat /\ r.idle = r.serial
    BY <1>1 DEF Views, Serials
  <2> QED BY <1>8, <1>9, <1>11, <2>1 DEF Steps, Advances, Rest
<1>16. n = c
  BY <1>15 DEF Scheduled
<1>17. ~r.max /\ ~r.full => ToldRight(c.told)
  BY <1>15 DEF Knows, ToldRight
<1>18. r.conf = NoConf => "resize" \notin shown.conf.action
  BY <1>9 DEF NoConf
<1> HIDE DEF n, NoConf, Full
<1> QED BY <1>6, <1>9, <1>12, <1>13, <1>14, <1>15, <1>16, <1>17, <1>18 DEF IsMapped
-----------------------------------------------------------------------------
(* The invariant after a request: it is enough to look at the window. *)
LEMMA RequestStep ==
  ASSUME VInv, v.state = "mapped", Steps(v', v), Timed(v'), UNCHANGED <<sent, acked, current>>,
         grab' \in Grabs, asked' \in 0..MaxRequests, Anchored',
         odd' \subseteq {"resize", "remap"}, odd \subseteq odd',
         odd' = {} => ToldRight(v'.told) /\ Spreads(v')
  PROVE  VInv'
<1>1. /\ v \in Views /\ v' \in Views /\ Serials(v) /\ Serials(v') /\ Advances(v', v)
      /\ acked \in Events /\ sent \in Seq(Events) /\ current \in Nat
      /\ v'.state = "mapped" /\ v'.geo.w = v.geo.w
  BY DEF VInv, Types, Order, Steps
<1>2. Types'
  BY DEF VInv, Types, Steps
<1>3. /\ v.idle \in Nat /\ v.serial \in Nat /\ v'.idle \in Nat /\ v'.serial \in Nat
      /\ acked.serial \in Nat /\ v.idle \in {0, v.serial}
      /\ \A i \in DOMAIN sent : sent[i].serial \in Nat
  <2>1. \A i \in DOMAIN sent : sent[i] \in Events
    BY <1>1
  <2> QED BY <1>1, <2>1 DEF Views, Events, Serials
<1>4. Order'
  <2>1. v'.serial >= v.serial
    BY <1>1, <1>3 DEF Advances
  <2>2. \A n \in Nat : /\ n <= v.serial => n <= v'.serial
                       /\ n <= v.serial /\ (v.idle # 0 => n < v.idle) =>
                            (v'.idle # 0 => n < v'.idle)
    BY <1>1, <1>3 DEF Advances
  <2>3. current <= acked.serial /\ acked.serial <= v'.serial
        /\ (v'.idle # 0 => acked.serial < v'.idle)
    BY <1>3, <2>2 DEF VInv, Order
  <2>4. \A i \in DOMAIN sent :
          /\ acked.serial < sent[i].serial /\ sent[i].serial <= v'.serial
          /\ v'.idle # 0 => sent[i].serial < v'.idle
          /\ \A j \in DOMAIN sent : i < j => sent[i].serial < sent[j].serial
    BY <1>3, <2>2 DEF VInv, Order
  <2> QED BY <1>1, <2>3, <2>4 DEF Order
<1>5. Waits(v') /\ Knows(v')
  BY DEF Steps, Waits
<1>6. Hidden'
  BY <1>1 DEF Hidden
<1>7. Covering'
  <2> SUFFICES ASSUME odd' = {} PROVE Covering'
    BY DEF Covering
  <2>1. odd = {} /\ ToldRight(v'.told) /\ Spreads(v')
    OBVIOUS
  <2>2. Latest'
    <3>1. v'.idle = 0 => v.idle = 0 /\ v'.told = v.told
      BY <1>1 DEF Advances
    <3>2. Latest
      BY <2>1 DEF VInv, Covering
    <3> QED BY <3>1, <3>2 DEF Latest
  <2>3. /\ ToldRight(acked.told) /\ \A i \in DOMAIN sent : ToldRight(sent[i].told)
        /\ current = acked.serial /\ (acked.told.max \/ acked.told.full) => v.geo.w = Width
    BY <2>1 DEF VInv, Covering
  <2>4. /\ ToldRight(acked'.told) /\ \A i \in DOMAIN sent' : ToldRight(sent'[i].told)
        /\ current' = acked'.serial /\ (acked'.told.max \/ acked'.told.full) => v'.geo.w = Width
    BY <1>1, <2>3, SMTT(30)
  <2> QED BY <1>1, <2>1, <2>2, <2>4 DEF Covering
<1> QED BY <1>2, <1>4, <1>5, <1>6, <1>7 DEF VInv

(* A window at rest collects nothing. *)
LEMMA Resting ==
  ASSUME VInv
  PROVE  Collects(v) /\ Timed(v) /\ Steps(v, v) /\ v.action = {}
         /\ (odd = {} => ToldRight(v.told) /\ Spreads(v))
BY DEF VInv, Types, Order, Waits, Knows, Collects, Steps, Advances, Covering

(* No request is beyond the bound. *)
LEMMA RequestFacts ==
  ASSUME VInv, Request
  PROVE  v.state = "mapped" /\ asked' \in 0..MaxRequests
BY ViewAssumption DEF VInv, Types, Request

(* A change elsewhere makes a grab unclean. *)
LEMMA UncleanGrab ==
  ASSUME grab \in Grabs
  PROVE  [grab EXCEPT !.clean = FALSE] \in Grabs /\ [grab EXCEPT !.clean = FALSE].clean = FALSE
BY ZenonT(40) DEF Grabs

(* The activated state changes: an event nobody waits for. *)
LEMMA ActivateStep ==
  ASSUME VInv, Activate
  PROVE  VInv'
<1> DEFINE n == Scheduled(v)
<1>1. /\ n \in Views /\ Rest(n, v) /\ Serials(n)
      /\ n.geo = v.geo /\ n.action = v.action /\ n.want = v.want /\ n.conf = v.conf
      /\ n.told = v.told /\ n.idle # 0 /\ n.idle = n.serial
      /\ v.idle # 0 => n.serial = v.serial
      /\ v.idle = 0 => n.serial = v.serial + 1
  BY ScheduledFacts DEF VInv, Types, Order
<1>2. v' = n /\ grab' = [grab EXCEPT !.clean = FALSE] /\ odd' = odd
      /\ UNCHANGED <<sent, acked, current>> /\ Request
  BY DEF Activate
<1> HIDE DEF n
<1>3. Steps(n, v)
  BY <1>1 DEF VInv, Types, Waits, WaitsFor, Knows, Steps, Rest, Advances
<1>4. Timed(n)
  BY <1>1, SMTT(30) DEF VInv, Waits, Timed, Rest
<1>5. odd = {} => ToldRight(n.told) /\ Spreads(n)
  BY <1>1, Resting DEF Spreads, Rest
<1>6. grab' \in Grabs /\ Anchored' /\ odd \subseteq {"resize", "remap"}
  BY <1>2, UncleanGrab DEF VInv, Types, Anchored
<1> QED BY <1>2, <1>3, <1>4, <1>5, <1>6, RequestFacts, RequestStep

(* A change of state: the window's new state is enough. *)
LEMMA ChangesStateStep ==
  ASSUME NEW s, VInv, ChangesState(s), Steps(s, v), Timed(s),
         odd = {} /\ "resize" \notin v.conf.action => ToldRight(s.told) /\ Spreads(s)
  PROVE  VInv'
<1>1. v' = s /\ grab' = [grab EXCEPT !.clean = FALSE] /\ Request
      /\ odd' = odd \cup (IF "resize" \in v.conf.action THEN {"resize"} ELSE {})
      /\ UNCHANGED <<sent, acked, current>>
  BY DEF ChangesState, Overlaps
<1>2. grab' \in Grabs /\ Anchored' /\ odd \subseteq {"resize", "remap"}
  BY <1>1, UncleanGrab DEF VInv, Types, Anchored
<1>3. odd' \subseteq {"resize", "remap"} /\ odd \subseteq odd'
      /\ (odd' = {} => odd = {} /\ "resize" \notin v.conf.action)
  BY <1>1, <1>2, SMTT(30)
<1> QED BY <1>1, <1>2, <1>3, RequestFacts, RequestStep

(* The invariant says that a mapped window is between two operations. *)
LEMMA RestsNow ==
  ASSUME VInv, v.state = "mapped"
  PROVE  Rests(v)
BY DEF VInv, Types, Order, Rests

(* kywc_view_set_maximized. *)
LEMMA MaximizeStep ==
  ASSUME VInv, NEW max \in BOOLEAN, Maximize(max)
  PROVE  VInv'
<1>1. v.state = "mapped" /\ ChangesState(SetMaximized(v, max))
  BY DEF Maximize, ChangesState, Request
<1>2. CASE v.full
  <2>1. SetMaximized(v, max) = v
    BY <1>2 DEF SetMaximized
  <2> QED BY <1>1, <2>1, Resting, ChangesStateStep
<1>3. CASE ~v.full
  <2> DEFINE n == DoMaximized(v, max)
  <2>1. SetMaximized(v, max) = n
    BY <1>3 DEF SetMaximized
  <2>2. /\ Steps(n, v) /\ Timed(n)
        /\ "resize" \notin v.conf.action /\ ToldRight(v.told) /\ Spreads(v) =>
             ToldRight(n.told) /\ Spreads(n)
    BY <1>1, <1>3, RestsNow, MaximizedSteps
  <2> HIDE DEF n
  <2> QED BY <1>1, <2>1, <2>2, Resting, ChangesStateStep
<1> QED BY <1>2, <1>3

(* kywc_view_set_tiled. *)
LEMMA TileStep ==
  ASSUME VInv, NEW tile \in Tiles, Tile(tile)
  PROVE  VInv'
<1>1. v.state = "mapped" /\ ChangesState(SetTiled(v, tile))
  BY DEF Tile, ChangesState, Request
<1>2. CASE v.full
  <2>1. SetTiled(v, tile) = v
    BY <1>2, SMTT(30) DEF SetTiled
  <2> QED BY <1>1, <2>1, Resting, ChangesStateStep
<1>3. CASE ~v.full
  <2> DEFINE n == DoTiled(v, tile)
  <2>1. SetTiled(v, tile) = n
    BY <1>3 DEF SetTiled
  <2>2. /\ Steps(n, v) /\ Timed(n)
        /\ "resize" \notin v.conf.action /\ ToldRight(v.told) /\ Spreads(v) =>
             ToldRight(n.told) /\ Spreads(n)
    BY <1>1, <1>3, RestsNow, TiledSteps, ZenonT(40)
  <2> HIDE DEF n
  <2> QED BY <1>1, <2>1, <2>2, Resting, ChangesStateStep
<1> QED BY <1>2, <1>3

(* kywc_view_set_fullscreen. *)
LEMMA FullscreenStep ==
  ASSUME VInv, NEW full \in BOOLEAN, Fullscreen(full)
  PROVE  VInv'
<1> DEFINE n == DoFullscreen(v, full)
<1>1. v.state = "mapped" /\ ChangesState(n)
  BY DEF Fullscreen, ChangesState, Request
<1>2. /\ Steps(n, v) /\ Timed(n)
      /\ "resize" \notin v.conf.action /\ ToldRight(v.told) /\ Spreads(v) =>
           ToldRight(n.told) /\ Spreads(n)
  BY <1>1, RestsNow, FullscreenSteps
<1> HIDE DEF n
<1> QED BY <1>1, <1>2, Resting, ChangesStateStep

(* interactive_process_move: nothing is left of the maximized state. *)
LEMMA DragStep ==
  ASSUME VInv, NEW x \in Places, Drag(x)
  PROVE  VInv'
<1> DEFINE box == [v.saved EXCEPT !.x = x]
           at == [v EXCEPT !.saved = box]
           m == IF v.max THEN DoMaximized(at, FALSE)
                ELSE IF v.tile # "none" THEN DoTiled(at, "none") ELSE v
           n == DoMove(m, x)
<1>1. v.state = "mapped" /\ Rests(v) /\ x \in Int /\ v \in Views /\ v.saved \in Boxes
      /\ "none" \in Tiles
  BY RestsNow, RequestFacts, ViewAssumption DEF Drag, Rests, Views
<1>2. /\ v' = n /\ ~v.full /\ grab = NoGrab /\ Request
      /\ odd' = odd \cup (IF "resize" \in v.conf.action THEN {"resize"} ELSE {})
      /\ UNCHANGED <<sent, acked, current, grab>>
  <2>1. [v EXCEPT !.saved.x = x] = at
    BY <1>1 DEF Views
  <2> QED BY <2>1 DEF Drag, Overlaps
<1>3. box \in Boxes
  BY <1>1 DEF Boxes
<1> HIDE DEF box
<1>4. /\ at \in Views /\ Kept(at, v) /\ at.action = v.action /\ at.want = v.want
      /\ at.max = v.max /\ at.full = v.full /\ at.tile = v.tile
  BY <1>1, <1>3 DEF Views, Kept
<1> HIDE DEF at
<1>5. Rests(at)
  BY <1>1, <1>4 DEF Rests, Kept, Waits, WaitsFor, Timed, Knows, Serials
<1>6. Steps(m, v) /\ Timed(m) /\ ~m.max /\ ~m.full
  <2>1. CASE v.max
    <3> DEFINE q == DoMaximized(at, FALSE)
    <3>1. Steps(q, at) /\ Timed(q) /\ q.full = at.full /\ ~q.max
      BY <1>2, <1>4, <1>5, MaximizedSteps, Zenon
    <3>2. m = q
      BY <2>1
    <3> HIDE DEF q, m
    <3> QED BY <1>2, <1>4, <3>1, <3>2, KeptSteps, Zenon
  <2>2. CASE ~v.max /\ v.tile # "none"
    <3> DEFINE q == DoTiled(at, "none")
    <3>1. Steps(q, at) /\ Timed(q) /\ q.full = at.full /\ (at.tile # "none" => q.max = FALSE)
      BY <1>1, <1>2, <1>4, <1>5, TiledSteps, Zenon
    <3>2. m = q
      BY <2>2
    <3> HIDE DEF q, m
    <3> QED BY <1>2, <1>4, <2>2, <3>1, <3>2, KeptSteps
  <2>3. CASE ~v.max /\ v.tile = "none"
    BY <1>1, <1>2, <2>3, RestsFacts
  <2> QED BY <2>1, <2>2, <2>3, ZenonT(40)
<1> HIDE DEF m
<1>7. Rests(m)
  BY <1>1, <1>6, StepsRests
<1>8. /\ Steps(n, m) /\ Timed(n) /\ Rest(n, m) /\ n.told = m.told
      /\ n.idle = m.idle /\ n.serial = m.serial
  BY <1>1, <1>7, MoveSteps, SMTT(30)
<1> HIDE DEF n
<1>9. Steps(n, v)
  BY <1>6, <1>8 DEF Steps, Advances
<1>10. ~n.max /\ ~n.full
  BY <1>6, <1>8 DEF Rest
<1>11. ToldRight(n.told) /\ Spreads(n)
  BY <1>9, <1>10, SMTT(30) DEF Steps, Knows, ToldRight, Spreads
<1>12. grab' \in Grabs /\ Anchored' /\ odd \subseteq {"resize", "remap"}
  BY <1>2 DEF VInv, Types, Anchored, NoGrab
<1>13. odd' \subseteq {"resize", "remap"} /\ odd \subseteq odd'
  BY <1>2, <1>12
<1> QED BY <1>1, <1>2, <1>8, <1>9, <1>11, <1>12, <1>13, RequestFacts, RequestStep

(* A grab starts. *)
LEMMA BeginResizeStep ==
  ASSUME VInv, NEW edge \in {"left", "right"}, BeginResize(edge)
  PROVE  VInv'
<1>1. /\ UNCHANGED <<v, sent, acked, current, odd>> /\ Request /\ ~v.max /\ ~v.full
      /\ grab' = [edge |-> edge, geo |-> v.geo, moved |-> FALSE, clean |-> Quiet]
  BY DEF BeginResize
<1>2. v.geo \in Boxes /\ odd \subseteq {"resize", "remap"}
  BY DEF VInv, Types, Views
<1>3. Quiet \in BOOLEAN
  BY DEF Quiet
<1>4. grab' \in Grabs /\ grab'.clean = Quiet /\ grab'.geo = v.geo
  <2> DEFINE g(e, b) == [edge |-> e, geo |-> v.geo, moved |-> FALSE, clean |-> b]
  <2>1. \A b \in BOOLEAN, e \in {"left", "right"} :
          g(e, b) \in Grabs /\ g(e, b).clean = b /\ g(e, b).geo = v.geo
    BY <1>2 DEF Grabs
  <2>2. grab' = g(edge, Quiet)
    BY <1>1
  <2> HIDE DEF g
  <2> QED BY <1>3, <2>1, <2>2, Zenon
<1>5. Quiet => v.conf = NoConf
  BY DEF Quiet
<1>6. Quiet => Quiet'
  BY <1>1 DEF Quiet
<1> HIDE DEF NoConf
<1>7. Anchored'
  BY <1>1, <1>4, <1>5, <1>6 DEF Anchored
<1>8. v.state = "mapped" /\ Steps(v', v) /\ Timed(v')
      /\ (odd' = {} => ToldRight(v'.told) /\ Spreads(v'))
  BY <1>1, Resting, RequestFacts
<1> QED BY <1>1, <1>2, <1>4, <1>7, <1>8, RequestFacts, RequestStep

(* The pointer moves: the edge that is not dragged is where it was. *)
LEMMA MotionStep ==
  ASSUME VInv, NEW w \in Widths, Motion(w)
  PROVE  VInv'
<1> DEFINE x == IF grab.edge = "left" THEN grab.geo.x + grab.geo.w - w ELSE v.geo.x
           box == Box(x, w)
           n == Resize(v, box)
<1>1. /\ v' = n /\ Request /\ grab' = [grab EXCEPT !.moved = TRUE]
      /\ odd' = odd \cup (IF v.max \/ v.full \/ v.conf.action \ {"resize"} # {}
                         THEN {"resize"} ELSE {})
      /\ UNCHANGED <<sent, acked, current>>
  BY DEF Motion, Overlaps
<1>2. /\ v.state = "mapped" /\ Rests(v) /\ v.geo.x \in Int /\ grab.geo.x \in Int
      /\ grab.geo.w \in Int /\ v.geo.w \in Int
      /\ grab \in Grabs /\ odd \subseteq {"resize", "remap"} /\ Knows(v)
  BY <1>1, RequestFacts, RestsNow DEF VInv, Types, Grabs, Views, Boxes
<1>3. w \in 0..Width /\ w \in Int
  BY BoxFacts
<1>4. x \in Int /\ (grab.edge = "left" => x + w = Right(grab.geo))
  BY <1>2, <1>3 DEF Right
<1> HIDE DEF x
<1>5. box \in Boxes /\ box.x = x /\ box.w = w
  BY <1>3, <1>4, SMTT(30) DEF Box, Boxes
<1> HIDE DEF box
<1>6. /\ Steps(n, v) /\ Timed(n) /\ Rest(n, v)
      /\ ~v.full => /\ n.geo.x = v.geo.x /\ n.conf.geo = box /\ n.conf.serial = n.serial
                    /\ n.conf.action = v.conf.action \cup {"resize"}
  BY <1>2, <1>5, ResizeSteps
<1> HIDE DEF n
<1>7. /\ grab' \in Grabs /\ grab'.moved = TRUE /\ grab'.clean = grab.clean
      /\ grab'.edge = grab.edge /\ grab'.geo = grab.geo
  BY <1>1, <1>2, Zenon DEF Grabs
<1>8. Anchored'
  <2> SUFFICES ASSUME grab.clean PROVE Anchored'
    BY <1>7 DEF Anchored
  <2>1. ~v.max /\ ~v.full /\ (v.conf = NoConf \/ v.conf.action = {"resize"})
        /\ (grab.edge = "left" => Right(v.geo) = Right(grab.geo))
    BY DEF VInv, Anchored
  <2>2. ~n.max /\ ~n.full
    BY <1>6, <2>1 DEF Rest
  <2>3. n.conf.action = {"resize"} /\ n.conf.serial = n.serial /\ n.conf # NoConf
    BY <1>6, <2>1, SMTT(30) DEF NoConf
  <2>4. Right(n.geo) = Right(v.geo) /\ Right(n.conf.geo) = x + w
    BY <1>5, <1>6, <2>1 DEF Right, Steps
  <2> HIDE DEF NoConf, Right
  <2> QED BY <1>1, <1>4, <1>7, <2>1, <2>2, <2>3, <2>4 DEF Anchored
<1>9. odd' \subseteq {"resize", "remap"} /\ odd \subseteq odd' /\ (odd' = {} => ~v.max /\ ~v.full)
  BY <1>1, <1>2, SMTT(30)
<1>10. odd' = {} => ToldRight(n.told) /\ Spreads(n)
  BY <1>6, <1>9 DEF Steps, Rest, Knows, ToldRight, Spreads
<1> QED BY <1>1, <1>2, <1>6, <1>7, <1>8, <1>9, <1>10, RequestFacts, RequestStep

(* The grab ends, with or without its last size. *)
LEMMA EndResizeStep ==
  ASSUME VInv, NEW escape \in BOOLEAN, EndResize(escape)
  PROVE  VInv'
<1> DEFINE n == Resize(v, grab.geo)
<1>1. /\ v' = (IF escape THEN n ELSE v) /\ Request /\ grab' = NoGrab
      /\ odd' = odd \cup (IF escape /\ (v.max \/ v.full \/ v.conf.action \ {"resize"} # {})
                         THEN {"resize"} ELSE {})
      /\ UNCHANGED <<sent, acked, current>>
  BY SMTT(30) DEF EndResize, Overlaps
<1>2. v.state = "mapped" /\ Rests(v) /\ grab.geo \in Boxes /\ odd \subseteq {"resize", "remap"}
  BY <1>1, RequestFacts, RestsNow DEF VInv, Types, Grabs
<1>3. Steps(n, v) /\ Timed(n) /\ Rest(n, v)
  BY <1>2, ResizeSteps
<1> HIDE DEF n
<1>4. grab' \in Grabs /\ Anchored'
  BY <1>1, BoxFacts DEF NoGrab, Grabs, Anchored
<1>5. odd' \subseteq {"resize", "remap"} /\ odd \subseteq odd'
      /\ (odd' = {} => odd = {} /\ (escape => ~v.max /\ ~v.full))
  BY <1>1, <1>2
<1>6. Steps(v', v) /\ Timed(v')
  BY <1>1, <1>3, Resting
<1>7. odd' = {} => ToldRight(v'.told) /\ Spreads(v')
  <2>1. CASE escape
    BY <1>1, <1>3, <1>5, <2>1, SMTT(30) DEF Steps, Rest, Knows, ToldRight, Spreads
  <2>2. CASE ~escape
    BY <1>1, <1>5, <2>2, Resting
  <2> QED BY <2>1, <2>2
<1> QED BY <1>1, <1>2, <1>4, <1>5, <1>6, <1>7, RequestFacts, RequestStep
=============================================================================
