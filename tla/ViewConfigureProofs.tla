------------------------- MODULE ViewConfigureProofs -------------------------
(***************************************************************************)
(* Proofs about the configuration of windows, for an output and windows of *)
(* any width, any places and any number of requests: the client's answers, *)
(* timeouts and mapping keep the invariant, and what follows from it.      *)
(***************************************************************************)
EXTENDS ViewConfigureLemmas

(* What the events on their way are, as numbers and records. *)
LEMMA EventFacts ==
  ASSUME VInv
  PROVE  /\ v \in Views /\ v.idle \in Nat /\ v.serial \in Nat /\ v.conf \in Confs
         /\ v.conf.serial \in Nat /\ v.idle \in {0, v.serial} /\ v.conf.serial <= v.serial
         /\ acked \in Events /\ acked.serial \in Nat /\ acked.told \in ToldStates
         /\ current \in Nat /\ sent \in Seq(Events) /\ Len(sent) \in Nat
         /\ DOMAIN sent = 1..Len(sent) /\ (sent = <<>> <=> Len(sent) = 0)
         /\ \A i \in DOMAIN sent : sent[i] \in Events /\ sent[i].serial \in Nat
<1>1. /\ v \in Views /\ acked \in Events /\ sent \in Seq(Events) /\ current \in Nat /\ Serials(v)
  BY DEF VInv, Types, Order
<1>2. \A i \in DOMAIN sent : sent[i] \in Events
  BY <1>1
<1>3. /\ v.idle \in Nat /\ v.serial \in Nat /\ v.conf \in Confs /\ v.conf.serial \in Nat
      /\ v.idle \in {0, v.serial} /\ v.conf.serial <= v.serial
  BY <1>1 DEF Views, Confs, Serials
<1>4. /\ acked.serial \in Nat /\ acked.told \in ToldStates
      /\ \A i \in DOMAIN sent : sent[i].serial \in Nat
  BY <1>1, <1>2 DEF Events
<1>5. DOMAIN sent = 1..Len(sent) /\ Len(sent) \in Nat /\ (sent = <<>> <=> Len(sent) = 0)
  BY <1>1
<1> QED BY <1>1, <1>2, <1>3, <1>4, <1>5

(* The event that was scheduled is sent. *)
LEMMA SendStep ==
  ASSUME VInv, SendConfigure
  PROVE  VInv'
<1> DEFINE e == Event(v.idle, v.told)
           n == [v EXCEPT !.idle = 0]
<1>1. /\ v.idle # 0 /\ sent' = Append(sent, e) /\ v' = n
      /\ UNCHANGED <<acked, current, grab, odd, asked>>
  BY DEF SendConfigure
<1>2. /\ v \in Views /\ v.idle \in Nat /\ v.serial \in Nat /\ v.told \in ToldStates
      /\ acked.serial \in Nat /\ sent \in Seq(Events) /\ Len(sent) \in Nat
      /\ DOMAIN sent = 1..Len(sent) /\ v.idle = v.serial
      /\ \A i \in DOMAIN sent : sent[i] \in Events /\ sent[i].serial \in Nat
  BY <1>1, EventFacts DEF Views
<1>3. e \in Events /\ e.serial = v.idle /\ e.told = v.told
  BY <1>2 DEF Event, Events
<1> HIDE DEF e
<1>4. /\ n \in Views /\ Rest(n, v) /\ n.geo = v.geo /\ n.action = v.action /\ n.want = v.want
      /\ n.conf = v.conf /\ n.told = v.told /\ n.idle = 0 /\ n.serial = v.serial
  BY <1>2 DEF Views, Rest
<1> HIDE DEF n
<1>5. /\ sent' \in Seq(Events) /\ Len(sent') = Len(sent) + 1 /\ DOMAIN sent' = 1..(Len(sent) + 1)
      /\ sent'[Len(sent) + 1] = e /\ sent' # <<>>
      /\ \A i \in 1..Len(sent) : sent'[i] = sent[i]
  BY <1>1, <1>2, <1>3
<1>6. \A i \in DOMAIN sent' : i \in DOMAIN sent \/ (i = Len(sent) + 1 /\ i \notin DOMAIN sent)
  BY <1>2, <1>5
<1>7. Types'
  BY <1>1, <1>4, <1>5 DEF VInv, Types
<1>8. Order'
  <2>1. Serials(n) /\ current <= acked.serial /\ acked.serial <= n.serial
    BY <1>4 DEF VInv, Order, Serials
  <2>2. acked.serial < v.idle /\ \A i \in DOMAIN sent :
          /\ acked.serial < sent[i].serial /\ sent[i].serial < v.idle
          /\ \A j \in DOMAIN sent : i < j => sent[i].serial < sent[j].serial
    BY <1>1 DEF VInv, Order
  <2>3. \A i \in DOMAIN sent' :
          /\ acked.serial < sent'[i].serial /\ sent'[i].serial <= v.serial
          /\ \A j \in DOMAIN sent' : i < j => sent'[i].serial < sent'[j].serial
    <3> TAKE i \in DOMAIN sent'
    <3>1. CASE i \in DOMAIN sent
      <4>1. sent'[i] = sent[i]
        BY <1>2, <1>5, <3>1
      <4>2. acked.serial < sent[i].serial /\ sent[i].serial < v.idle
        BY <2>2, <3>1
      <4>3. sent[i].serial <= v.serial
        BY <1>2, <3>1, <4>2
      <4>4. ASSUME NEW j \in DOMAIN sent', i < j PROVE sent'[i].serial < sent'[j].serial
        <5>1. CASE j \in DOMAIN sent
          BY <1>2, <1>5, <2>2, <3>1, <4>1, <4>4, <5>1
        <5>2. CASE j = Len(sent) + 1
          BY <1>3, <1>5, <4>1, <4>2, <5>2
        <5> QED BY <1>6, <5>1, <5>2
      <4> QED BY <4>1, <4>2, <4>3, <4>4
    <3>2. CASE i = Len(sent) + 1
      <4>1. sent'[i].serial = v.idle
        BY <1>3, <1>5, <3>2
      <4>2. \A j \in DOMAIN sent' : ~(i < j)
        BY <1>2, <1>5, <3>2
      <4> QED BY <1>2, <2>2, <4>1, <4>2
    <3> QED BY <1>6, <3>1, <3>2
  <2> QED BY <1>1, <1>4, <2>1, <2>3 DEF Order
<1>9. Waits(n) /\ Knows(n)
  BY <1>4 DEF VInv, Waits, WaitsFor, Timed, Knows, Rest
<1>10. Hidden'
  <2>1. v.state # "unmapped"
    BY <1>1 DEF VInv, Hidden
  <2>2. n.state = v.state
    BY <1>4 DEF Rest
  <2>3. v.state = "initial" => \A i \in DOMAIN sent' : sent'[i].serial > v.conf.serial
    BY <1>1, <1>2, <1>3, <1>5, <1>6 DEF VInv, Hidden
  <2> QED BY <1>1, <1>4, <2>1, <2>2, <2>3 DEF VInv, Hidden
<1>11. Anchored'
  <2>1. ~Quiet /\ n.max = v.max /\ n.full = v.full
    BY <1>1, <1>4 DEF Quiet, Rest
  <2> HIDE DEF NoConf, Right
  <2> QED BY <1>1, <1>4, <2>1 DEF VInv, Anchored
<1>12. Covering'
  <2> SUFFICES ASSUME odd = {} PROVE Covering'
    BY <1>1 DEF Covering
  <2>1. /\ ToldRight(v.told) /\ ToldRight(acked.told)
        /\ \A i \in DOMAIN sent : ToldRight(sent[i].told)
        /\ v.state # "mapped" =>
             /\ ~v.max /\ ~v.full /\ v.conf = NoConf
             /\ ~acked.told.max /\ ~acked.told.full
             /\ \A i \in DOMAIN sent : ~sent[i].told.max /\ ~sent[i].told.full
        /\ Spreads(v)
        /\ current = acked.serial /\ (acked.told.max \/ acked.told.full) => v.geo.w = Width
    BY DEF VInv, Covering
  <2>2. n.max = v.max /\ n.full = v.full /\ n.state = v.state
    BY <1>4 DEF Rest
  <2>3. Latest'
    BY <1>1, <1>3, <1>4, <1>5 DEF Latest
  <2>4. \A i \in DOMAIN sent' : ToldRight(sent'[i].told)
    BY <1>2, <1>3, <1>5, <1>6, <2>1
  <2>5. v.state # "mapped" => ~v.told.max /\ ~v.told.full
    BY <2>1 DEF VInv, Knows
  <2>6. v.state # "mapped" => \A i \in DOMAIN sent' : ~sent'[i].told.max /\ ~sent'[i].told.full
    BY <1>2, <1>3, <1>5, <1>6, <2>1, <2>5
  <2>7. Spreads(n)
    BY <1>4, <2>1, <2>2 DEF Spreads
  <2> HIDE DEF NoConf
  <2> QED BY <1>1, <1>4, <2>1, <2>2, <2>3, <2>4, <2>6, <2>7 DEF Covering
<1> QED BY <1>1, <1>7, <1>8, <1>9, <1>10, <1>11, <1>12 DEF VInv

(* An event is acknowledged, with those before it. *)
LEMMA AckStep ==
  ASSUME VInv, Ack
  PROVE  VInv'
<1>1. PICK k \in DOMAIN sent :
        /\ acked' = sent[k] /\ sent' = SubSeq(sent, k + 1, Len(sent))
        /\ UNCHANGED <<v, current, grab, odd, asked>>
  BY Zenon DEF Ack
<1>2. /\ v.serial \in Nat /\ v.idle \in Nat /\ acked.serial \in Nat /\ current \in Nat
      /\ v.conf.serial \in Nat /\ sent \in Seq(Events) /\ Len(sent) \in Nat
      /\ DOMAIN sent = 1..Len(sent) /\ sent # <<>>
      /\ \A i \in DOMAIN sent : sent[i] \in Events /\ sent[i].serial \in Nat
  BY <1>1, EventFacts
<1>3. k \in Nat /\ k >= 1 /\ k <= Len(sent)
  BY <1>1, <1>2
<1>4. /\ sent' \in Seq(Events) /\ Len(sent') = Len(sent) - k
      /\ DOMAIN sent' = 1..(Len(sent) - k)
      /\ \A i \in 1..(Len(sent) - k) : sent'[i] = sent[k + i]
  <2>1. SubSeq(sent, k + 1, Len(sent)) \in Seq(Events)
    BY <1>2, <1>3
  <2>2. Len(SubSeq(sent, k + 1, Len(sent))) = Len(sent) - k
    BY <1>2, <1>3
  <2>3. \A i \in 1..(Len(sent) - k) : SubSeq(sent, k + 1, Len(sent))[i] = sent[k + i]
    BY <1>2, <1>3
  <2> QED BY <1>1, <2>1, <2>2, <2>3
<1>5. \A i \in DOMAIN sent' : k + i \in DOMAIN sent /\ sent'[i] = sent[k + i] /\ k < k + i
        /\ \A j \in DOMAIN sent' : i < j => k + i < k + j
  BY <1>2, <1>3, <1>4
<1>6. Types'
  BY <1>1, <1>2, <1>4, SMTT(30) DEF VInv, Types
<1>7. /\ acked.serial < sent[k].serial /\ sent[k].serial <= v.serial /\ current <= acked.serial
      /\ v.idle # 0 => sent[k].serial < v.idle
  BY <1>1 DEF VInv, Order
<1>8. current < sent[k].serial
  BY <1>2, <1>7
<1>9. Order'
  <2>1. \A i \in DOMAIN sent' :
          /\ sent[k].serial < sent'[i].serial /\ sent'[i].serial <= v.serial
          /\ v.idle # 0 => sent'[i].serial < v.idle
          /\ \A j \in DOMAIN sent' : i < j => sent'[i].serial < sent'[j].serial
    BY <1>1, <1>5 DEF VInv, Order
  <2>2. Serials(v) /\ current <= sent[k].serial
    BY <1>2, <1>8 DEF VInv, Order
  <2> QED BY <1>1, <1>7, <2>1, <2>2, Zenon DEF Order
<1>10. Waits(v') /\ Knows(v')
  BY <1>1 DEF VInv
<1>11. Hidden'
  <2>1. v.state # "unmapped"
    BY <1>2 DEF VInv, Hidden
  <2>2. v.state = "initial" => /\ sent[k].serial > v.conf.serial
                               /\ \A i \in DOMAIN sent' : sent'[i].serial > v.conf.serial
    BY <1>1, <1>5 DEF VInv, Hidden
  <2> QED BY <1>1, <2>1, <2>2 DEF VInv, Hidden
<1>12. Anchored'
  <2>1. ~Quiet
    BY <1>2 DEF Quiet
  <2> HIDE DEF NoConf, Right
  <2> QED BY <1>1, <2>1 DEF VInv, Anchored
<1>13. Covering'
  <2> SUFFICES ASSUME odd = {} PROVE Covering'
    BY <1>1 DEF Covering
  <2>1. /\ ToldRight(v.told) /\ Latest
        /\ \A i \in DOMAIN sent : ToldRight(sent[i].told)
        /\ v.state # "mapped" =>
             /\ ~v.max /\ ~v.full /\ v.conf = NoConf
             /\ \A i \in DOMAIN sent : ~sent[i].told.max /\ ~sent[i].told.full
        /\ Spreads(v)
    BY DEF VInv, Covering
  <2>2. Latest'
    <3>1. v.idle = 0 => sent[Len(sent)].told = v.told
      BY <1>2, <2>1 DEF Latest
    <3>2. CASE k = Len(sent)
      BY <1>1, <1>2, <1>4, <3>1, <3>2 DEF Latest
    <3>3. CASE k # Len(sent)
      <4>1. Len(sent) - k \in DOMAIN sent' /\ k + (Len(sent) - k) = Len(sent)
        BY <1>2, <1>3, <1>4, <3>3
      <4>2. sent'[Len(sent')] = sent[Len(sent)] /\ sent' # <<>>
        BY <1>4, <4>1
      <4> QED BY <1>1, <3>1, <4>2, Zenon DEF Latest
    <3> QED BY <3>2, <3>3
  <2>3. ToldRight(sent[k].told) /\ \A i \in DOMAIN sent' : ToldRight(sent'[i].told)
    BY <1>1, <1>5, <2>1
  <2>4. v.state # "mapped" =>
          /\ ~v.max /\ ~v.full /\ v.conf = NoConf /\ ~sent[k].told.max /\ ~sent[k].told.full
          /\ \A i \in DOMAIN sent' : ~sent'[i].told.max /\ ~sent'[i].told.full
    BY <1>1, <1>5, <2>1
  <2>5. current # sent[k].serial
    BY <1>1, <1>2, <1>8
  <2> HIDE DEF NoConf
  <2> QED BY <1>1, <2>1, <2>2, <2>3, <2>4, <2>5 DEF Covering
<1> QED BY <1>1, <1>6, <1>9, <1>10, <1>11, <1>12, <1>13 DEF VInv

(* The client commits a size. *)
LEMMA CommitStep ==
  ASSUME VInv, Commit
  PROVE  VInv'
<1>1. PICK w \in IF acked.serial = current THEN {v.geo.w} ELSE Answers(acked.told) :
        v' = Committed([v EXCEPT !.geo.w = w], acked.serial, LeftEdge)
  BY DEF Commit
<1>2. /\ v.state = "mapped" /\ current' = acked.serial
      /\ UNCHANGED <<sent, acked, grab, odd, asked>>
  BY DEF Commit
<1>3. /\ v \in Views /\ v.idle \in Nat /\ v.serial \in Nat /\ v.conf \in Confs
      /\ v.conf.serial \in Nat /\ v.idle \in {0, v.serial} /\ v.conf.serial <= v.serial
      /\ acked.serial \in Nat /\ acked.told \in ToldStates /\ current \in Nat
      /\ \A i \in DOMAIN sent : sent[i].serial \in Nat
      /\ DOMAIN sent = 1..Len(sent) /\ Len(sent) \in Nat /\ (sent = <<>> <=> Len(sent) = 0)
      /\ v.geo \in Boxes /\ v.geo.w \in 0..Width /\ v.geo.x \in Int
  BY EventFacts DEF Views, Boxes
<1>4. w \in 0..Width /\ w \in Int
  <2>1. CASE acked.serial = current
    BY <1>1, <1>3, <2>1, BoxFacts
  <2>2. CASE acked.serial # current
    BY <1>1, <1>3, <2>2, BoxFacts DEF Answers, ToldStates
  <2> QED BY <2>1, <2>2
<1> DEFINE g == [v.geo EXCEPT !.w = w]
           s == [v EXCEPT !.geo = g]
           n == Committed(s, acked.serial, LeftEdge)
<1>5. v' = n
  <2>1. [v EXCEPT !.geo.w = w] = s
    BY <1>3 DEF Views
  <2> QED BY <1>1, <2>1
<1>6. g \in Boxes /\ g.x = v.geo.x /\ g.w = w
  BY <1>3, <1>4 DEF Boxes
<1> HIDE DEF g
<1>7. /\ s \in Views /\ Rest(s, v) /\ s.action = v.action /\ s.want = v.want /\ s.conf = v.conf
      /\ s.told = v.told /\ s.idle = v.idle /\ s.serial = v.serial /\ s.geo = g
  BY <1>3, <1>6, SMTT(30) DEF Views, Rest
<1> HIDE DEF s
<1>8. WaitsFor(s)
  BY <1>7 DEF VInv, Waits, WaitsFor
<1> DEFINE unacked == v.conf.serial >= acked.serial /\ "resize" \in v.conf.action
<1>9. /\ n \in Views /\ Rest(n, s) /\ n.action = s.action /\ n.want = s.want
      /\ n.told = s.told /\ n.idle = s.idle /\ n.serial = s.serial /\ n.geo.w = s.geo.w
      /\ acked.serial >= s.conf.serial => n.conf = NoConf
      /\ ~(acked.serial >= s.conf.serial) => n.conf = s.conf
      /\ s.conf = NoConf => n.geo.x = s.geo.x
      /\ s.conf # NoConf /\ unacked => n.geo.x = Anchor(s, LeftEdge)
      /\ s.conf # NoConf /\ ~unacked /\ acked.serial >= s.conf.serial => n.geo.x = s.conf.geo.x
  <2>1. IsCommitted(n, s, acked.serial, LeftEdge)
    BY <1>3, <1>7, <1>8, CommittedFacts, Zenon
  <2> HIDE DEF n, NoConf
  <2> QED BY <1>7, <2>1 DEF IsCommitted
<1> HIDE DEF n
<1>10. NoConf.serial = 0 /\ NoConf.timer = FALSE
  BY DEF NoConf
<1> HIDE DEF NoConf
<1>11. /\ n \in Views /\ n.action = v.action /\ n.want = v.want /\ n.state = v.state
       /\ n.max = v.max /\ n.full = v.full /\ n.tile = v.tile
       /\ n.told = v.told /\ n.idle = v.idle /\ n.serial = v.serial /\ n.geo.w = w
       /\ acked.serial >= v.conf.serial => n.conf = NoConf
       /\ ~(acked.serial >= v.conf.serial) => n.conf = v.conf
       /\ v.conf = NoConf => n.geo.x = v.geo.x
  BY <1>6, <1>7, <1>9 DEF Rest
<1>12. /\ v.conf # NoConf /\ unacked /\ LeftEdge => n.geo.x = v.conf.geo.x + v.conf.geo.w - w
       /\ v.conf # NoConf /\ ~unacked /\ acked.serial >= v.conf.serial => n.geo.x = v.conf.geo.x
  BY <1>6, <1>7, <1>9 DEF Anchor
<1>13. Types'
  BY <1>2, <1>3, <1>5, <1>11 DEF VInv, Types
<1>14. Order'
  <2>1. Serials(n) /\ acked.serial <= acked.serial
    BY <1>3, <1>10, <1>11 DEF Serials
  <2> QED BY <1>2, <1>5, <1>11, <2>1 DEF VInv, Order
<1>15. Waits(n) /\ Knows(n)
  BY <1>10, <1>11 DEF VInv, Waits, WaitsFor, Timed, Knows
<1>16. Hidden'
  BY <1>2, <1>5, <1>11 DEF Hidden
<1>17. Anchored'
  <2> SUFFICES ASSUME grab.clean PROVE Anchored'
    BY <1>2 DEF Anchored
  <2>1. Anchored
    BY DEF VInv
  <2>2. CASE v.conf = NoConf
    <3>1. Quiet /\ acked.serial >= v.conf.serial
      BY <1>3, <1>10, <2>1, <2>2 DEF Anchored
    <3>2. n.geo.x = v.geo.x /\ n.geo.w = v.geo.w /\ n.conf = NoConf
      BY <1>1, <1>11, <2>2, <3>1 DEF Quiet
    <3>3. Quiet'
      BY <1>2, <1>5, <1>11, <3>1, <3>2 DEF Quiet
    <3> QED BY <1>2, <1>5, <1>11, <2>1, <3>2, <3>3 DEF Anchored, Right
  <2>3. CASE v.conf # NoConf
    <3>1. v.conf.action = {"resize"} /\ v.conf.serial = v.serial /\ grab.moved /\ ~v.max /\ ~v.full
          /\ (grab.edge = "left" => Right(v.conf.geo) = Right(grab.geo))
      BY <2>1, <2>3 DEF Anchored
    <3>2. unacked /\ (grab.edge = "left" => LeftEdge)
      BY <1>3, <3>1 DEF VInv, Order, LeftEdge
    <3> HIDE DEF unacked
    <3>3. grab.edge = "left" => Right(n.geo) = Right(grab.geo)
      <4>1. v.conf.geo.x \in Int /\ v.conf.geo.w \in Int
        BY <1>3 DEF Confs, Boxes
      <4>2. grab.edge = "left" => n.geo.x = v.conf.geo.x + v.conf.geo.w - w
        BY <1>12, <2>3, <3>2
      <4> QED BY <1>4, <1>11, <3>1, <4>1, <4>2 DEF Right
    <3>4. CASE acked.serial >= v.conf.serial
      <4>1. acked.serial = v.serial
        BY <1>3, <3>1, <3>4 DEF VInv, Order
      <4>2. v.idle = 0
        BY <1>3, <4>1 DEF VInv, Order
      <4>3. sent = <<>>
        <5>1. ASSUME 1 \in DOMAIN sent PROVE FALSE
          <6>1. acked.serial < sent[1].serial /\ sent[1].serial <= v.serial
            BY <5>1 DEF VInv, Order
          <6> QED BY <1>3, <4>1, <5>1, <6>1
        <5> QED BY <1>3, <5>1
      <4>4. Quiet' /\ n.conf = NoConf
        BY <1>2, <1>5, <1>11, <3>4, <4>2, <4>3 DEF Quiet
      <4> QED BY <1>2, <1>5, <1>11, <3>1, <3>3, <4>4 DEF Anchored
    <3>5. CASE ~(acked.serial >= v.conf.serial)
      <4>1. n.conf = v.conf
        BY <1>11, <3>5
      <4> QED BY <1>2, <1>5, <1>11, <2>3, <3>1, <3>3, <4>1 DEF Anchored
    <3> QED BY <3>4, <3>5
  <2> QED BY <2>2, <2>3
<1>18. Covering'
  <2> SUFFICES ASSUME odd = {} PROVE Covering'
    BY <1>2 DEF Covering
  <2>1. Covering
    BY DEF VInv
  <2>2. Latest'
    BY <1>2, <1>5, <1>11, <2>1 DEF Covering, Latest
  <2>3. Spreads(n)
    <3> SUFFICES ASSUME v.max \/ v.full PROVE Spreads(n)
      BY <1>11 DEF Spreads
    <3>1. CASE v.conf = NoConf
      <4>1. v.geo.x = 0 /\ n.conf = NoConf
        BY <1>3, <1>10, <1>11, <2>1, <3>1 DEF Covering, Spreads
      <4> QED BY <1>11, <3>1, <4>1 DEF Spreads
    <3>2. CASE v.conf # NoConf
      <4>1. v.conf.geo = Full /\ "resize" \notin v.conf.action
        BY <2>1, <3>2 DEF Covering, Spreads
      <4>2. ~unacked
        BY <4>1
      <4> HIDE DEF unacked
      <4>3. CASE acked.serial >= v.conf.serial
        <5>1. n.geo.x = 0 /\ n.conf = NoConf
          BY <1>11, <1>12, <3>2, <4>1, <4>2, <4>3, BoxFacts
        <5> QED BY <5>1 DEF Spreads
      <4>4. CASE ~(acked.serial >= v.conf.serial)
        BY <1>11, <3>2, <4>1, <4>4 DEF Spreads
      <4> QED BY <4>3, <4>4
    <3> QED BY <3>1, <3>2
  <2>4. acked.told.max \/ acked.told.full => w = Width
    <3> SUFFICES ASSUME acked.told.max \/ acked.told.full PROVE w = Width
      OBVIOUS
    <3>1. CASE acked.serial = current
      BY <1>1, <2>1, <3>1 DEF Covering
    <3>2. CASE acked.serial # current
      <4>1. acked.told.w = Width /\ Width # 0
        BY <2>1, BoxFacts DEF Covering, ToldRight
      <4> QED BY <1>1, <3>2, <4>1 DEF Answers
    <3> QED BY <3>1, <3>2
  <2> QED BY <1>2, <1>5, <1>11, <2>1, <2>2, <2>3, <2>4 DEF Covering
<1> QED BY <1>5, <1>13, <1>14, <1>15, <1>16, <1>17, <1>18 DEF VInv

(* The wait ends without the client. *)
LEMMA TimeoutStep ==
  ASSUME VInv, Timeout
  PROVE  VInv'
<1> DEFINE x == Anchor(v, LeftEdge)
           m == MovedTo(v, x)
           n == Configured(m)
<1>1. /\ v.conf.timer /\ v' = n /\ grab' = [grab EXCEPT !.clean = FALSE]
      /\ UNCHANGED <<sent, acked, current, odd, asked>>
  BY DEF Timeout
<1>2. /\ v \in Views /\ v.serial \in Nat /\ acked.serial \in Nat /\ v.conf.geo \in Boxes
      /\ v.geo.w \in Int /\ v.idle \in {0, v.serial} /\ v.idle \in Nat
      /\ \A i \in DOMAIN sent : sent[i].serial \in Nat
  BY EventFacts DEF Views, Confs, Boxes
<1>3. x \in Int /\ ("resize" \notin v.conf.action => x = v.conf.geo.x)
  BY <1>2 DEF Anchor, Boxes
<1> HIDE DEF x
<1>4. /\ m \in Views /\ Rest(m, v) /\ m.geo.x = x /\ m.geo.w = v.geo.w
      /\ m.action = v.action /\ m.want = v.want
      /\ m.told = v.told /\ m.idle = v.idle /\ m.serial = v.serial
  BY <1>2, <1>3, MovedFacts, Zenon
<1> HIDE DEF m
<1>5. /\ n \in Views /\ Rest(n, m) /\ n.conf = NoConf /\ n.geo = m.geo
      /\ n.action = m.action /\ n.want = m.want
      /\ n.told = m.told /\ n.idle = m.idle /\ n.serial = m.serial
  BY <1>4, ConfiguredFacts
<1> HIDE DEF n
<1>6. /\ n \in Views /\ Rest(n, v) /\ n.conf = NoConf /\ n.geo.x = x /\ n.geo.w = v.geo.w
      /\ n.action = v.action /\ n.want = v.want
      /\ n.told = v.told /\ n.idle = v.idle /\ n.serial = v.serial
  BY <1>4, <1>5 DEF Rest
<1>7. grab' \in Grabs /\ ~grab'.clean /\ (grab = NoGrab => grab' = NoGrab)
  <2>1. grab' \in Grabs /\ grab'.clean = FALSE
    BY <1>1, UncleanGrab DEF VInv, Types
  <2>2. NoGrab.clean = FALSE
    BY DEF NoGrab
  <2>3. ASSUME grab.clean = FALSE PROVE [grab EXCEPT !.clean = FALSE] = grab
    BY <2>3 DEF VInv, Types, Grabs
  <2> HIDE DEF NoGrab
  <2> QED BY <1>1, <2>1, <2>2, <2>3, Zenon
<1>8. Types'
  BY <1>1, <1>6, <1>7 DEF VInv, Types
<1>9. NoConf.serial = 0 /\ NoConf.timer = FALSE
  BY DEF NoConf
<1> HIDE DEF NoConf
<1>10. Order'
  BY <1>1, <1>2, <1>6, <1>9 DEF VInv, Order, Serials
<1>11. Waits(n) /\ Knows(n)
  BY <1>6, <1>9 DEF VInv, Waits, WaitsFor, Timed, Knows, Rest
<1>12. Hidden'
  <2>1. /\ v.idle # 0 => v.idle > 0
        /\ \A i \in DOMAIN sent : sent[i].serial > 0
        /\ acked.serial > current => acked.serial > 0
    <3>1. \A i \in DOMAIN sent : acked.serial < sent[i].serial
      BY DEF VInv, Order
    <3>2. current \in Nat
      BY EventFacts
    <3> QED BY <1>2, <3>1, <3>2
  <2>2. n.state = v.state
    BY <1>6 DEF Rest
  <2> QED BY <1>1, <1>6, <1>7, <1>9, <2>1, <2>2 DEF VInv, Hidden
<1>13. Anchored'
  BY <1>7 DEF Anchored
<1>14. Covering'
  <2> SUFFICES ASSUME odd = {} PROVE Covering'
    BY <1>1 DEF Covering
  <2>1. Covering /\ v.conf # NoConf
    BY <1>1, <1>9 DEF VInv
  <2>2. n.max = v.max /\ n.full = v.full /\ n.state = v.state
    BY <1>6 DEF Rest
  <2>3. v.max \/ v.full => x = 0
    BY <1>3, <2>1, BoxFacts DEF Covering, Spreads
  <2>4. Spreads(n)
    BY <1>6, <2>2, <2>3 DEF Spreads
  <2>5. Latest'
    BY <1>1, <1>6, <2>1 DEF Covering, Latest
  <2> QED BY <1>1, <1>6, <2>1, <2>2, <2>4, <2>5 DEF Covering
<1> QED BY <1>1, <1>8, <1>10, <1>11, <1>12, <1>13, <1>14 DEF VInv
-----------------------------------------------------------------------------
(* The window is unmapped. *)
LEMMA UnmapStep ==
  ASSUME VInv, Unmap
  PROVE  VInv'
<1> DEFINE c == [v.conf EXCEPT !.timer = FALSE]
           n == [v EXCEPT !.state = "unmapped", !.conf = c, !.idle = 0]
<1>1. /\ v \in Views /\ v.conf \in Confs /\ acked.serial \in Nat /\ v.serial \in Nat
      /\ v.conf.serial \in Nat /\ v.conf.serial <= v.serial
  BY EventFacts
<1>2. /\ v' = n /\ grab' = NoGrab /\ sent' = <<>> /\ current' = acked.serial /\ acked' = acked
      /\ odd' = odd \cup {"remap"} /\ Request
  <2>1. [v EXCEPT !.state = "unmapped", !.conf.timer = FALSE, !.idle = 0] = n
    BY <1>1 DEF Views
  <2> QED BY <2>1 DEF Unmap
<1>3. c \in Confs /\ c.serial = v.conf.serial /\ c.action = v.conf.action
      /\ (v.conf = NoConf => c = NoConf)
  <2>1. c \in Confs /\ c.serial = v.conf.serial /\ c.action = v.conf.action
    BY <1>1, Zenon DEF Confs
  <2>2. NoConf.timer = FALSE
    BY DEF NoConf
  <2>3. ASSUME v.conf.timer = FALSE PROVE c = v.conf
    BY <1>1, <2>3, Zenon DEF Confs
  <2> HIDE DEF NoConf, c
  <2> QED BY <2>1, <2>2, <2>3, Zenon
<1> HIDE DEF c, NoConf
<1>4. /\ n \in Views /\ n.state = "unmapped" /\ n.conf = c /\ n.idle = 0 /\ n.serial = v.serial
      /\ n.max = v.max /\ n.full = v.full /\ n.tile = v.tile /\ n.told = v.told
      /\ n.action = v.action /\ n.want = v.want
  BY <1>1, <1>3, Zenon DEF Views
<1> HIDE DEF n
<1>5. NoGrab \in Grabs /\ ~NoGrab.clean
  BY BoxFacts DEF NoGrab, Grabs
<1> HIDE DEF NoGrab
<1>6. Types'
  <2>1. asked' \in 0..MaxRequests /\ <<>> \in Seq(Events)
    BY <1>2, RequestFacts
  <2> QED BY <1>1, <1>2, <1>4, <1>5, <2>1 DEF VInv, Types
<1>7. Order'
  <2>1. DOMAIN sent' = {} /\ acked.serial <= acked.serial
    BY <1>1, <1>2
  <2> QED BY <1>1, <1>2, <1>3, <1>4, <2>1 DEF VInv, Order, Serials
<1>8. Waits(n) /\ Knows(n)
  BY <1>3, <1>4 DEF VInv, Waits, WaitsFor, Timed, Knows
<1>9. Hidden'
  BY <1>2, <1>4 DEF Hidden
<1>10. Anchored' /\ Covering'
  BY <1>2, <1>5 DEF Anchored, Covering
<1> QED BY <1>2, <1>6, <1>7, <1>8, <1>9, <1>10 DEF VInv

(* The first commit of a window asks the client for a size. *)
LEMMA InitialCommitStep ==
  ASSUME VInv, InitialCommit
  PROVE  VInv'
<1> DEFINE told == [v.told EXCEPT !.w = 0]
           s == [v EXCEPT !.state = "initial", !.told = told]
           n == Scheduled(s)
<1>1. /\ v \in Views /\ v.idle \in Nat /\ v.serial \in Nat /\ v.told \in ToldStates
      /\ v.conf.serial \in Nat /\ v.conf.serial <= v.serial /\ acked.serial \in Nat
      /\ DOMAIN sent = 1..Len(sent)
  BY EventFacts DEF Views
<1>2. v.state = "unmapped" /\ v' = n /\ UNCHANGED <<sent, acked, current, grab, odd, asked>>
  <2>1. [v EXCEPT !.state = "initial", !.told.w = 0] = s
    BY <1>1 DEF Views
  <2> QED BY <2>1 DEF InitialCommit
<1>3. /\ told \in ToldStates /\ told.w = 0 /\ told.max = v.told.max /\ told.full = v.told.full
      /\ told.tile = v.told.tile
  <2>1. 0 \in 0..Width
    BY BoxFacts
  <2> QED BY <1>1, <2>1 DEF ToldStates
<1> HIDE DEF told
<1>4. /\ s \in Views /\ s.state = "initial" /\ s.told = told /\ s.geo = v.geo
      /\ s.max = v.max /\ s.full = v.full /\ s.tile = v.tile /\ s.conf = v.conf
      /\ s.idle = v.idle /\ s.serial = v.serial /\ s.action = v.action /\ s.want = v.want
  BY <1>1, <1>3, ZenonT(40) DEF Views
<1> HIDE DEF s
<1>5. Serials(s)
  BY <1>4 DEF VInv, Order, Serials
<1>6. /\ n \in Views /\ Rest(n, s) /\ Serials(n)
      /\ n.geo = s.geo /\ n.action = s.action /\ n.want = s.want /\ n.conf = s.conf
      /\ n.told = s.told /\ n.idle # 0 /\ n.idle = n.serial
      /\ s.idle = 0 => n.serial = s.serial + 1
  BY <1>4, <1>5, ScheduledFacts
<1> HIDE DEF n
<1>7. /\ n.state = "initial" /\ n.max = v.max /\ n.full = v.full /\ n.tile = v.tile
      /\ n.conf = v.conf /\ n.told = told /\ n.action = v.action /\ n.want = v.want
      /\ n.geo = v.geo
  BY <1>4, <1>6 DEF Rest
<1>8. v.idle = 0 /\ sent = <<>> /\ current = acked.serial /\ grab = NoGrab
  BY <1>2 DEF VInv, Hidden
<1>9. n.idle = v.serial + 1 /\ n.serial = v.serial + 1
  BY <1>4, <1>6, <1>8
<1>10. Types'
  BY <1>2, <1>6, <1>7 DEF VInv, Types
<1>11. Order'
  <2>1. acked.serial <= v.serial /\ DOMAIN sent = {}
    BY <1>8 DEF VInv, Order
  <2>2. acked.serial <= n.serial /\ acked.serial < n.idle
    BY <1>1, <1>9, <2>1
  <2> QED BY <1>1, <1>2, <1>6, <1>8, <2>1, <2>2 DEF Order
<1>12. Waits(n) /\ Knows(n)
  BY <1>3, <1>7 DEF VInv, Waits, WaitsFor, Timed, Knows
<1>13. Hidden'
  <2>1. DOMAIN sent = {} /\ n.idle > n.conf.serial /\ ~(acked.serial > current)
    BY <1>1, <1>7, <1>8, <1>9
  <2> HIDE DEF NoGrab
  <2> QED BY <1>2, <1>7, <1>8, <2>1 DEF Hidden
<1>14. Anchored'
  BY <1>2, <1>8 DEF Anchored, NoGrab
<1>15. Covering'
  <2> SUFFICES ASSUME odd = {} PROVE Covering'
    BY <1>2 DEF Covering
  <2>1. Covering /\ ~v.max /\ ~v.full /\ v.conf = NoConf
    BY <1>2 DEF VInv, Covering
  <2>2. Latest'
    BY <1>2, <1>6 DEF Latest
  <2>3. ToldRight(n.told) /\ Spreads(n)
    BY <1>3, <1>7, <2>1 DEF VInv, Knows, ToldRight, Spreads
  <2> HIDE DEF NoConf
  <2> QED BY <1>2, <1>7, <2>1, <2>2, <2>3 DEF Covering
<1> QED BY <1>2, <1>10, <1>11, <1>12, <1>13, <1>14, <1>15 DEF VInv

(* The window is mapped: what it waited for when it was unmapped is settled,
   and what it asks for now is not. *)
LEMMA MapStep ==
  ASSUME VInv, NEW max \in BOOLEAN, NEW full \in BOOLEAN, NEW x \in Places, Map(max, full, x)
  PROVE  VInv'
<1>1. PICK w \in Answers(acked.told) :
        LET sized == Scheduled([v EXCEPT !.geo.w = w, !.told.w = w])
            request == DoFullscreen(SetMaximized(sized, max), full)
        IN v' = Committed(Mapped(request, x), acked.serial, FALSE)
  BY Zenon DEF Map
<1>2. /\ v.state = "initial" /\ acked.serial > current /\ current' = acked.serial
      /\ odd' = odd \cup (IF "resize" \in v.conf.action THEN {"resize"} ELSE {})
      /\ UNCHANGED <<sent, acked, grab, asked>>
  BY DEF Map, Overlaps
<1>3. /\ v \in Views /\ v.idle \in Nat /\ v.serial \in Nat /\ v.conf.serial \in Nat
      /\ v.idle \in {0, v.serial} /\ v.conf.serial <= v.serial
      /\ acked.serial \in Nat /\ acked.told \in ToldStates /\ current \in Nat
      /\ \A i \in DOMAIN sent : sent[i].serial \in Nat
      /\ v.geo \in Boxes /\ v.told \in ToldStates /\ x \in Int
  BY EventFacts, ViewAssumption DEF Views
<1>4. w \in 0..Width
  BY <1>1, <1>3, BoxFacts DEF Answers, ToldStates
<1> DEFINE g == [v.geo EXCEPT !.w = w]
           told == [v.told EXCEPT !.w = w]
           s == [v EXCEPT !.geo = g, !.told = told]
           sized == Scheduled(s)
           r == DoFullscreen(SetMaximized(sized, max), full)
           m == Mapped(r, x)
           n == Committed(m, acked.serial, FALSE)
<1>5. v' = n
  <2>1. [v EXCEPT !.geo.w = w, !.told.w = w] = s
    BY <1>3 DEF Views
  <2> QED BY <1>1, <2>1
<1>6. g \in Boxes /\ g.w = w /\ told \in ToldStates /\ told.max = v.told.max
      /\ told.full = v.told.full /\ told.tile = v.told.tile
  BY <1>3, <1>4 DEF Boxes, ToldStates
<1> HIDE DEF g, told
<1>7. /\ s \in Views /\ Rest(s, v) /\ s.geo = g /\ s.told = told /\ s.conf = v.conf
      /\ s.idle = v.idle /\ s.serial = v.serial /\ s.action = v.action /\ s.want = v.want
  BY <1>3, <1>6, ZenonT(40) DEF Views, Rest
<1> HIDE DEF s
<1>8. Serials(s)
  BY <1>7 DEF VInv, Order, Serials
<1>9. /\ sized \in Views /\ Rest(sized, s) /\ Serials(sized)
      /\ sized.geo = s.geo /\ sized.action = s.action /\ sized.want = s.want
      /\ sized.conf = s.conf /\ sized.told = s.told /\ sized.idle # 0
      /\ sized.idle = sized.serial
      /\ s.idle # 0 => sized.serial = s.serial
      /\ s.idle = 0 => sized.serial = s.serial + 1
  BY <1>7, <1>8, ScheduledFacts
<1> HIDE DEF sized
<1>10. /\ sized.state = "initial" /\ sized.max = v.max /\ sized.full = v.full
       /\ sized.tile = v.tile /\ sized.conf = v.conf /\ sized.action = {} /\ sized.told = told
  BY <1>2, <1>7, <1>9 DEF Rest, VInv, Types
<1>11. Collects(sized)
  BY <1>6, <1>9, <1>10 DEF VInv, Waits, WaitsFor, Knows, Collects
<1>12. /\ Collects(r) /\ Kept(r, sized) /\ "move" \notin r.action /\ "resize" \notin r.action
       /\ ~sized.max /\ ~sized.full /\ (r.max \/ r.full) => r.action # {} /\ r.want = Full
  BY <1>10, <1>11, RequestedFacts
<1> HIDE DEF r
<1>13. /\ r.state = "initial" /\ r.idle # 0 /\ r.serial = sized.serial /\ r.conf = v.conf
       /\ r.max \in BOOLEAN /\ r.full \in BOOLEAN
  BY <1>9, <1>10, <1>12 DEF Kept, Collects, Views
<1>14. /\ m \in Views /\ m.action = {} /\ m.want = NoBox /\ m.state = "mapped" /\ Serials(m)
       /\ WaitsFor(m) /\ Knows(m) /\ m.idle # 0 /\ m.idle = m.serial /\ m.serial = r.serial
       /\ m.max = r.max /\ m.full = r.full
       /\ m.conf = r.conf \/ (m.conf.serial = m.serial /\ m.conf.timer = TRUE)
       /\ ~r.max /\ ~r.full => ToldRight(m.told)
       /\ (r.max \/ r.full) /\ r.action # {} /\ r.want = Full =>
            /\ ToldRight(m.told) /\ m.conf.serial = m.serial
            /\ r.conf = NoConf => Spreads(m)
  <2>1. IsMapped(m, r)
    BY <1>3, <1>12, <1>13, MappedFacts, Zenon
  <2> HIDE DEF m, NoConf, NoBox, Full
  <2> QED BY <2>1 DEF IsMapped
<1> HIDE DEF m
<1>15. /\ n \in Views /\ Rest(n, m) /\ n.action = m.action /\ n.want = m.want
       /\ n.told = m.told /\ n.idle = m.idle /\ n.serial = m.serial
       /\ acked.serial >= m.conf.serial => n.conf = NoConf
       /\ ~(acked.serial >= m.conf.serial) => n.conf = m.conf
  <2>1. IsCommitted(n, m, acked.serial, FALSE)
    BY <1>3, <1>14, CommittedFacts, Zenon
  <2> HIDE DEF n, NoConf
  <2> QED BY <2>1, Zenon DEF IsCommitted
<1> HIDE DEF n
<1>16. NoConf.serial = 0 /\ NoConf.timer = FALSE
  BY DEF NoConf
<1> HIDE DEF NoConf, Full
<1>17. /\ n.state = "mapped" /\ n.max = r.max /\ n.full = r.full /\ n.idle = n.serial
       /\ n.idle # 0 /\ n.serial = sized.serial /\ n.action = {} /\ n.want = NoBox
       /\ n.serial \in Nat /\ n.idle \in Nat
  <2>1. n.serial \in Nat /\ n.idle \in Nat
    BY <1>15 DEF Views
  <2> QED BY <1>13, <1>14, <1>15, <2>1 DEF Rest
<1>18. /\ acked.serial < n.serial /\ v.serial <= n.serial
       /\ \A k \in Nat : k <= v.serial /\ (v.idle # 0 => k < v.idle) => k < n.serial
  <2>1. sized.serial = (IF v.idle # 0 THEN v.serial ELSE v.serial + 1)
    BY <1>7, <1>9
  <2>2. acked.serial <= v.serial /\ (v.idle # 0 => acked.serial < v.idle)
    BY DEF VInv, Order
  <2>3. \A k \in Nat : k <= v.serial /\ (v.idle # 0 => k < v.idle) => k < n.serial
    BY <1>3, <1>17, <2>1
  <2>4. v.serial <= n.serial
    BY <1>3, <1>17, <2>1
  <2> QED BY <1>3, <2>2, <2>3, <2>4
<1>19. acked.serial > v.conf.serial
  BY <1>2 DEF VInv, Hidden
<1>20. n.conf = NoConf \/ (n.conf = m.conf /\ n.conf.serial = n.serial /\ n.conf.timer = TRUE)
  <2>1. CASE m.conf = r.conf
    <3>1. acked.serial >= m.conf.serial
      BY <1>3, <1>13, <1>19, <2>1
    <3> QED BY <1>15, <3>1
  <2>2. CASE m.conf.serial = m.serial /\ m.conf.timer = TRUE
    BY <1>15, <2>2
  <2> QED BY <1>14, <2>1, <2>2, ZenonT(40)
<1>21. Types'
  <2>1. odd' \subseteq {"resize", "remap"}
    BY <1>2, SMTT(30) DEF VInv, Types
  <2> QED BY <1>2, <1>3, <1>5, <1>15, <1>17, <2>1 DEF VInv, Types
<1>22. Order'
  <2>1. Serials(n)
    <3>1. n.conf.serial \in {0, n.serial}
      BY <1>16, <1>20
    <3> QED BY <1>17, <3>1 DEF Serials
  <2>2. \A i \in DOMAIN sent :
          /\ acked.serial < sent[i].serial /\ sent[i].serial < n.serial
          /\ \A j \in DOMAIN sent : i < j => sent[i].serial < sent[j].serial
    <3>1. ASSUME NEW i \in DOMAIN sent PROVE sent[i].serial < n.serial
      <4>1. sent[i].serial <= v.serial /\ (v.idle # 0 => sent[i].serial < v.idle)
        BY DEF VInv, Order
      <4> QED BY <1>3, <1>18, <4>1
    <3> QED BY <3>1 DEF VInv, Order
  <2>3. \A i \in DOMAIN sent : sent[i].serial <= n.serial
    BY <1>3, <1>17, <2>2
  <2>4. acked.serial <= acked.serial /\ acked.serial <= n.serial
    BY <1>3, <1>17, <1>18
  <2> QED BY <1>2, <1>5, <1>17, <1>18, <2>1, <2>2, <2>3, <2>4 DEF Order
<1>23. Waits(n)
  <2>1. WaitsFor(n)
    BY <1>14, <1>16, <1>20 DEF WaitsFor
  <2>2. Timed(n)
    BY <1>16, <1>17, <1>20 DEF Timed
  <2> QED BY <2>1, <2>2 DEF Waits
<1>24. Knows(n)
  BY <1>14, <1>15 DEF Knows, Rest
<1>25. Hidden'
  BY <1>5, <1>17 DEF Hidden
<1>26. Anchored'
  BY <1>2, SMTT(30) DEF VInv, Hidden, Anchored, NoGrab
<1>27. Covering'
  <2> SUFFICES ASSUME odd' = {} PROVE Covering'
    BY DEF Covering
  <2>1. odd = {}
    BY <1>2
  <2>2. /\ ToldRight(acked.told) /\ \A i \in DOMAIN sent : ToldRight(sent[i].told)
        /\ ~v.max /\ ~v.full /\ v.conf = NoConf /\ ~acked.told.max /\ ~acked.told.full
    BY <1>2, <2>1 DEF VInv, Covering
  <2>3. r.max \/ r.full => r.action # {} /\ r.want = Full
    BY <1>10, <1>12, <2>2
  <2>4. ToldRight(n.told)
    BY <1>14, <1>15, <2>3
  <2>5. Spreads(n)
    <3> SUFFICES ASSUME r.max \/ r.full PROVE Spreads(n)
      BY <1>17 DEF Spreads
    <3>1. m.conf.serial = m.serial /\ Spreads(m)
      BY <1>13, <1>14, <2>2, <2>3
    <3>2. ~(acked.serial >= m.conf.serial)
      <4>1. m.conf.serial = n.serial /\ acked.serial < n.serial
        BY <1>15, <1>18, <3>1, SMTT(30)
      <4> QED BY <1>3, <1>17, <4>1
    <3>3. n.conf = m.conf /\ m.conf # NoConf
      BY <1>14, <1>15, <1>16, <3>1, <3>2
    <3> QED BY <1>14, <1>17, <3>1, <3>3 DEF Spreads
  <2>6. Latest'
    BY <1>5, <1>17 DEF Latest
  <2> QED BY <1>2, <1>5, <1>17, <2>2, <2>4, <2>5, <2>6, SMTT(30) DEF Covering
<1> QED BY <1>5, <1>21, <1>22, <1>23, <1>24, <1>25, <1>26, <1>27, SMTT(30) DEF VInv
-----------------------------------------------------------------------------
(* A new window is unmapped, or mapped and at rest. *)
LEMMA ViewInit ==
  ASSUME Init
  PROVE  VInv
<1>1. PICK geo \in {NoBox} \cup [x : Places, w : Widths] :
        LET told == [w |-> geo.w, max |-> FALSE, full |-> FALSE, tile |-> FALSE]
        IN /\ v = [geo |-> geo, saved |-> NoBox,
                   state |-> IF geo = NoBox THEN "unmapped" ELSE "mapped",
                   max |-> FALSE, full |-> FALSE, tile |-> "none",
                   action |-> {}, want |-> NoBox, conf |-> NoConf,
                   told |-> told, idle |-> 0, serial |-> 0]
           /\ sent = <<>> /\ acked = Event(0, told) /\ current = 0
           /\ grab = NoGrab /\ odd = {} /\ asked = 0
  BY Zenon DEF Init
<1> DEFINE told == [w |-> geo.w, max |-> FALSE, full |-> FALSE, tile |-> FALSE]
           state == IF geo = NoBox THEN "unmapped" ELSE "mapped"
<1>2. geo \in Boxes /\ geo.w \in 0..Width
  <2>1. CASE geo = NoBox
    BY <2>1, BoxFacts
  <2>2. CASE geo \in [x : Places, w : Widths]
    <3>1. geo.x \in Places /\ geo.w \in Widths
      BY <2>2
    <3>2. geo.x \in Int
      <4>1. \A p \in Places : p \in Int
        BY ViewAssumption
      <4> QED BY <3>1, <4>1
    <3>3. geo.w \in 0..Width
      BY <3>1, BoxFacts
    <3> QED BY <2>2, <3>2, <3>3 DEF Boxes
  <2> QED BY <2>1, <2>2
<1>3. told \in ToldStates /\ ~told.max /\ ~told.full /\ told.tile = FALSE
  BY <1>2 DEF ToldStates
<1>4. state \in {"unmapped", "mapped"}
  OBVIOUS
<1>5. /\ sent = <<>> /\ acked = Event(0, told) /\ current = 0
      /\ grab = NoGrab /\ odd = {} /\ asked = 0
  BY <1>1, SMTT(30)
<1>6. v = [geo |-> geo, saved |-> NoBox, state |-> state,
           max |-> FALSE, full |-> FALSE, tile |-> "none",
           action |-> {}, want |-> NoBox, conf |-> NoConf,
           told |-> told, idle |-> 0, serial |-> 0]
  BY <1>1
<1> HIDE DEF told, state
<1>7. acked \in Events /\ acked.serial = 0 /\ acked.told = told
  BY <1>3, <1>5 DEF Event, Events
<1>8. NoConf \in Confs /\ NoConf.serial = 0 /\ NoConf.timer = FALSE /\ NoBox \in Boxes
      /\ {} \in SUBSET (SizeActions \cup {"move"}) /\ "none" \in Tiles
  BY BoxFacts, ViewAssumption DEF NoConf, Confs
<1>9. NoGrab \in Grabs /\ ~NoGrab.clean
  BY BoxFacts DEF NoGrab, Grabs
<1> HIDE DEF NoConf, NoBox, NoGrab
<1>10. /\ v \in Views /\ v.action = {} /\ v.want = NoBox /\ v.conf = NoConf /\ v.told = told
       /\ v.idle = 0 /\ v.serial = 0 /\ ~v.max /\ ~v.full /\ v.tile = "none"
       /\ v.max = FALSE /\ v.full = FALSE /\ v.state \in {"unmapped", "mapped"}
  BY <1>2, <1>3, <1>4, <1>6, <1>8 DEF Views
<1>11. DOMAIN sent = {} /\ sent \in Seq(Events) /\ asked \in 0..MaxRequests
  BY <1>5, ViewAssumption
<1>12. Types
  BY <1>5, <1>7, <1>9, <1>10, <1>11 DEF Types
<1>13. Order
  BY <1>5, <1>7, <1>8, <1>10, <1>11 DEF Order, Serials
<1>14. Waits(v)
  BY <1>8, <1>10 DEF Waits, WaitsFor, Timed
<1>15. Knows(v)
  <2>1. told.max = FALSE /\ told.full = FALSE /\ told.tile = FALSE
    BY DEF told
  <2>2. (v.tile # "none") = FALSE
    BY <1>10
  <2> QED BY <1>10, <2>1, <2>2, Zenon DEF Knows
<1>16. Hidden
  BY <1>5, <1>7, <1>10 DEF Hidden
<1>17. Anchored
  BY <1>5, <1>9 DEF Anchored
<1>18. Covering
  <2>1. Latest
    BY <1>5, <1>7, <1>10 DEF Latest
  <2> QED BY <1>3, <1>7, <1>10, <1>11, <2>1 DEF Covering, ToldRight, Spreads
<1> QED BY <1>12, <1>13, <1>14, <1>15, <1>16, <1>17, <1>18, SMTT(30) DEF VInv

(* Every step of the window, its client and the user keeps the invariant. *)
LEMMA ViewStep ==
  ASSUME VInv, [Next]_vars
  PROVE  VInv'
<1>1. CASE UNCHANGED vars
  <2>1. /\ v' = v /\ sent' = sent /\ acked' = acked /\ current' = current /\ grab' = grab
        /\ odd' = odd /\ asked' = asked
    BY <1>1 DEF vars
  <2> QED BY <2>1, ZenonT(40) DEF VInv, Types, Order, Hidden, Anchored, Covering, Latest, Quiet
<1>2. CASE Next
  BY <1>2, SendStep, AckStep, CommitStep, TimeoutStep, ActivateStep, MaximizeStep,
     FullscreenStep, EndResizeStep, TileStep, DragStep, BeginResizeStep, MotionStep,
     UnmapStep, InitialCommitStep, MapStep DEF Next
<1> QED BY <1>1, <1>2, SMTT(30)
-----------------------------------------------------------------------------
(* The invariant of the configuration of windows: what the serials are, what
   is waited for, and what is told. *)
THEOREM ViewInvariant == Spec => []VInv
<1>1. Init => VInv
  BY ViewInit
<1>2. VInv /\ [Next]_vars => VInv'
  BY ViewStep
<1> QED BY <1>1, <1>2, PTL DEF Spec

(* A mapped window waits only for a change of size, and never without the timer
   that ends the wait, whatever overlapped and whenever it was unmapped
   (xdg_view_configure, xdg_view_handle_commit, view_handle_configure_timeout). *)
THEOREM NeverWaitsForever == Spec => []WaitsWithTimer
<1>1. VInv => WaitsWithTimer
  <2> SUFFICES ASSUME VInv PROVE WaitsWithTimer
    OBVIOUS
  <2>1. TypeOK
    <3>1. v \in [geo : Boxes, saved : Boxes, state : {"mapped", "unmapped", "initial"},
                 max : BOOLEAN, full : BOOLEAN, tile : Tiles,
                 action : {{}}, want : {NoBox}, conf : Confs,
                 told : ToldStates, idle : Nat, serial : Nat]
      BY DEF VInv, Types, Views
    <3>2. \A i \in DOMAIN sent : sent[i] \in Events
      BY EventFacts
    <3> QED BY <3>1, <3>2 DEF VInv, Types, TypeOK, Confs, Events, Grabs
  <2>2. NoConf.action = {}
    BY DEF NoConf
  <2> QED BY <2>1, <2>2 DEF VInv, Waits, WaitsFor, Timed, WaitsWithTimer
<1> QED BY <1>1, ViewInvariant, PTL

(* The client is told the states the compositor acts on, whatever was merged
   into one event or asked for before the window was mapped. *)
THEOREM ClientIsTold == Spec => []ClientKnowsState
<1>1. VInv => ClientKnowsState
  BY DEF VInv, Knows, ClientKnowsState
<1> QED BY <1>1, ViewInvariant, PTL

(* The edge that is not dragged stays, whichever size the client has got to:
   all that a clean grab waits for is its own last resize. *)
THEOREM EdgeIsAnchored == Spec => []RightEdgeStays
<1>1. VInv => RightEdgeStays
  BY DEF VInv, Anchored, Right, RightEdgeStays
<1> QED BY <1>1, ViewInvariant, PTL

(* A maximized or fullscreen window covers the output once its client has
   answered: its last event told it the output's width, and its place is set
   when the wait ends, by the client or by the timeout. *)
THEOREM SettledCovers == Spec => []CoversWhenSettled
<1>1. VInv => CoversWhenSettled
  <2> SUFFICES ASSUME VInv, odd = {}, v.state = "mapped", Quiet, v.max \/ v.full
               PROVE  v.geo = Full
    BY DEF CoversWhenSettled, Covers
  <2>1. Covering /\ v.conf = NoConf /\ v.idle = 0 /\ sent = <<>> /\ current = acked.serial
    BY DEF VInv, Quiet
  <2> HIDE DEF NoConf
  <2>2. acked.told = v.told
    BY <2>1 DEF Covering, Latest
  <2>3. acked.told.max \/ acked.told.full
    BY <2>2 DEF VInv, Knows
  <2>4. v.geo.w = Width /\ v.geo.x = 0
    BY <2>1, <2>3 DEF Covering, Spreads
  <2>5. v.geo \in Boxes
    BY DEF VInv, Types, Views
  <2> QED BY <2>4, <2>5 DEF Boxes, Full, Box
<1> QED BY <1>1, ViewInvariant, PTL
=============================================================================
