----------------------------- MODULE LinksProof -----------------------------
(***************************************************************************)
(* What travels between shards and between processes.                      *)
(*                                                                         *)
(* Envelopes between any number of shards, with any channel capacity,      *)
(* drain budget and faults: NeverLost is an invariant.  The channels, the  *)
(* overflow lanes and the workers' hands are boxes.  Every channel         *)
(* operation takes the first envelope out of one box and puts at most one, *)
(* of the same id, at the end of another; a handler's step fills an empty  *)
(* hand with fresh ids, and an exit empties boxes.  Found says where the   *)
(* accepted envelopes are; it and Apart together are inductive with        *)
(* TypeOK.                                                                 *)
(*                                                                         *)
(* One RPC stream, with any number of requests and any configuration of    *)
(* its ends: RequestsSettle and StreamIntact are invariants.  The proof    *)
(* follows the units that are under way, Transit(s), from the write in     *)
(* flight of s to the buffer of its peer: reads, writes and their tails    *)
(* leave it as it is, a write that begins adds one whole frame at its end, *)
(* a frame that is taken leaves its head, and a close cuts it.  Under way  *)
(* to the server are only requests it may still be given (Kept), none of   *)
(* them twice and none of them queued as well, so that a request is routed *)
(* at most once; under way to the client a reply is of a routed request.   *)
(***************************************************************************)
EXTENDS ShardTraffic, RpcLink, FiniteSetTheorems, SequenceTheorems, TLAPS

-----------------------------------------------------------------------------
(* Sequences of envelopes.                                                 *)

IdsIn(q) == {q[i].id : i \in DOMAIN q}
Distinct(q) == \A i, j \in DOMAIN q : q[i].id = q[j].id => i = j

\* An envelope is put at the end.
LEMMA Appended ==
    ASSUME NEW q \in Seq(Envelope), NEW e \in Envelope, Distinct(q), e.id \notin IdsIn(q)
    PROVE  /\ Append(q, e) \in Seq(Envelope) /\ Len(Append(q, e)) = Len(q) + 1 /\ Len(q) \in Nat
           /\ ToSet(Append(q, e)) = ToSet(q) \cup {e}
           /\ Distinct(Append(q, e)) /\ IdsIn(Append(q, e)) = IdsIn(q) \cup {e.id}
  <1>1. Append(q, e) \in Seq(Envelope) /\ Len(Append(q, e)) = Len(q) + 1 /\ Len(q) \in Nat
    OBVIOUS
  <1>2. /\ DOMAIN q = 1 .. Len(q) /\ DOMAIN Append(q, e) = 1 .. Len(q) + 1
        /\ \A i \in 1 .. Len(q) : Append(q, e)[i] = q[i]
        /\ Append(q, e)[Len(q) + 1] = e
    OBVIOUS
  <1>3. ToSet(Append(q, e)) = ToSet(q) \cup {e}
    BY <1>1, <1>2 DEF ToSet
  <1>4. \A i \in 1 .. Len(q) : q[i].id # e.id
    BY <1>2 DEF IdsIn
  <1>5. Distinct(Append(q, e))
    BY <1>1, <1>2, <1>4 DEF Distinct
  <1>6. IdsIn(Append(q, e)) = IdsIn(q) \cup {e.id}
    <2>1. \A i \in 1 .. Len(q) + 1 : i \in 1 .. Len(q) \/ i = Len(q) + 1
      BY <1>1
    <2>2. Len(q) + 1 \in 1 .. Len(q) + 1 /\ 1 .. Len(q) \subseteq 1 .. Len(q) + 1
      BY <1>1
    <2>3. IdsIn(Append(q, e)) \subseteq IdsIn(q) \cup {e.id}
      BY <1>2, <2>1 DEF IdsIn
    <2>4. IdsIn(q) \cup {e.id} \subseteq IdsIn(Append(q, e))
      BY <1>2, <2>2 DEF IdsIn
    <2>5. QED
      BY <2>3, <2>4
  <1>7. QED
    BY <1>1, <1>3, <1>5, <1>6

\* The first one is taken.
LEMMA Shortened ==
    ASSUME NEW q \in Seq(Envelope), q # <<>>, Distinct(q)
    PROVE  /\ Tail(q) \in Seq(Envelope) /\ Len(Tail(q)) = Len(q) - 1 /\ Len(q) \in Nat /\ Len(q) > 0
           /\ Head(q) \in Envelope /\ Head(q) \in ToSet(q) /\ Head(q).id \in IdsIn(q)
           /\ ToSet(Tail(q)) \subseteq ToSet(q)
           /\ Distinct(Tail(q)) /\ IdsIn(Tail(q)) = IdsIn(q) \ {Head(q).id}
  <1>1. Tail(q) \in Seq(Envelope) /\ Len(Tail(q)) = Len(q) - 1 /\ Len(q) \in Nat /\ Len(q) > 0
    OBVIOUS
  <1>2. /\ DOMAIN q = 1 .. Len(q) /\ DOMAIN Tail(q) = 1 .. Len(q) - 1
        /\ \A i \in 1 .. Len(q) - 1 : Tail(q)[i] = q[i + 1]
        /\ Head(q) = q[1] /\ Head(q) \in Envelope
    BY <1>1
  <1>3. /\ \A i \in 1 .. Len(q) - 1 : i + 1 \in 1 .. Len(q) /\ i + 1 # 1
        /\ 1 \in 1 .. Len(q)
        /\ \A i \in 1 .. Len(q) : i = 1 \/ (i - 1 \in 1 .. Len(q) - 1 /\ (i - 1) + 1 = i)
    BY <1>1
  <1>4. ToSet(Tail(q)) \subseteq ToSet(q) /\ Head(q) \in ToSet(q)
    BY <1>2, <1>3 DEF ToSet
  <1>5. Distinct(Tail(q))
    BY <1>1, <1>2, <1>3 DEF Distinct
  <1>6. Head(q).id \in IdsIn(q)
    BY <1>2, <1>3 DEF IdsIn
  <1>7. IdsIn(Tail(q)) \subseteq IdsIn(q) \ {Head(q).id}
    <2>1. \A i \in 1 .. Len(q) - 1 : q[i + 1].id # q[1].id
      BY <1>2, <1>3 DEF Distinct
    <2>2. QED
      BY <1>2, <1>3, <2>1 DEF IdsIn
  <1>8. IdsIn(q) \ {Head(q).id} \subseteq IdsIn(Tail(q))
    <2>1. ASSUME NEW i \in 1 .. Len(q), q[i].id # Head(q).id
          PROVE  q[i].id \in IdsIn(Tail(q))
      <3>1. i - 1 \in 1 .. Len(q) - 1 /\ (i - 1) + 1 = i
        BY <1>2, <1>3, <2>1
      <3>2. Tail(q)[i - 1] = q[i]
        BY <1>2, <3>1
      <3>3. QED
        BY <1>2, <3>1, <3>2 DEF IdsIn
    <2>2. QED
      BY <1>2, <2>1 DEF IdsIn
  <1>9. QED
    BY <1>1, <1>2, <1>4, <1>5, <1>6, <1>7, <1>8

\* Nothing is in an empty sequence.
LEMMA Nothing ==
    <<>> \in Seq(Envelope) /\ Len(<<>>) = 0 /\ ToSet(<<>>) = {} /\ IdsIn(<<>>) = {} /\ Distinct(<<>>)
  BY DEF ToSet, IdsIn, Distinct

-----------------------------------------------------------------------------
(* Boxes.                                                                  *)

IdsAt(p) == IdsIn(Contents(p))

\* Apart, by sets of ids.
Split ==
    /\ \A p \in Boxes : Distinct(Contents(p))
    /\ \A p, q \in Boxes : p # q => IdsAt(p) \cap IdsAt(q) = {}

\* An accepted envelope is in a channel or an overflow lane.
Found == \A id \in accepted : \E p \in Places : id \in IdsAt(p)

\* Which boxes there are.
LEMMA BoxKinds ==
    /\ \A lane \in Lanes, a, b \in Shards : <<lane, a, b>> \in Places
    /\ \A s \in Shards : <<"overflow", s, s>> \in Places /\ <<"hand", s, s>> \in Boxes \ Places
    /\ Places \subseteq Boxes
    /\ \A p \in Boxes : \/ \E lane \in Lanes, a, b \in Shards : p = <<lane, a, b>>
                        \/ \E s \in Shards : p = <<"overflow", s, s>>
                        \/ \E s \in Shards : p = <<"hand", s, s>>
    /\ \A p \in Places : \/ \E lane \in Lanes, a, b \in Shards : p = <<lane, a, b>>
                         \/ \E s \in Shards : p = <<"overflow", s, s>>
  BY DEF Places, Boxes, Lanes

\* What is in them.
LEMMA BoxContents ==
    /\ \A lane \in Lanes, a, b \in Shards : Contents(<<lane, a, b>>) = queue[lane][a][b]
    /\ \A s \in Shards : Contents(<<"overflow", s, s>>) = overflow[s] /\ Contents(<<"hand", s, s>>) = hand[s]
  BY DEF Contents, Lanes

\* The same after a step.
LEMMA BoxContentsNext ==
    /\ \A lane \in Lanes, a, b \in Shards : Contents(<<lane, a, b>>)' = queue'[lane][a][b]
    /\ \A s \in Shards : Contents(<<"overflow", s, s>>)' = overflow'[s] /\ Contents(<<"hand", s, s>>)' = hand'[s]
  BY DEF Contents, Lanes

\* The boxes hold envelopes.
BoxTypes ==
    /\ queue \in [Lanes -> [Shards -> [Shards -> Seq(Envelope)]]]
    /\ overflow \in [Shards -> Seq(Envelope)] /\ hand \in [Shards -> Seq(Envelope)]

\* A box holds a sequence of envelopes.
LEMMA BoxesTyped ==
    ASSUME BoxTypes
    PROVE  /\ \A p \in Boxes : Contents(p) \in Seq(Envelope)
           /\ \A lane \in Lanes, a, b \in Shards : queue[lane][a][b] \in Seq(Envelope)
  <1>1. /\ \A lane \in Lanes, a, b \in Shards : queue[lane][a][b] \in Seq(Envelope)
        /\ \A s \in Shards : overflow[s] \in Seq(Envelope) /\ hand[s] \in Seq(Envelope)
    BY DEF BoxTypes
  <1>2. ASSUME NEW p \in Boxes PROVE Contents(p) \in Seq(Envelope)
    <2>1. CASE \E lane \in Lanes, a, b \in Shards : p = <<lane, a, b>>
      <3>1. PICK lane \in Lanes, a \in Shards, b \in Shards : p = <<lane, a, b>>
        BY <2>1
      <3>2. QED
        BY <1>1, <3>1, BoxContents
    <2>2. CASE \E s \in Shards : p = <<"overflow", s, s>>
      BY <1>1, <2>2, BoxContents
    <2>3. CASE \E s \in Shards : p = <<"hand", s, s>>
      BY <1>1, <2>3, BoxContents
    <2>4. QED
      BY <2>1, <2>2, <2>3, BoxKinds
  <1>3. QED
    BY <1>1, <1>2

\* The first envelope of one box is taken, and one of its id may be put at the
\* end of another.
LEMMA MoveKeeps ==
    ASSUME BoxTypes, Split, NEW from \in Boxes, NEW to \in Boxes, from # to, Contents(from) # <<>>,
           NEW e \in Envelope, e.id = Head(Contents(from)).id,
           \A p \in Boxes \ {from, to} : Contents(p)' = Contents(p),
           Contents(from)' = Tail(Contents(from)),
           Contents(to)' = Contents(to) \/ Contents(to)' = Append(Contents(to), e)
    PROVE  /\ Split'
           /\ \A p \in Boxes : IdsAt(p) \ {e.id} \subseteq IdsAt(p)'
           /\ Contents(to)' = Append(Contents(to), e) => e.id \in IdsAt(to)'
  <1>1. \A p \in Boxes : Contents(p) \in Seq(Envelope) /\ Distinct(Contents(p))
    BY BoxesTyped DEF Split
  <1>2. \A p, q \in Boxes : p # q => IdsAt(p) \cap IdsAt(q) = {}
    BY DEF Split
  <1>3. /\ Distinct(Contents(from)') /\ IdsAt(from)' = IdsAt(from) \ {e.id} /\ e.id \in IdsAt(from)
    BY <1>1, Shortened DEF IdsAt
  <1>4. e.id \notin IdsAt(to)
    BY <1>2, <1>3
  <1>5. Contents(to)' = Contents(to) => Distinct(Contents(to)') /\ IdsAt(to)' = IdsAt(to)
    BY <1>1 DEF IdsAt
  <1>6. Contents(to)' = Append(Contents(to), e) =>
           Distinct(Contents(to)') /\ IdsAt(to)' = IdsAt(to) \cup {e.id}
    BY <1>1, <1>4, Appended DEF IdsAt
  <1>7. \A p \in Boxes \ {from, to} : Distinct(Contents(p)') /\ IdsAt(p)' = IdsAt(p)
    BY <1>1 DEF IdsAt
  <1>8. \A p \in Boxes : Distinct(Contents(p)')
    BY <1>3, <1>5, <1>6, <1>7
  <1>9. \A p \in Boxes : /\ p # to => IdsAt(p)' \subseteq IdsAt(p)
                         /\ p = to => IdsAt(p)' \subseteq IdsAt(p) \cup {e.id}
                         /\ p # to => e.id \notin IdsAt(p)'
    BY <1>2, <1>3, <1>5, <1>6, <1>7
  <1>10. \A p, q \in Boxes : p # q => IdsAt(p)' \cap IdsAt(q)' = {}
    BY <1>2, <1>9
  <1>11. Split'
    BY <1>8, <1>10 DEF Split
  <1>12. QED
    BY <1>3, <1>5, <1>6, <1>7, <1>11

\* A hand that was empty is filled with ids that are in no box.
LEMMA FillKeeps ==
    ASSUME Split, NEW box \in Boxes, Contents(box) = <<>>,
           \A p \in Boxes \ {box} : Contents(p)' = Contents(p),
           Distinct(Contents(box)'), \A p \in Boxes : IdsIn(Contents(box)') \cap IdsAt(p) = {}
    PROVE  Split' /\ \A p \in Boxes : IdsAt(p) \subseteq IdsAt(p)'
  <1>1. \A p \in Boxes \ {box} : IdsAt(p)' = IdsAt(p) /\ Distinct(Contents(p)')
    BY DEF IdsAt, Split
  <1>2. IdsAt(box) = {} /\ IdsAt(box)' = IdsIn(Contents(box)')
    BY Nothing DEF IdsAt
  <1>3. \A p, q \in Boxes : p # q => IdsAt(p)' \cap IdsAt(q)' = {}
    BY <1>1, <1>2 DEF Split
  <1>4. QED
    BY <1>1, <1>2, <1>3 DEF Split

\* Boxes are emptied.
LEMMA EmptyKeeps ==
    ASSUME Split, \A p \in Boxes : Contents(p)' = Contents(p) \/ Contents(p)' = <<>>
    PROVE  Split'
  <1>1. \A p \in Boxes : Distinct(Contents(p)') /\ IdsAt(p)' \subseteq IdsAt(p)
    BY Nothing DEF IdsAt, Split
  <1>2. QED
    BY <1>1 DEF Split

-----------------------------------------------------------------------------
(* What the steps do to the boxes.                                         *)

Channels == [Lanes -> [Shards -> [Shards -> Seq(Envelope)]]]

\* What belongs in a channel or an overflow lane is in it.
Fits ==
    /\ \A lane \in Lanes, s, t \in Shards :
         /\ Len(queue[lane][s][t]) <= Cap
         /\ \A e \in ToSet(queue[lane][s][t]) : Lane(e) = lane /\ e.to = t
    /\ \A s \in Shards : \A e \in ToSet(overflow[s]) : Lane(e) = "terminal"

\* The worker's loop, and the rest.
LoopTypes ==
    /\ state \in [Shards -> {"running", "failed", "gone"}]
    /\ pc \in [Shards -> {"overflow", "first", "second", "step"}]
    /\ lead \in [Shards -> BOOLEAN] /\ left \in [Shards -> 0 .. Budget]
    /\ at \in [Shards -> [offset : Nat, last : Nat \cup {-1}]]
    /\ start \in [Shards -> [Lanes -> Nat]]
    /\ \A s \in Shards, lane \in Lanes : start[s][lane] = 0 \/ start[s][lane] < Receivers(s)

HostTypes == accepted \subseteq Ids /\ command \in [Commanded -> BOOLEAN] /\ hushed \in BOOLEAN

\* TypeOK, by parts.
LEMMA TypeParts == TypeOK <=> BoxTypes /\ Fits /\ LoopTypes /\ HostTypes
  BY DEF TypeOK, BoxTypes, Fits, LoopTypes, HostTypes, InLane

\* The same after a step.
LEMMA TypePartsNext == BoxTypes' /\ Fits' /\ LoopTypes' /\ HostTypes' => TypeOK'
  BY DEF TypeOK, BoxTypes, Fits, LoopTypes, HostTypes, InLane

\* Every envelope has a lane and a destination.
LEMMA EnvelopeFields ==
    \A e \in Envelope : Lane(e) \in Lanes /\ e.to \in Shards /\ e.from \in Shards /\ e.id \in Ids
  BY DEF Envelope, Lane, Lanes

\* One channel of the table is replaced.
Replaced(x, y, z, v) == queue' = [queue EXCEPT ![x][y][z] = v]

\* The others are as they were.
LEMMA OneChannel ==
    ASSUME BoxTypes, NEW x \in Lanes, NEW y \in Shards, NEW z \in Shards, NEW v \in Seq(Envelope),
           Replaced(x, y, z, v)
    PROVE  /\ queue' \in Channels
           /\ \A lane \in Lanes, a \in Shards, b \in Shards :
                 queue'[lane][a][b] = IF lane = x /\ a = y /\ b = z THEN v ELSE queue[lane][a][b]
  <1> DEFINE V == Seq(Envelope)
             row == [queue[x][y] EXCEPT ![z] = v]
             plane == [queue[x] EXCEPT ![y] = row]
  <1>1. queue' = [queue EXCEPT ![x] = plane]
    BY DEF Replaced
  <1>0. queue \in [Lanes -> [Shards -> [Shards -> V]]] /\ v \in V
    BY DEF BoxTypes
  <1> HIDE DEF V
  <1>2. row \in [Shards -> V] /\ \A c \in Shards : row[c] = IF c = z THEN v ELSE queue[x][y][c]
    BY <1>0
  <1> HIDE DEF row
  <1>3. plane \in [Shards -> [Shards -> V]] /\ \A b \in Shards : plane[b] = IF b = y THEN row ELSE queue[x][b]
    BY <1>0, <1>2
  <1> HIDE DEF plane
  <1>4. /\ queue' \in [Lanes -> [Shards -> [Shards -> V]]]
        /\ \A a \in Lanes : queue'[a] = IF a = x THEN plane ELSE queue[a]
    BY <1>0, <1>1, <1>3
  <1>5. \A lane \in Lanes, a \in Shards, b \in Shards :
           queue'[lane][a][b] = IF lane = x /\ a = y /\ b = z THEN v ELSE queue[lane][a][b]
    BY <1>2, <1>3, <1>4
  <1>6. QED
    BY <1>4, <1>5 DEF V, Channels

\* The same, by boxes.
LEMMA ChannelBox ==
    ASSUME BoxTypes, NEW x \in Lanes, NEW y \in Shards, NEW z \in Shards, NEW v \in Seq(Envelope),
           Replaced(x, y, z, v)
    PROVE  /\ queue' \in Channels /\ Contents(<<x, y, z>>)' = v
           /\ \A lane \in Lanes, a \in Shards, b \in Shards :
                 <<lane, a, b>> # <<x, y, z>> => Contents(<<lane, a, b>>)' = Contents(<<lane, a, b>>)
  <1>1. /\ queue' \in Channels
        /\ \A lane \in Lanes, a \in Shards, b \in Shards :
              queue'[lane][a][b] = IF lane = x /\ a = y /\ b = z THEN v ELSE queue[lane][a][b]
    BY OneChannel
  <1>2. /\ \A lane \in Lanes, a \in Shards, b \in Shards : Contents(<<lane, a, b>>) = queue[lane][a][b]
        /\ \A lane \in Lanes, a \in Shards, b \in Shards : Contents(<<lane, a, b>>)' = queue'[lane][a][b]
    BY BoxContents, BoxContentsNext
  <1>3. queue'[x][y][z] = v
    BY <1>1
  <1>4. ASSUME NEW lane \in Lanes, NEW a \in Shards, NEW b \in Shards, <<lane, a, b>> # <<x, y, z>>
        PROVE  queue'[lane][a][b] = queue[lane][a][b]
    BY <1>1, <1>4
  <1>5. QED
    BY <1>1, <1>2, <1>3, <1>4

\* Boxes that are not touched, by kind.
LEMMA SameChannels ==
    ASSUME queue' = queue
    PROVE  \A lane \in Lanes, a \in Shards, b \in Shards :
              Contents(<<lane, a, b>>)' = Contents(<<lane, a, b>>)
  BY BoxContents, BoxContentsNext, ZenonT(30)

\* The overflow lanes.
LEMMA SameOverflow ==
    ASSUME overflow' = overflow
    PROVE  \A s \in Shards : Contents(<<"overflow", s, s>>)' = Contents(<<"overflow", s, s>>)
  BY BoxContents, BoxContentsNext

\* The hands.
LEMMA SameHands ==
    ASSUME hand' = hand
    PROVE  \A s \in Shards : Contents(<<"hand", s, s>>)' = Contents(<<"hand", s, s>>)
  BY BoxContents, BoxContentsNext

\* One overflow lane, or one hand, is replaced.
LEMMA OverflowBox ==
    ASSUME BoxTypes, NEW s \in Shards, NEW v \in Seq(Envelope), overflow' = [overflow EXCEPT ![s] = v]
    PROVE  /\ overflow' \in [Shards -> Seq(Envelope)] /\ Contents(<<"overflow", s, s>>)' = v
           /\ \A r \in Shards \ {s} : Contents(<<"overflow", r, r>>)' = Contents(<<"overflow", r, r>>)
  <1>1. /\ overflow' \in [Shards -> Seq(Envelope)] /\ overflow'[s] = v
        /\ \A r \in Shards \ {s} : overflow'[r] = overflow[r]
    BY DEF BoxTypes
  <1>2. QED
    BY <1>1, BoxContents, BoxContentsNext

\* The same for a hand.
LEMMA HandBox ==
    ASSUME BoxTypes, NEW s \in Shards, NEW v \in Seq(Envelope), hand' = [hand EXCEPT ![s] = v]
    PROVE  /\ hand' \in [Shards -> Seq(Envelope)] /\ Contents(<<"hand", s, s>>)' = v
           /\ \A r \in Shards \ {s} : Contents(<<"hand", r, r>>)' = Contents(<<"hand", r, r>>)
  <1>1. /\ hand' \in [Shards -> Seq(Envelope)] /\ hand'[s] = v
        /\ \A r \in Shards \ {s} : hand'[r] = hand[r]
    BY DEF BoxTypes
  <1>2. QED
    BY <1>1, BoxContents, BoxContentsNext

\* All boxes, from the three kinds.
LEMMA AllBoxes ==
    ASSUME NEW S,
           \A lane \in Lanes, a \in Shards, b \in Shards :
              <<lane, a, b>> \notin S => Contents(<<lane, a, b>>)' = Contents(<<lane, a, b>>),
           \A r \in Shards : <<"overflow", r, r>> \notin S =>
              Contents(<<"overflow", r, r>>)' = Contents(<<"overflow", r, r>>),
           \A r \in Shards : <<"hand", r, r>> \notin S =>
              Contents(<<"hand", r, r>>)' = Contents(<<"hand", r, r>>)
    PROVE  \A p \in Boxes \ S : Contents(p)' = Contents(p)
  <1>1. ASSUME NEW p \in Boxes, p \notin S PROVE Contents(p)' = Contents(p)
    <2>1. CASE \E lane \in Lanes, a, b \in Shards : p = <<lane, a, b>>
      <3>1. PICK lane \in Lanes, a \in Shards, b \in Shards : p = <<lane, a, b>>
        BY <2>1
      <3>2. QED
        BY <1>1, <3>1
    <2>2. CASE \E s \in Shards : p = <<"overflow", s, s>>
      BY <1>1, <2>2
    <2>3. CASE \E s \in Shards : p = <<"hand", s, s>>
      BY <1>1, <2>3
    <2>4. QED
      BY <2>1, <2>2, <2>3, BoxKinds
  <1>2. QED
    BY <1>1

\* What is inductive.
TrafficInv == TypeOK /\ Split /\ Found

\* Its parts.
LEMMA InvParts ==
    ASSUME TrafficInv
    PROVE  /\ BoxTypes /\ Fits /\ LoopTypes /\ HostTypes /\ Split /\ Found
           /\ \A p \in Boxes : Contents(p) \in Seq(Envelope)
           /\ \A lane \in Lanes, a, b \in Shards : queue[lane][a][b] \in Seq(Envelope)
           /\ \A s \in Shards : overflow[s] \in Seq(Envelope) /\ hand[s] \in Seq(Envelope)
           /\ \A lane \in Lanes, a, b \in Shards : Distinct(queue[lane][a][b])
           /\ \A s \in Shards : Distinct(overflow[s]) /\ Distinct(hand[s])
  <1>1. BoxTypes /\ Fits /\ LoopTypes /\ HostTypes /\ Split /\ Found
    BY TypeParts DEF TrafficInv
  <1>2. \A s \in Shards : overflow[s] \in Seq(Envelope) /\ hand[s] \in Seq(Envelope)
    BY <1>1 DEF BoxTypes
  <1>3. /\ \A lane \in Lanes, a, b \in Shards : Distinct(queue[lane][a][b])
        /\ \A s \in Shards : Distinct(overflow[s]) /\ Distinct(hand[s])
    <2>1. \A p \in Boxes : Distinct(Contents(p))
      BY <1>1 DEF Split
    <2>2. \A lane \in Lanes, a, b \in Shards : <<lane, a, b>> \in Boxes
      BY BoxKinds
    <2>3. \A s \in Shards : <<"overflow", s, s>> \in Boxes /\ <<"hand", s, s>> \in Boxes
      BY BoxKinds
    <2>4. QED
      BY <2>1, <2>2, <2>3, BoxContents
  <1>4. QED
    BY <1>1, <1>2, <1>3, BoxesTyped

\* An envelope that is offered to its channel is in it then, or the channel is
\* as it was.
LEMMA Enqueued ==
    ASSUME TrafficAssumption, TrafficInv, NEW s \in Shards, NEW e \in Envelope, Enqueue(s, e),
           \A p \in Places : e.id \in IdsAt(p) => p = <<"overflow", s, s>>
    PROVE  /\ queue' \in Channels
           /\ \A lane \in Lanes, a, b \in Shards :
                /\ Len(queue'[lane][a][b]) <= Cap
                /\ \A x \in ToSet(queue'[lane][a][b]) : Lane(x) = lane /\ x.to = b
           /\ Lossless(s, e) = "Ok" =>
                /\ Contents(<<Lane(e), s, e.to>>)' = Append(Contents(<<Lane(e), s, e.to>>), e)
                /\ \A lane \in Lanes, a \in Shards, b \in Shards : <<lane, a, b>> # <<Lane(e), s, e.to>> =>
                      Contents(<<lane, a, b>>)' = Contents(<<lane, a, b>>)
           /\ Lossless(s, e) # "Ok" => queue' = queue
  <1>1. BoxTypes /\ Fits
    BY InvParts
  <1>2. Lane(e) \in Lanes /\ e.to \in Shards
    BY EnvelopeFields
  <1>3. CASE Lossless(s, e) # "Ok"
    <2>1. queue' = queue
      BY <1>3 DEF Enqueue
    <2>2. QED
      BY <1>1, <1>3, <2>1 DEF BoxTypes, Channels, Fits
  <1>4. CASE Lossless(s, e) = "Ok"
    <2> DEFINE q == queue[Lane(e)][s][e.to]
               v == Append(q, e)
    <2>1. q \in Seq(Envelope) /\ Distinct(q) /\ Len(q) < Cap /\ Cap \in Nat
      BY <1>2, <1>4, InvParts DEF Lossless, TrafficAssumption, TransportAssumption
    <2>2. e.id \notin IdsIn(q)
      <3>1. /\ <<Lane(e), s, e.to>> \in Places /\ <<Lane(e), s, e.to>> # <<"overflow", s, s>>
            /\ IdsAt(<<Lane(e), s, e.to>>) = IdsIn(q)
        BY <1>2, BoxKinds, BoxContents DEF IdsAt, Lanes
      <3>2. QED
        BY <3>1
    <2>3. /\ v \in Seq(Envelope) /\ Len(v) = Len(q) + 1 /\ Len(q) \in Nat /\ ToSet(v) = ToSet(q) \cup {e}
      BY <2>1, <2>2, Appended
    <2>4. Replaced(Lane(e), s, e.to, v)
      BY <1>4 DEF Enqueue, Replaced
    <2>5. \A x \in ToSet(q) : Lane(x) = Lane(e) /\ x.to = e.to
      BY <1>1, <1>2 DEF Fits
    <2>6. Contents(<<Lane(e), s, e.to>>) = q
      BY <1>2, BoxContents
    <2> HIDE DEF v
    <2>7. /\ queue' \in Channels
          /\ \A lane \in Lanes, a \in Shards, b \in Shards :
                queue'[lane][a][b] = IF lane = Lane(e) /\ a = s /\ b = e.to THEN v ELSE queue[lane][a][b]
      BY <1>1, <1>2, <2>3, <2>4, OneChannel
    <2>8. /\ Contents(<<Lane(e), s, e.to>>)' = v
          /\ \A lane \in Lanes, a \in Shards, b \in Shards : <<lane, a, b>> # <<Lane(e), s, e.to>> =>
                Contents(<<lane, a, b>>)' = Contents(<<lane, a, b>>)
      BY <1>1, <1>2, <2>3, <2>4, ChannelBox
    <2>9. Len(v) <= Cap /\ \A x \in ToSet(v) : Lane(x) = Lane(e) /\ x.to = e.to
      BY <2>1, <2>3, <2>5
    <2> HIDE DEF q
    <2>10. ASSUME NEW lane \in Lanes, NEW a \in Shards, NEW b \in Shards
           PROVE  /\ Len(queue'[lane][a][b]) <= Cap
                  /\ \A x \in ToSet(queue'[lane][a][b]) : Lane(x) = lane /\ x.to = b
      <3>1. CASE lane = Lane(e) /\ a = s /\ b = e.to
        BY <2>7, <2>9, <3>1
      <3>2. CASE ~(lane = Lane(e) /\ a = s /\ b = e.to)
        <4>1. queue'[lane][a][b] = queue[lane][a][b]
          BY <2>7, <3>2
        <4>2. QED
          BY <1>1, <4>1 DEF Fits
      <3>3. QED
        BY <3>1, <3>2
    <2>11. Contents(<<Lane(e), s, e.to>>)' = Append(Contents(<<Lane(e), s, e.to>>), e)
      BY <2>6, <2>8 DEF v
    <2>12. QED
      BY <1>4, <2>7, <2>8, <2>10, <2>11
  <1>5. QED
    BY <1>3, <1>4

\* One envelope leaves the hands of a worker.
LEMMA RouteKeeps ==
    ASSUME TrafficAssumption, TrafficInv, NEW s \in Shards, RouteOne(s)
    PROVE  TrafficInv'
  <1>0. BoxTypes /\ Fits /\ LoopTypes /\ HostTypes /\ Split /\ Found
    BY InvParts
  <1>1. /\ hand[s] \in Seq(Envelope) /\ hand[s] # <<>> /\ Distinct(hand[s])
        /\ overflow[s] \in Seq(Envelope) /\ Distinct(overflow[s])
    BY InvParts DEF RouteOne, Route
  <1>2. PICK e \in Envelope : e = Head(hand[s])
    BY <1>1, Shortened
  <1>3. /\ Enqueue(s, e)
        /\ overflow' = IF Overflowed(s, e) THEN [overflow EXCEPT ![s] = Append(overflow[s], e)] ELSE overflow
        /\ hand' = [hand EXCEPT ![s] = Tail(hand[s])]
        /\ UNCHANGED <<looping, state>>
        /\ accepted' = IF Routed(s, e) = "Ok" THEN accepted \cup {e.id} ELSE accepted \ {e.id}
        /\ command' = command /\ hushed' = hushed
    BY <1>2 DEF RouteOne, Route
  <1> DEFINE from == <<"hand", s, s>>
             over == <<"overflow", s, s>>
             chan == <<Lane(e), s, e.to>>
  <1>4. /\ from \in Boxes /\ over \in Places /\ chan \in Places /\ Places \subseteq Boxes
        /\ from # over /\ from # chan /\ over # chan
        /\ Contents(from) = hand[s] /\ Contents(over) = overflow[s]
    BY EnvelopeFields, BoxKinds, BoxContents DEF Lanes
  <1>5. e.id \in IdsAt(from)
    BY <1>1, <1>2, <1>4, Shortened DEF IdsAt
  <1>6. \A p \in Places : e.id \notin IdsAt(p)
    BY <1>0, <1>4, <1>5, BoxKinds DEF Split
  <1>7. /\ queue' \in Channels
        /\ \A lane \in Lanes, a, b \in Shards :
             /\ Len(queue'[lane][a][b]) <= Cap
             /\ \A x \in ToSet(queue'[lane][a][b]) : Lane(x) = lane /\ x.to = b
        /\ Lossless(s, e) = "Ok" =>
             /\ Contents(chan)' = Append(Contents(chan), e)
             /\ \A lane \in Lanes, a \in Shards, b \in Shards : <<lane, a, b>> # chan =>
                   Contents(<<lane, a, b>>)' = Contents(<<lane, a, b>>)
        /\ Lossless(s, e) # "Ok" => queue' = queue
    BY <1>3, <1>6, Enqueued
  <1>8. Tail(hand[s]) \in Seq(Envelope)
    BY <1>1
  <1>9. /\ hand' \in [Shards -> Seq(Envelope)] /\ Contents(from)' = Tail(Contents(from))
        /\ \A r \in Shards \ {s} : Contents(<<"hand", r, r>>)' = Contents(<<"hand", r, r>>)
    BY <1>0, <1>3, <1>4, <1>8, HandBox
  <1>10. LoopTypes'
    BY <1>0, <1>3 DEF LoopTypes, looping
  <1>11. HostTypes'
    BY <1>0, <1>3, EnvelopeFields DEF HostTypes
  <1> HIDE DEF from, over, chan
  <1>12. ASSUME \A p \in Boxes : IdsAt(p) \ {e.id} \subseteq IdsAt(p)',
                Routed(s, e) = "Ok" => \E p \in Places : e.id \in IdsAt(p)'
         PROVE  Found'
    <2>1. ASSUME NEW id \in accepted' PROVE \E p \in Places : id \in IdsAt(p)'
      <3>1. CASE id = e.id
        BY <1>3, <1>12, <2>1, <3>1
      <3>2. CASE id # e.id
        <4>1. id \in accepted
          BY <1>3, <2>1, <3>2
        <4>2. PICK p \in Places : id \in IdsAt(p)
          BY <1>0, <4>1 DEF Found
        <4>3. QED
          BY <1>4, <1>12, <3>2, <4>2
      <3>3. QED
        BY <3>1, <3>2
    <2>2. QED
      BY <2>1 DEF Found
  <1>13. CASE Lossless(s, e) = "Ok"
    <2>1. overflow' = overflow /\ Routed(s, e) = "Ok"
      BY <1>3, <1>13 DEF Overflowed, Routed
    <2>2. \A p \in Boxes \ {from, chan} : Contents(p)' = Contents(p)
      <3>1. \A lane \in Lanes, a \in Shards, b \in Shards : <<lane, a, b>> \notin {from, chan} =>
               Contents(<<lane, a, b>>)' = Contents(<<lane, a, b>>)
        BY <1>7, <1>13
      <3>2. \A r \in Shards : Contents(<<"overflow", r, r>>)' = Contents(<<"overflow", r, r>>)
        BY <2>1, SameOverflow
      <3>3. \A r \in Shards : <<"hand", r, r>> \notin {from, chan} =>
               Contents(<<"hand", r, r>>)' = Contents(<<"hand", r, r>>)
        BY <1>9 DEF from
      <3>4. QED
        BY <3>1, <3>2, <3>3, AllBoxes
    <2>3. /\ Split' /\ \A p \in Boxes : IdsAt(p) \ {e.id} \subseteq IdsAt(p)'
          /\ e.id \in IdsAt(chan)'
      <3>1. chan \in Boxes /\ Contents(from) # <<>> /\ e.id = Head(Contents(from)).id
        BY <1>1, <1>2, <1>4
      <3>2. Contents(chan)' = Append(Contents(chan), e)
        BY <1>7, <1>13
      <3>3. QED
        BY <1>0, <1>4, <1>9, <2>2, <3>1, <3>2, MoveKeeps
    <2>4. Found'
      BY <1>4, <1>12, <2>3
    <2>5. Fits' /\ BoxTypes'
      BY <1>0, <1>7, <1>9, <2>1 DEF Fits, BoxTypes, Channels, Lane
    <2>6. QED
      BY <1>10, <1>11, <2>3, <2>4, <2>5, TypePartsNext DEF TrafficInv
  <1>14. CASE Overflowed(s, e)
    <2>1. Lossless(s, e) # "Ok" /\ Lane(e) = "terminal" /\ Routed(s, e) = "Ok"
      BY <1>14 DEF Overflowed, Routed
    <2>2. queue' = queue /\ overflow' = [overflow EXCEPT ![s] = Append(overflow[s], e)]
      BY <1>3, <1>7, <1>14, <2>1
    <2>3. Append(overflow[s], e) \in Seq(Envelope) /\ ToSet(Append(overflow[s], e)) = ToSet(overflow[s]) \cup {e}
      <3>1. e.id \notin IdsIn(overflow[s])
        BY <1>4, <1>6 DEF IdsAt
      <3>2. QED
        BY <1>1, <3>1, Appended
    <2>4. /\ overflow' \in [Shards -> Seq(Envelope)]
          /\ Contents(over)' = Append(Contents(over), e)
          /\ \A r \in Shards \ {s} : Contents(<<"overflow", r, r>>)' = Contents(<<"overflow", r, r>>)
      BY <1>0, <1>4, <2>2, <2>3, OverflowBox DEF over
    <2>5. \A p \in Boxes \ {from, over} : Contents(p)' = Contents(p)
      <3>1. \A lane \in Lanes, a \in Shards, b \in Shards :
               Contents(<<lane, a, b>>)' = Contents(<<lane, a, b>>)
        BY <2>2, SameChannels
      <3>2. \A r \in Shards : <<"overflow", r, r>> \notin {from, over} =>
               Contents(<<"overflow", r, r>>)' = Contents(<<"overflow", r, r>>)
        BY <2>4 DEF over
      <3>3. \A r \in Shards : <<"hand", r, r>> \notin {from, over} =>
               Contents(<<"hand", r, r>>)' = Contents(<<"hand", r, r>>)
        BY <1>9 DEF from
      <3>4. QED
        BY <3>1, <3>2, <3>3, AllBoxes
    <2>6. /\ Split' /\ \A p \in Boxes : IdsAt(p) \ {e.id} \subseteq IdsAt(p)'
          /\ e.id \in IdsAt(over)'
      <3>1. over \in Boxes /\ Contents(from) # <<>> /\ e.id = Head(Contents(from)).id
        BY <1>1, <1>2, <1>4
      <3>2. QED
        BY <1>0, <1>4, <1>9, <2>4, <2>5, <3>1, MoveKeeps
    <2>7. Found'
      BY <1>4, <1>12, <2>6
    <2>8. \A r \in Shards : \A x \in ToSet(overflow'[r]) : Lane(x) = "terminal"
      <3>1. \A r \in Shards : overflow'[r] = IF r = s THEN Append(overflow[s], e) ELSE overflow[r]
        BY <1>0, <2>2 DEF BoxTypes
      <3>2. QED
        BY <1>0, <2>1, <2>3, <3>1 DEF Fits
    <2>9. Fits' /\ BoxTypes'
      BY <1>7, <1>9, <2>4, <2>8 DEF Fits, BoxTypes, Channels, Lane
    <2>10. QED
      BY <1>10, <1>11, <2>6, <2>7, <2>9, TypePartsNext DEF TrafficInv
  <1>15. CASE Lossless(s, e) # "Ok" /\ ~Overflowed(s, e)
    <2>1. queue' = queue /\ overflow' = overflow /\ Routed(s, e) # "Ok"
      BY <1>3, <1>7, <1>15 DEF Overflowed, Routed
    <2>2. \A p \in Boxes \ {from, over} : Contents(p)' = Contents(p)
      <3>1. \A lane \in Lanes, a \in Shards, b \in Shards :
               Contents(<<lane, a, b>>)' = Contents(<<lane, a, b>>)
        BY <2>1, SameChannels
      <3>2. \A r \in Shards : Contents(<<"overflow", r, r>>)' = Contents(<<"overflow", r, r>>)
        BY <2>1, SameOverflow
      <3>3. \A r \in Shards : <<"hand", r, r>> \notin {from, over} =>
               Contents(<<"hand", r, r>>)' = Contents(<<"hand", r, r>>)
        BY <1>9 DEF from
      <3>4. QED
        BY <3>1, <3>2, <3>3, AllBoxes
    <2>3. Split' /\ \A p \in Boxes : IdsAt(p) \ {e.id} \subseteq IdsAt(p)'
      <3>1. over \in Boxes /\ Contents(from) # <<>> /\ e.id = Head(Contents(from)).id
        BY <1>1, <1>2, <1>4
      <3>2. Contents(over)' = Contents(over)
        BY <2>1, SameOverflow DEF over
      <3>3. QED
        BY <1>0, <1>4, <1>9, <2>2, <3>1, <3>2, MoveKeeps
    <2>4. Found'
      BY <1>12, <2>1, <2>3
    <2>5. Fits' /\ BoxTypes'
      BY <1>0, <1>9, <2>1 DEF Fits, BoxTypes, Channels, Lane
    <2>6. QED
      BY <1>10, <1>11, <2>3, <2>4, <2>5, TypePartsNext DEF TrafficInv
  <1>16. QED
    BY <1>13, <1>14, <1>15

\* The loop of a worker stays inside its receivers.
LEMMA LoopMoves ==
    ASSUME TrafficAssumption, LoopTypes, NEW s \in Shards,
           \/ RetryOverflow(s) \/ Receive(s) \/ SkipEmpty(s) \/ EndLane(s) \/ EndStep(s)
           \/ MarkFailed(s) \/ Exit(s)
    PROVE  LoopTypes'
  <1>0. Budget \in Nat /\ PeerSeq[s] \in Seq(Shards) /\ Receivers(s) \in Nat
    BY DEF TrafficAssumption, TransportAssumption, Receivers
  <1>1. \A half : LaneOf(s, half) \in Lanes
    BY DEF LaneOf, Lanes
  <1>2. /\ [offset |-> 0, last |-> -1] \in [offset : Nat, last : Nat \cup {-1}]
        /\ at[s] \in [offset : Nat, last : Nat \cup {-1}] /\ left[s] \in 0 .. Budget
        /\ \A lane \in Lanes : start[s][lane] \in Nat
    BY DEF LoopTypes
  <1>3. CASE RetryOverflow(s)
    <2>1. CASE UNCHANGED <<pc, at, left>>
      BY <1>3, <2>1 DEF RetryOverflow, LoopTypes, Receivers
    <2>2. CASE Enter(s, "first") /\ left' = [left EXCEPT ![s] = Budget]
      <3>1. pc' \in [Shards -> {"overflow", "first", "second", "step"}]
        BY <2>2 DEF Enter, LoopTypes
      <3>2. at' \in [Shards -> [offset : Nat, last : Nat \cup {-1}]]
        BY <1>2, <2>2 DEF Enter, LoopTypes
      <3>3. left' \in [Shards -> 0 .. Budget]
        BY <1>0, <2>2 DEF LoopTypes
      <3>4. QED
        BY <1>3, <3>1, <3>2, <3>3 DEF RetryOverflow, LoopTypes, Receivers
    <2>3. QED
      BY <1>3, <2>1, <2>2 DEF RetryOverflow
  <1>4. CASE Receive(s)
    <2>1. \A lane \in Lanes : Receiver(s, lane) \in Nat
      <3>1. Receivers(s) > 0
        BY <1>0, <1>2, <1>4 DEF Receive
      <3>2. QED
        BY <1>0, <1>2, <3>1 DEF Receiver
    <2>2. /\ at' = [at EXCEPT ![s].last = Receiver(s, LaneOf(s, pc[s]))]
          /\ left' = [left EXCEPT ![s] = left[s] - 1] /\ left[s] - 1 \in 0 .. Budget
          /\ UNCHANGED <<pc, lead, start, state>>
      BY <1>0, <1>2, <1>4 DEF Receive
    <2>3. at' \in [Shards -> [offset : Nat, last : Nat \cup {-1}]]
      <3>1. PICK r \in Nat : r = Receiver(s, LaneOf(s, pc[s]))
        BY <1>1, <2>1
      <3> DEFINE A == [offset : Nat, last : Nat \cup {-1}]
                 b == [at[s] EXCEPT !.last = r]
      <3>2. b \in A
        BY <1>2
      <3>3. at' = [at EXCEPT ![s] = b] /\ at \in [Shards -> A]
        BY <2>2, <3>1 DEF LoopTypes
      <3> HIDE DEF A, b
      <3>4. at' \in [Shards -> A]
        BY <3>2, <3>3
      <3>5. QED
        BY <3>4 DEF A
    <2>4. QED
      BY <2>2, <2>3 DEF LoopTypes, Receivers
  <1>5. CASE SkipEmpty(s)
    <2>1. at' = [at EXCEPT ![s].offset = @ + 1] /\ UNCHANGED <<pc, lead, left, start, state>>
      BY <1>5 DEF SkipEmpty
    <2>2. at' \in [Shards -> [offset : Nat, last : Nat \cup {-1}]]
      <3> DEFINE A == [offset : Nat, last : Nat \cup {-1}]
                 b == [at[s] EXCEPT !.offset = @ + 1]
      <3>1. b \in A
        BY <1>2
      <3>2. at' = [at EXCEPT ![s] = b] /\ at \in [Shards -> A]
        BY <2>1 DEF LoopTypes
      <3> HIDE DEF A, b
      <3>3. at' \in [Shards -> A]
        BY <3>1, <3>2
      <3>4. QED
        BY <3>3 DEF A
    <2>3. QED
      BY <2>1, <2>2 DEF LoopTypes, Receivers
  <1>6. CASE EndLane(s)
    <2>0. PICK lane \in Lanes : lane = LaneOf(s, pc[s])
      BY <1>1
    <2>1. NextStart(s, lane) \in Nat /\ (NextStart(s, lane) = 0 \/ NextStart(s, lane) < Receivers(s))
      <3>1. CASE Receivers(s) = 0
        BY <1>2, <2>0, <3>1 DEF NextStart, LoopTypes
      <3>2. CASE Receivers(s) > 0
        <4>1. /\ Receiver(s, lane) \in Nat /\ at[s].last \in Nat \cup {-1} /\ start[s][lane] \in Nat
              /\ start[s][lane] = 0 \/ start[s][lane] < Receivers(s)
          <5>1. start[s][lane] \in Nat /\ at[s].offset \in Nat /\ at[s].last \in Nat \cup {-1}
            BY <1>2
          <5>2. Receiver(s, lane) \in Nat
            BY <1>0, <3>2, <5>1 DEF Receiver
          <5>3. QED
            BY <5>1, <5>2 DEF LoopTypes
        <4>2. \A n \in Nat : n % Receivers(s) \in Nat /\ n % Receivers(s) < Receivers(s)
          BY <1>0, <3>2
        <4>3. /\ Receiver(s, lane) + 1 \in Nat /\ start[s][lane] + 1 \in Nat
              /\ at[s].last >= 0 => at[s].last + 1 \in Nat
          BY <4>1
        <4>4. QED
          BY <4>1, <4>2, <4>3 DEF NextStart
      <3>3. QED
        BY <1>0, <3>1, <3>2
    <2>2. start' = [start EXCEPT ![s][lane] = NextStart(s, lane)] /\ UNCHANGED <<left, state>>
      BY <1>6, <2>0 DEF EndLane
    <2>3. /\ start' \in [Shards -> [Lanes -> Nat]]
          /\ \A r \in Shards, l \in Lanes :
                start'[r][l] = IF r = s /\ l = lane THEN NextStart(s, lane) ELSE start[r][l]
      <3> DEFINE row == [start[s] EXCEPT ![lane] = NextStart(s, lane)]
      <3>1. start \in [Shards -> [Lanes -> Nat]] /\ start' = [start EXCEPT ![s] = row]
        BY <2>2 DEF LoopTypes
      <3>2. row \in [Lanes -> Nat] /\ \A l \in Lanes : row[l] = IF l = lane THEN NextStart(s, lane) ELSE start[s][l]
        BY <2>1, <3>1
      <3> HIDE DEF row
      <3>3. QED
        BY <3>1, <3>2
    <2>4. \A r \in Shards, l \in Lanes : start'[r][l] = 0 \/ start'[r][l] < Receivers(r)
      BY <2>1, <2>3 DEF LoopTypes
    <2>5. /\ pc' \in [Shards -> {"overflow", "first", "second", "step"}]
          /\ at' \in [Shards -> [offset : Nat, last : Nat \cup {-1}]]
          /\ lead' \in [Shards -> BOOLEAN]
      <3>1. PICK half \in {"second", "step"} :
               Enter(s, half) /\ (lead' = lead \/ lead' = [lead EXCEPT ![s] = ~@])
        BY <1>6 DEF EndLane
      <3>2. pc' \in [Shards -> {"overflow", "first", "second", "step"}]
        BY <3>1 DEF Enter, LoopTypes
      <3>3. at' \in [Shards -> [offset : Nat, last : Nat \cup {-1}]]
        BY <1>2, <3>1 DEF Enter, LoopTypes
      <3>4. lead' \in [Shards -> BOOLEAN]
        BY <3>1 DEF LoopTypes
      <3>5. QED
        BY <3>2, <3>3, <3>4
    <2>6. QED
      BY <2>2, <2>3, <2>4, <2>5 DEF LoopTypes, Receivers
  <1>7. CASE EndStep(s)
    BY <1>7 DEF EndStep, LoopTypes, Receivers
  <1>8. CASE MarkFailed(s)
    BY <1>8 DEF MarkFailed, LoopTypes, looping, Receivers
  <1>9. CASE Exit(s)
    BY <1>9 DEF Exit, LoopTypes, looping, Receivers
  <1>10. QED
    BY <1>3, <1>4, <1>5, <1>6, <1>7, <1>8, <1>9

\* A step that moves no envelope.
LEMMA QuietKeeps ==
    ASSUME TrafficInv, UNCHANGED <<queue, overflow, hand, accepted>>, LoopTypes', HostTypes'
    PROVE  TrafficInv'
  <1>1. BoxTypes /\ Fits /\ Split /\ Found
    BY InvParts
  <1>2. BoxTypes' /\ Fits'
    BY <1>1 DEF BoxTypes, Fits, Lane
  <1>3. \A p : Contents(p)' = Contents(p) /\ IdsAt(p)' = IdsAt(p)
    BY DEF Contents, IdsAt
  <1>4. Split' /\ Found'
    BY <1>1, <1>3 DEF Split, Found
  <1>5. QED
    BY <1>2, <1>4, TypePartsNext DEF TrafficInv

\* The head of the overflow is tried again.
LEMMA RetryKeeps ==
    ASSUME TrafficAssumption, TrafficInv, NEW s \in Shards, Retry(s)
    PROVE  TrafficInv'
  <1>0. BoxTypes /\ Fits /\ LoopTypes /\ HostTypes /\ Split /\ Found
    BY InvParts
  <1>1. LoopTypes'
    BY <1>0, LoopMoves DEF Retry
  <1>2. HostTypes' /\ hand' = hand
    BY <1>0 DEF Retry, HostTypes, RetryOverflow
  <1>3. CASE overflow[s] = <<>> \/ Lossless(s, Head(overflow[s])) = "Full"
    <2>1. UNCHANGED <<queue, overflow, hand, accepted>>
      BY <1>3 DEF Retry, RetryOverflow
    <2>2. QED
      BY <1>1, <1>2, <2>1, QuietKeeps
  <1>4. CASE ~(overflow[s] = <<>> \/ Lossless(s, Head(overflow[s])) = "Full")
    <2>1. overflow[s] \in Seq(Envelope) /\ overflow[s] # <<>> /\ Distinct(overflow[s])
      BY <1>4, InvParts
    <2>2. PICK e \in Envelope : e = Head(overflow[s])
      BY <2>1, Shortened
    <2>3. /\ Enqueue(s, e) /\ overflow' = [overflow EXCEPT ![s] = Tail(overflow[s])]
          /\ accepted' = IF Lossless(s, e) = "Closed" THEN accepted \ {e.id} ELSE accepted
          /\ Lossless(s, e) \in {"Ok", "Closed"}
      BY <1>4, <2>2 DEF Retry, RetryOverflow, Lossless
    <2> DEFINE from == <<"overflow", s, s>>
               chan == <<Lane(e), s, e.to>>
    <2>4. /\ from \in Places /\ chan \in Places /\ Places \subseteq Boxes /\ from # chan
          /\ Contents(from) = overflow[s]
      BY EnvelopeFields, BoxKinds, BoxContents DEF Lanes
    <2>5. e.id \in IdsAt(from)
      BY <2>1, <2>2, <2>4, Shortened DEF IdsAt
    <2>6. \A p \in Places : e.id \in IdsAt(p) => p = from
      BY <1>0, <2>4, <2>5 DEF Split
    <2>7. /\ queue' \in Channels
          /\ \A lane \in Lanes, a, b \in Shards :
               /\ Len(queue'[lane][a][b]) <= Cap
               /\ \A x \in ToSet(queue'[lane][a][b]) : Lane(x) = lane /\ x.to = b
          /\ Lossless(s, e) = "Ok" =>
               /\ Contents(chan)' = Append(Contents(chan), e)
               /\ \A lane \in Lanes, a \in Shards, b \in Shards : <<lane, a, b>> # chan =>
                     Contents(<<lane, a, b>>)' = Contents(<<lane, a, b>>)
          /\ Lossless(s, e) # "Ok" => queue' = queue
      BY <2>3, <2>6, Enqueued
    <2>8. Tail(overflow[s]) \in Seq(Envelope) /\ ToSet(Tail(overflow[s])) \subseteq ToSet(overflow[s])
      BY <2>1, Shortened
    <2>9. /\ overflow' \in [Shards -> Seq(Envelope)] /\ Contents(from)' = Tail(Contents(from))
          /\ \A r \in Shards \ {s} : Contents(<<"overflow", r, r>>)' = Contents(<<"overflow", r, r>>)
      BY <1>0, <2>3, <2>4, <2>8, OverflowBox
    <2>10. \A r \in Shards : \A x \in ToSet(overflow'[r]) : Lane(x) = "terminal"
      <3>1. \A r \in Shards : overflow'[r] = IF r = s THEN Tail(overflow[s]) ELSE overflow[r]
        BY <1>0, <2>3 DEF BoxTypes
      <3>2. QED
        BY <1>0, <2>8, <3>1 DEF Fits
    <2>11. BoxTypes' /\ Fits'
      BY <1>0, <1>2, <2>7, <2>9, <2>10 DEF BoxTypes, Fits, Channels, Lane
    <2> HIDE DEF from, chan
    <2>12. \A p \in Boxes \ {from, chan} : Contents(p)' = Contents(p)
      <3>1. \A lane \in Lanes, a \in Shards, b \in Shards : <<lane, a, b>> \notin {from, chan} =>
               Contents(<<lane, a, b>>)' = Contents(<<lane, a, b>>)
        BY <2>7, SameChannels
      <3>2. \A r \in Shards : <<"overflow", r, r>> \notin {from, chan} =>
               Contents(<<"overflow", r, r>>)' = Contents(<<"overflow", r, r>>)
        BY <2>9 DEF from
      <3>3. \A r \in Shards : Contents(<<"hand", r, r>>)' = Contents(<<"hand", r, r>>)
        BY <1>2, SameHands
      <3>4. QED
        BY <3>1, <3>2, <3>3, AllBoxes
    <2>13. Contents(chan)' = Contents(chan) \/ Contents(chan)' = Append(Contents(chan), e)
      <3>1. Lossless(s, e) # "Ok" => Contents(chan)' = Contents(chan)
        BY <2>7, SameChannels, EnvelopeFields DEF chan
      <3>2. QED
        BY <2>7, <3>1
    <2>14. /\ Split' /\ \A p \in Boxes : IdsAt(p) \ {e.id} \subseteq IdsAt(p)'
           /\ Contents(chan)' = Append(Contents(chan), e) => e.id \in IdsAt(chan)'
      <3>1. from \in Boxes /\ chan \in Boxes /\ Contents(from) # <<>> /\ e.id = Head(Contents(from)).id
        BY <2>1, <2>2, <2>4
      <3>2. QED
        BY <1>0, <2>4, <2>9, <2>12, <2>13, <3>1, MoveKeeps
    <2>15. ASSUME NEW id \in accepted' PROVE \E p \in Places : id \in IdsAt(p)'
      <3>1. CASE id = e.id
        <4>1. Lossless(s, e) = "Ok"
          BY <2>3, <2>15, <3>1
        <4>2. QED
          BY <2>4, <2>7, <2>14, <3>1, <4>1
      <3>2. CASE id # e.id
        <4>1. id \in accepted
          BY <2>3, <2>15, <3>2
        <4>2. PICK p \in Places : id \in IdsAt(p)
          BY <1>0, <4>1 DEF Found
        <4>3. QED
          BY <2>4, <2>14, <3>2, <4>2
      <3>3. QED
        BY <3>1, <3>2
    <2>16. Found'
      BY <2>15 DEF Found
    <2>17. QED
      BY <1>1, <1>2, <2>11, <2>14, <2>16, TypePartsNext DEF TrafficInv
  <1>5. QED
    BY <1>3, <1>4

\* The receiver a drain is at belongs to one of the shards.
LEMMA SourceKnown ==
    ASSUME TrafficAssumption, LoopTypes, NEW s \in Shards, NEW lane \in Lanes,
           at[s].offset < Receivers(s)
    PROVE  Source(s, lane) \in Shards
  <1>1. PeerSeq[s] \in Seq(Shards)
    BY DEF TrafficAssumption, TransportAssumption
  <1>2. Receivers(s) \in Nat /\ at[s].offset \in Nat /\ start[s][lane] \in Nat
    BY <1>1 DEF LoopTypes, Receivers
  <1>3. Receiver(s, lane) \in 0 .. Receivers(s) - 1
    BY <1>2 DEF Receiver
  <1>4. Receiver(s, lane) + 1 \in 1 .. Len(PeerSeq[s])
    BY <1>2, <1>3 DEF Receivers
  <1>5. QED
    BY <1>1, <1>4 DEF Source

\* The answer to an envelope is one.
LEMMA AnswerTyped ==
    ASSUME NEW s \in Shards, NEW e \in Envelope
    PROVE  /\ [kind |-> "CallReply", call |-> FALSE, from |-> s, to |-> e.from, id |-> e.id] \in Envelope
           /\ [kind |-> "CallReply", call |-> FALSE, from |-> s, to |-> e.from, id |-> e.id].id = e.id
  <1>1. PICK r \in Shards, i \in Ids : r = e.from /\ i = e.id
    BY EnvelopeFields
  <1>2. "CallReply" \in EnvelopeKinds
    BY DEF EnvelopeKinds
  <1>3. [kind |-> "CallReply", call |-> FALSE, from |-> s, to |-> r, id |-> i] \in
           [kind : EnvelopeKinds, call : BOOLEAN, from : Shards, to : Shards, id : Ids]
    BY <1>2
  <1>4. QED
    BY <1>1, <1>3 DEF Envelope

\* One envelope is received, and may be answered at once.
LEMMA HarvestKeeps ==
    ASSUME TrafficAssumption, TrafficInv, NEW s \in Shards, Harvest(s)
    PROVE  TrafficInv'
  <1>0. BoxTypes /\ Fits /\ LoopTypes /\ HostTypes /\ Split /\ Found
    BY InvParts
  <1>1. LoopTypes'
    BY <1>0, LoopMoves DEF Harvest
  <1>2. PICK lane \in Lanes : lane = LaneOf(s, pc[s])
    BY DEF LaneOf, Lanes
  <1>3. PICK src \in Shards : src = Source(s, lane)
    BY <1>0, SourceKnown DEF Harvest, Receive
  <1> DEFINE q == queue[lane][src][s]
             from == <<lane, src, s>>
             into == <<"hand", s, s>>
  <1>4. /\ q # <<>> /\ Replaced(lane, src, s, Tail(q)) /\ Incoming(s) = Head(q)
        /\ hand[s] = <<>> /\ overflow' = overflow /\ accepted' = accepted \ {Head(q).id}
        /\ command' = command /\ hushed' = hushed
    BY <1>2, <1>3 DEF Harvest, Receive, Incoming, Replaced, Draining, Idle
  <1>5. q \in Seq(Envelope) /\ Distinct(q)
    BY InvParts
  <1>6. PICK e \in Envelope : e = Head(q)
    BY <1>4, <1>5, Shortened
  <1> DEFINE answer == [kind |-> "CallReply", call |-> FALSE, from |-> s, to |-> e.from, id |-> e.id]
  <1>7. hand' = hand \/ hand' = [hand EXCEPT ![s] = <<answer>>]
    BY <1>4, <1>6 DEF Harvest
  <1>8. answer \in Envelope /\ answer.id = e.id
    BY AnswerTyped
  <1> HIDE DEF answer
  <1>9. Tail(q) \in Seq(Envelope) /\ Len(Tail(q)) = Len(q) - 1 /\ Len(q) \in Nat /\ ToSet(Tail(q)) \subseteq ToSet(q)
    BY <1>4, <1>5, Shortened
  <1>10. /\ from \in Places /\ into \in Boxes /\ Places \subseteq Boxes /\ from # into
         /\ Contents(from) = q /\ Contents(into) = <<>>
    BY <1>4, BoxKinds, BoxContents, ZenonT(30) DEF Lanes
  <1>11. /\ queue' \in Channels
         /\ \A l \in Lanes, a \in Shards, b \in Shards :
               queue'[l][a][b] = IF l = lane /\ a = src /\ b = s THEN Tail(q) ELSE queue[l][a][b]
    <2>1. PICK v \in Seq(Envelope) : v = Tail(q)
      BY <1>9
    <2>2. Replaced(lane, src, s, v)
      BY <1>4, <2>1
    <2> HIDE DEF q
    <2>3. /\ queue' \in Channels
          /\ \A l \in Lanes, a \in Shards, b \in Shards :
                queue'[l][a][b] = IF l = lane /\ a = src /\ b = s THEN v ELSE queue[l][a][b]
      BY <1>0, <2>2, OneChannel
    <2>4. QED
      BY <2>1, <2>3
  <1>12. /\ Contents(from)' = Tail(q)
         /\ \A l \in Lanes, a \in Shards, b \in Shards : <<l, a, b>> # from =>
               Contents(<<l, a, b>>)' = Contents(<<l, a, b>>)
    BY <1>0, <1>4, <1>9, ChannelBox, ZenonT(30)
  <1>13. \A l \in Lanes, a, b \in Shards :
            /\ Len(queue'[l][a][b]) <= Cap
            /\ \A x \in ToSet(queue'[l][a][b]) : Lane(x) = l /\ x.to = b
    <2>1. Cap \in Nat /\ Len(q) <= Cap /\ \A x \in ToSet(q) : Lane(x) = lane /\ x.to = s
      BY <1>0 DEF Fits, TrafficAssumption, TransportAssumption
    <2>2. Len(Tail(q)) <= Cap /\ \A x \in ToSet(Tail(q)) : Lane(x) = lane /\ x.to = s
      BY <1>9, <2>1
    <2>3. ASSUME NEW l \in Lanes, NEW a \in Shards, NEW b \in Shards
          PROVE  /\ Len(queue'[l][a][b]) <= Cap
                 /\ \A x \in ToSet(queue'[l][a][b]) : Lane(x) = l /\ x.to = b
      <3>1. CASE l = lane /\ a = src /\ b = s
        BY <1>11, <2>2, <3>1
      <3>2. CASE ~(l = lane /\ a = src /\ b = s)
        <4>1. queue'[l][a][b] = queue[l][a][b]
          BY <1>11, <3>2
        <4>2. QED
          BY <1>0, <4>1 DEF Fits
      <3>3. QED
        BY <3>1, <3>2
    <2>4. QED
      BY <2>3
  <1> HIDE DEF q
  <1>14. <<answer>> \in Seq(Envelope) /\ <<answer>> = Append(<<>>, answer)
    BY <1>8
  <1>15. /\ hand' \in [Shards -> Seq(Envelope)]
         /\ Contents(into)' = Contents(into) \/ Contents(into)' = Append(Contents(into), answer)
         /\ \A r \in Shards \ {s} : Contents(<<"hand", r, r>>)' = Contents(<<"hand", r, r>>)
    <2>1. CASE hand' = hand
      BY <1>0, <2>1, SameHands DEF BoxTypes
    <2>2. CASE hand' = [hand EXCEPT ![s] = <<answer>>]
      <3>1. /\ hand' \in [Shards -> Seq(Envelope)] /\ Contents(into)' = <<answer>>
            /\ \A r \in Shards \ {s} : Contents(<<"hand", r, r>>)' = Contents(<<"hand", r, r>>)
        BY <1>0, <1>14, <2>2, HandBox
      <3>2. QED
        BY <1>10, <1>14, <3>1
    <2>3. QED
      BY <1>7, <2>1, <2>2
  <1>16. BoxTypes' /\ Fits'
    BY <1>0, <1>4, <1>11, <1>13, <1>15 DEF BoxTypes, Fits, Channels, Lane
  <1> HIDE DEF from, into
  <1>17. \A p \in Boxes \ {from, into} : Contents(p)' = Contents(p)
    <2>1. \A l \in Lanes, a \in Shards, b \in Shards : <<l, a, b>> \notin {from, into} =>
             Contents(<<l, a, b>>)' = Contents(<<l, a, b>>)
      BY <1>12
    <2>2. \A r \in Shards : Contents(<<"overflow", r, r>>)' = Contents(<<"overflow", r, r>>)
      BY <1>4, SameOverflow
    <2>3. \A r \in Shards : <<"hand", r, r>> \notin {from, into} =>
             Contents(<<"hand", r, r>>)' = Contents(<<"hand", r, r>>)
      BY <1>15 DEF into
    <2>4. QED
      BY <2>1, <2>2, <2>3, AllBoxes
  <1>18. Split' /\ \A p \in Boxes : IdsAt(p) \ {e.id} \subseteq IdsAt(p)'
    <2>1. /\ from \in Boxes /\ Contents(from) # <<>> /\ answer.id = Head(Contents(from)).id
          /\ Contents(from)' = Tail(Contents(from))
      BY <1>4, <1>6, <1>8, <1>10, <1>12
    <2>2. Split' /\ \A p \in Boxes : IdsAt(p) \ {answer.id} \subseteq IdsAt(p)'
      BY <1>0, <1>8, <1>10, <1>15, <1>17, <2>1, MoveKeeps
    <2>3. QED
      BY <1>8, <2>2
  <1>19. Found'
    <2>1. ASSUME NEW id \in accepted' PROVE \E p \in Places : id \in IdsAt(p)'
      <3>1. id \in accepted /\ id # e.id
        BY <1>4, <1>6, <2>1
      <3>2. PICK p \in Places : id \in IdsAt(p)
        BY <1>0, <3>1 DEF Found
      <3>3. QED
        BY <1>10, <1>18, <3>1, <3>2
    <2>2. QED
      BY <2>1 DEF Found
  <1>20. HostTypes'
    BY <1>0, <1>4 DEF HostTypes
  <1>21. QED
    BY <1>1, <1>16, <1>18, <1>19, <1>20, TypePartsNext DEF TrafficInv

\* A free id is in no box.
LEMMA FreeIds == \A id \in Free, p \in Boxes : id \notin IdsAt(p)
  <1>1. ASSUME NEW p \in Boxes, NEW i \in DOMAIN Contents(p)
        PROVE  Contents(p)[i] \in InFlight
    <2>1. CASE \E lane \in Lanes, a, b \in Shards : p = <<lane, a, b>>
      <3>1. PICK lane \in Lanes, a \in Shards, b \in Shards : p = <<lane, a, b>>
        BY <2>1
      <3>2. Contents(p) = queue[lane][a][b]
        BY <3>1, BoxContents
      <3>3. Contents(p)[i] \in InLane(lane, a, b)
        BY <1>1, <3>2 DEF InLane, ToSet
      <3>4. /\ Contents(p)[i] \in UNION {InLane(lane, a, t) : t \in Shards}
            /\ UNION {InLane(lane, a, t) : t \in Shards} \in {UNION {InLane(lane, c, t) : t \in Shards} : c \in Shards}
        BY <3>3
      <3>5. Contents(p)[i] \in UNION {UNION {InLane(lane, c, t) : t \in Shards} : c \in Shards}
        BY <3>4
      <3>6. Contents(p)[i] \in UNION {UNION {UNION {InLane(l, c, t) : t \in Shards} : c \in Shards} : l \in Lanes}
        BY <3>5
      <3>7. QED
        BY <3>6 DEF InFlight
    <2>2. CASE \E s \in Shards : p = <<"overflow", s, s>>
      <3>1. PICK s \in Shards : p = <<"overflow", s, s>>
        BY <2>2
      <3>2. Contents(p)[i] \in ToSet(overflow[s])
        BY <1>1, <3>1, BoxContents DEF ToSet
      <3>3. Contents(p)[i] \in UNION {ToSet(overflow[r]) \cup ToSet(hand[r]) : r \in Shards}
        BY <3>2
      <3>4. QED
        BY <3>3 DEF InFlight
    <2>3. CASE \E s \in Shards : p = <<"hand", s, s>>
      <3>1. PICK s \in Shards : p = <<"hand", s, s>>
        BY <2>3
      <3>2. Contents(p)[i] \in ToSet(hand[s])
        BY <1>1, <3>1, BoxContents DEF ToSet
      <3>3. Contents(p)[i] \in UNION {ToSet(overflow[r]) \cup ToSet(hand[r]) : r \in Shards}
        BY <3>2
      <3>4. QED
        BY <3>3 DEF InFlight
    <2>4. QED
      BY <2>1, <2>2, <2>3, BoxKinds
  <1>2. QED
    BY <1>1 DEF Free, IdsAt, IdsIn

\* A finite set is listed without repetition.
LEMMA Listed ==
    ASSUME NEW S, IsFiniteSet(S)
    PROVE  /\ Cardinality(S) \in Nat /\ SetToSeq(S) \in [1 .. Cardinality(S) -> S]
           /\ \A i, j \in 1 .. Cardinality(S) : SetToSeq(S)[i] = SetToSeq(S)[j] => i = j
  <1>1. Cardinality(S) \in Nat /\ ExistsBijection(1 .. Cardinality(S), S)
    BY FS_CardinalityType
  <1>2. \E g \in [1 .. Cardinality(S) -> S] : IsInjective(g)
    BY <1>1 DEF ExistsBijection, Bijection, Injection
  <1>3. SetToSeq(S) \in [1 .. Cardinality(S) -> S] /\ IsInjective(SetToSeq(S))
    BY <1>2 DEF SetToSeq
  <1>4. QED
    BY <1>1, <1>3 DEF IsInjective

\* A handler fills an empty hand with ids that nothing in flight has.
LEMMA EmitKeeps ==
    ASSUME TrafficAssumption, TrafficInv, NEW s \in Shards, NEW f \in Flows, NEW n \in Nat, Emit(s, f, n)
    PROVE  TrafficInv'
  <1>0. BoxTypes /\ Fits /\ LoopTypes /\ HostTypes /\ Split /\ Found
    BY InvParts
  <1>1. LoopTypes'
    BY <1>0, LoopMoves DEF Emit
  <1>2. /\ hand[s] = <<>> /\ queue' = queue /\ overflow' = overflow
        /\ accepted' = accepted /\ command' = command /\ hushed' = hushed
    BY DEF Emit, EndStep, Idle
  <1>3. IsFiniteSet(Free) /\ Free \subseteq Ids
    BY FS_Subset DEF TrafficAssumption, Free
  <1>4. PICK picked \in [1 .. Cardinality(Free) -> Free] :
           picked = SetToSeq(Free) /\ \A i, j \in 1 .. Cardinality(Free) : picked[i] = picked[j] => i = j
    BY <1>3, Listed
  <1> DEFINE msg(i) == [f EXCEPT !.id = picked[i]]
             sent == [i \in 1 .. n |-> msg(i)]
             box == <<"hand", s, s>>
  <1>5. hand' = [hand EXCEPT ![s] = sent] /\ n <= Cardinality(Free) /\ Cardinality(Free) \in Nat
    BY <1>3, <1>4, Listed DEF Emit
  <1>6. \A i \in 1 .. n : i \in 1 .. Cardinality(Free) /\ picked[i] \in Free
    BY <1>4, <1>5
  <1>7. ASSUME NEW i \in 1 .. n PROVE msg(i) \in Envelope /\ msg(i).id = picked[i]
    <2>1. picked[i] \in Ids /\ f \in [kind : EnvelopeKinds, call : BOOLEAN, from : Shards, to : Shards, id : {0}]
      BY <1>3, <1>6 DEF TrafficAssumption
    <2>2. QED
      BY <2>1 DEF Envelope
  <1> HIDE DEF msg
  <1>8. sent \in Seq(Envelope) /\ DOMAIN sent = 1 .. n /\ \A i \in 1 .. n : sent[i].id = picked[i]
    BY <1>7
  <1> HIDE DEF sent
  <1>9. Distinct(sent) /\ IdsIn(sent) \subseteq Free
    BY <1>4, <1>6, <1>8 DEF Distinct, IdsIn
  <1>10. /\ hand' \in [Shards -> Seq(Envelope)] /\ Contents(box)' = sent
         /\ \A r \in Shards \ {s} : Contents(<<"hand", r, r>>)' = Contents(<<"hand", r, r>>)
    BY <1>0, <1>5, <1>8, HandBox
  <1>11. box \in Boxes /\ Contents(box) = <<>> /\ Places \subseteq Boxes
    BY <1>2, BoxKinds, BoxContents
  <1>12. \A p \in Boxes \ {box} : Contents(p)' = Contents(p)
    <2>1. \A r \in Shards : <<"hand", r, r>> \notin {box} =>
             Contents(<<"hand", r, r>>)' = Contents(<<"hand", r, r>>)
      BY <1>10
    <2> HIDE DEF box
    <2>2. QED
      BY <1>2, <2>1, AllBoxes, SameChannels, SameOverflow
  <1> HIDE DEF box
  <1>13. \A p \in Boxes : IdsIn(Contents(box)') \cap IdsAt(p) = {}
    BY <1>9, <1>10, FreeIds
  <1>14. Split' /\ \A p \in Boxes : IdsAt(p) \subseteq IdsAt(p)'
    BY <1>0, <1>9, <1>10, <1>11, <1>12, <1>13, FillKeeps
  <1>15. Found'
    BY <1>0, <1>2, <1>11, <1>14 DEF Found
  <1>16. BoxTypes' /\ Fits' /\ HostTypes'
    BY <1>0, <1>2, <1>10 DEF BoxTypes, Fits, HostTypes, Lane
  <1>17. QED
    BY <1>1, <1>14, <1>15, <1>16, TypePartsNext DEF TrafficInv

\* A worker exits, and its boxes with it.
LEMMA ExitKeeps ==
    ASSUME TrafficAssumption, TrafficInv, NEW s \in Shards, ShutDown(s)
    PROVE  TrafficInv'
  <1>0. BoxTypes /\ Fits /\ LoopTypes /\ HostTypes /\ Split /\ Found
    BY InvParts
  <1>1. LoopTypes'
    BY <1>0, LoopMoves DEF ShutDown
  <1>2. HostTypes' /\ hand' = hand /\ overflow' = [overflow EXCEPT ![s] = <<>>]
    <2>1. accepted' \subseteq accepted /\ hushed' = hushed /\ hand' = hand
          /\ overflow' = [overflow EXCEPT ![s] = <<>>]
      BY DEF ShutDown, Exit
    <2>2. command' \in [Commanded -> BOOLEAN]
      BY <1>0 DEF ShutDown, HostTypes
    <2>3. QED
      BY <1>0, <2>1, <2>2 DEF HostTypes
  <1>3. /\ queue' \in Channels
        /\ \A lane \in Lanes, a \in Shards, b \in Shards :
              queue'[lane][a][b] = IF b = s THEN <<>> ELSE queue[lane][a][b]
    <2> DEFINE V == Seq(Envelope)
               row(lane, a) == [queue[lane][a] EXCEPT ![s] = <<>>]
    <2>1. queue' = [lane \in Lanes |-> [a \in Shards |-> row(lane, a)]]
      BY DEF ShutDown, Exit
    <2>2. queue \in [Lanes -> [Shards -> [Shards -> V]]] /\ <<>> \in V
      BY <1>0 DEF BoxTypes
    <2> HIDE DEF V
    <2>3. \A lane \in Lanes, a \in Shards :
             /\ row(lane, a) \in [Shards -> V]
             /\ \A b \in Shards : row(lane, a)[b] = IF b = s THEN <<>> ELSE queue[lane][a][b]
      BY <2>2
    <2> HIDE DEF row
    <2>4. queue' \in [Lanes -> [Shards -> [Shards -> V]]] /\ \A lane \in Lanes, a \in Shards : queue'[lane][a] = row(lane, a)
      BY <2>1, <2>3
    <2>5. QED
      BY <2>3, <2>4 DEF V, Channels
  <1>4. overflow' \in [Shards -> Seq(Envelope)] /\ \A r \in Shards : overflow'[r] = IF r = s THEN <<>> ELSE overflow[r]
    BY <1>0, <1>2, Nothing DEF BoxTypes
  <1>5. BoxTypes'
    BY <1>0, <1>2, <1>3, <1>4 DEF BoxTypes, Channels
  <1>6. Fits'
    <2>1. Len(<<>>) <= Cap /\ ToSet(<<>>) = {}
      BY Nothing DEF TrafficAssumption, TransportAssumption
    <2>2. \A lane \in Lanes, a, b \in Shards :
             /\ Len(queue'[lane][a][b]) <= Cap
             /\ \A e \in ToSet(queue'[lane][a][b]) : Lane(e) = lane /\ e.to = b
      BY <1>0, <1>3, <2>1 DEF Fits
    <2>3. \A r \in Shards : \A e \in ToSet(overflow'[r]) : Lane(e) = "terminal"
      BY <1>0, <1>4, <2>1 DEF Fits
    <2>4. QED
      BY <2>2, <2>3 DEF Fits, Lane
  <1>7. /\ \A lane \in Lanes, a, b \in Shards : Contents(<<lane, a, b>>)' =
              IF b = s THEN <<>> ELSE Contents(<<lane, a, b>>)
        /\ \A r \in Shards : Contents(<<"overflow", r, r>>)' = IF r = s THEN <<>> ELSE Contents(<<"overflow", r, r>>)
        /\ \A r \in Shards : Contents(<<"hand", r, r>>)' = Contents(<<"hand", r, r>>)
    <2>1. ASSUME NEW lane \in Lanes, NEW a \in Shards, NEW b \in Shards
          PROVE  Contents(<<lane, a, b>>)' = IF b = s THEN <<>> ELSE Contents(<<lane, a, b>>)
      <3>1. Contents(<<lane, a, b>>)' = queue'[lane][a][b] /\ Contents(<<lane, a, b>>) = queue[lane][a][b]
        BY BoxContents, BoxContentsNext
      <3>2. queue'[lane][a][b] = IF b = s THEN <<>> ELSE queue[lane][a][b]
        BY <1>3
      <3>3. QED
        BY <3>1, <3>2
    <2>2. ASSUME NEW r \in Shards
          PROVE  Contents(<<"overflow", r, r>>)' = IF r = s THEN <<>> ELSE Contents(<<"overflow", r, r>>)
      <3>1. /\ Contents(<<"overflow", r, r>>)' = overflow'[r]
            /\ Contents(<<"overflow", r, r>>) = overflow[r]
        BY BoxContents, BoxContentsNext
      <3>2. QED
        BY <1>4, <3>1
    <2>3. QED
      BY <1>2, <2>1, <2>2, SameHands
  <1>8. \A p \in Boxes : Contents(p)' = Contents(p) \/ Contents(p)' = <<>>
    <2>1. ASSUME NEW p \in Boxes PROVE Contents(p)' = Contents(p) \/ Contents(p)' = <<>>
      <3>1. CASE \E lane \in Lanes, a, b \in Shards : p = <<lane, a, b>>
        <4>1. PICK lane \in Lanes, a \in Shards, b \in Shards : p = <<lane, a, b>>
          BY <3>1
        <4>2. QED
          BY <1>7, <4>1
      <3>2. CASE \E r \in Shards : p = <<"overflow", r, r>>
        BY <1>7, <3>2
      <3>3. CASE \E r \in Shards : p = <<"hand", r, r>>
        BY <1>7, <3>3
      <3>4. QED
        BY <3>1, <3>2, <3>3, BoxKinds
    <2>2. QED
      BY <2>1
  <1>9. Split'
    BY <1>0, <1>8, EmptyKeeps
  <1>10. ASSUME NEW id \in accepted' PROVE \E p \in Places : id \in IdsAt(p)'
    <2>1. /\ id \in accepted
          /\ \A e \in ToSet(overflow[s]) : e.id # id
          /\ \A lane \in Lanes, a \in Shards : \A e \in InLane(lane, a, s) : e.id # id
      BY <1>10 DEF ShutDown
    <2>2. PICK p \in Places : id \in IdsAt(p)
      BY <1>0, <2>1 DEF Found
    <2>3. PICK i \in DOMAIN Contents(p) : Contents(p)[i].id = id
      BY <2>2 DEF IdsAt, IdsIn
    <2>4. Contents(p)' = Contents(p)
      <3>1. CASE \E lane \in Lanes, a, b \in Shards : p = <<lane, a, b>>
        <4>1. PICK lane \in Lanes, a \in Shards, b \in Shards : p = <<lane, a, b>>
          BY <3>1
        <4>2. Contents(p) = queue[lane][a][b]
          BY <4>1, BoxContents
        <4>3. b # s
          BY <2>1, <2>3, <4>2 DEF InLane, ToSet
        <4>4. QED
          BY <1>7, <4>1, <4>3
      <3>2. CASE \E r \in Shards : p = <<"overflow", r, r>>
        <4>1. PICK r \in Shards : p = <<"overflow", r, r>>
          BY <3>2
        <4>2. Contents(p) = overflow[r]
          BY <4>1, BoxContents
        <4>3. r # s
          BY <2>1, <2>3, <4>2 DEF ToSet
        <4>4. QED
          BY <1>7, <4>1, <4>3
      <3>3. QED
        BY <3>1, <3>2, BoxKinds
    <2>5. IdsAt(p)' = IdsAt(p)
      BY <2>4 DEF IdsAt
    <2>6. QED
      BY <2>2, <2>5
  <1>11. Found'
    BY <1>10 DEF Found
  <1>12. QED
    BY <1>1, <1>2, <1>5, <1>6, <1>9, <1>11, TypePartsNext DEF TrafficInv

-----------------------------------------------------------------------------
(* The invariant.                                                          *)

\* An id that is in one box only, and once, has one copy.
LEMMA OneCopy ==
    ASSUME Split, NEW id, NEW p \in Places, id \in IdsAt(p)
    PROVE  Cardinality(Copies(id)) = 1
  <1>1. PICK i \in DOMAIN Contents(p) : Contents(p)[i].id = id
    BY DEF IdsAt, IdsIn
  <1>2. Places \subseteq Boxes
    BY BoxKinds
  <1>3. ASSUME NEW q \in Places, NEW j \in DOMAIN Contents(q), Contents(q)[j].id = id
        PROVE  q = p /\ j = i
    <2>1. id \in IdsAt(q)
      BY <1>3 DEF IdsAt, IdsIn
    <2>2. q = p
      BY <1>2, <2>1 DEF Split
    <2>3. Distinct(Contents(p))
      BY <1>2 DEF Split
    <2>4. QED
      BY <1>1, <1>3, <2>2, <2>3 DEF Distinct
  <1>4. Copies(id) = {<<p, i>>}
    <2>1. \A c \in Copies(id) : \E q \in Places : \E j \in DOMAIN Contents(q) : Contents(q)[j].id = id /\ c = <<q, j>>
      BY DEF Copies
    <2>2. <<p, i>> \in Copies(id)
      BY <1>1 DEF Copies
    <2>3. QED
      BY <1>3, <2>1, <2>2
  <1>5. QED
    BY <1>4, FS_Singleton

\* Split and Found give NeverLost.
LEMMA InvIsEnough == TrafficInv => NeverLost
  <1> SUFFICES ASSUME TrafficInv PROVE NeverLost
    OBVIOUS
  <1>1. Split /\ Found
    BY InvParts
  <1>2. Apart
    <2>1. ASSUME NEW p \in Boxes, NEW q \in Boxes, NEW i \in DOMAIN Contents(p), NEW j \in DOMAIN Contents(q),
                 Contents(p)[i].id = Contents(q)[j].id
          PROVE  p = q /\ i = j
      <3>1. Contents(p)[i].id \in IdsAt(p) /\ Contents(p)[i].id \in IdsAt(q)
        BY <2>1 DEF IdsAt, IdsIn
      <3>2. p = q
        BY <1>1, <3>1 DEF Split
      <3>3. QED
        BY <1>1, <2>1, <3>2 DEF Split, Distinct
    <2>2. QED
      BY <2>1 DEF Apart
  <1>3. \A id \in accepted : Cardinality(Copies(id)) = 1
    BY <1>1, OneCopy DEF Found
  <1>4. QED
    BY <1>2, <1>3 DEF NeverLost, TrafficInv

\* Every box is empty at first.
LEMMA Starts ==
    ASSUME TrafficAssumption, Init
    PROVE  TrafficInv
  <1>1. /\ queue = [lane \in Lanes |-> [s \in Shards |-> [t \in Shards |-> <<>>]]]
        /\ overflow = [s \in Shards |-> <<>>] /\ hand = [s \in Shards |-> <<>>]
    BY DEF Init, TransportInit
  <1>2. /\ \A lane \in Lanes, a, b \in Shards : queue[lane][a][b] = <<>>
        /\ \A s \in Shards : overflow[s] = <<>> /\ hand[s] = <<>>
    BY <1>1
  <1>3. BoxTypes
    <2> DEFINE V == Seq(Envelope)
    <2>1. <<>> \in V
      BY Nothing
    <2> HIDE DEF V
    <2>2. /\ queue \in [Lanes -> [Shards -> [Shards -> V]]]
          /\ overflow \in [Shards -> V] /\ hand \in [Shards -> V]
      BY <1>1, <2>1
    <2>3. QED
      BY <2>2 DEF BoxTypes, V
  <1>4. Fits
    BY <1>2, Nothing DEF Fits, TrafficAssumption, TransportAssumption
  <1>5. LoopTypes
    <2>1. Budget \in Nat
      BY DEF TrafficAssumption, TransportAssumption
    <2>2. /\ state \in [Shards -> {"running", "failed", "gone"}]
          /\ pc \in [Shards -> {"overflow", "first", "second", "step"}]
          /\ lead \in [Shards -> BOOLEAN] /\ left \in [Shards -> 0 .. Budget]
      BY <2>1 DEF Init, TransportInit
    <2>3. at \in [Shards -> [offset : Nat, last : Nat \cup {-1}]]
      BY DEF Init, TransportInit
    <2>4. /\ start \in [Shards -> [Lanes -> Nat]]
          /\ \A s \in Shards, lane \in Lanes : start[s][lane] = 0
      BY DEF Init, TransportInit
    <2>5. QED
      BY <2>2, <2>3, <2>4 DEF LoopTypes
  <1>6. HostTypes
    BY DEF Init, HostTypes
  <1>7. \A p \in Boxes : Contents(p) = <<>>
    <2>1. ASSUME NEW p \in Boxes PROVE Contents(p) = <<>>
      <3>1. CASE \E lane \in Lanes, a, b \in Shards : p = <<lane, a, b>>
        BY <1>2, <3>1, BoxContents
      <3>2. CASE \E s \in Shards : p = <<"overflow", s, s>> \/ p = <<"hand", s, s>>
        BY <1>2, <3>2, BoxContents
      <3>3. QED
        BY <3>1, <3>2, BoxKinds
    <2>2. QED
      BY <2>1
  <1>8. Split
    BY <1>7, Nothing DEF Split, IdsAt
  <1>9. Found
    BY DEF Found, Init
  <1>10. QED
    BY <1>3, <1>4, <1>5, <1>6, <1>8, <1>9, TypeParts DEF TrafficInv

\* Every step keeps the invariant: one case per action.
LEMMA Steps ==
    ASSUME TrafficAssumption, TrafficInv, [Next]_vars
    PROVE  TrafficInv'
  <1>0. BoxTypes /\ Fits /\ LoopTypes /\ HostTypes /\ Split /\ Found
    BY InvParts
  <1>1. ASSUME NEW s \in Shards, RouteOne(s) PROVE TrafficInv'
    BY <1>1, RouteKeeps
  <1>2. ASSUME NEW s \in Shards, Retry(s) PROVE TrafficInv'
    BY <1>2, RetryKeeps
  <1>3. ASSUME NEW s \in Shards, Harvest(s) PROVE TrafficInv'
    BY <1>3, HarvestKeeps
  <1>4. ASSUME NEW s \in Shards, Local(s) PROVE TrafficInv'
    <2>1. LoopTypes'
      BY <1>0, <1>4, LoopMoves DEF Local
    <2>2. UNCHANGED <<queue, overflow, hand, accepted>> /\ HostTypes'
      BY <1>0, <1>4 DEF Local, SkipEmpty, EndLane, HostTypes
    <2>3. QED
      BY <2>1, <2>2, QuietKeeps
  <1>5. ASSUME NEW s \in Shards, Poll(s) PROVE TrafficInv'
    <2>1. LoopTypes'
      BY <1>0, <1>5, LoopMoves DEF Poll
    <2>2. UNCHANGED <<queue, overflow, hand, accepted>>
      BY <1>5 DEF Poll, EndStep
    <2>3. HostTypes'
      BY <1>0, <1>5 DEF Poll, HostTypes
    <2>4. QED
      BY <2>1, <2>2, <2>3, QuietKeeps
  <1>6. ASSUME NEW s \in Shards, NEW f \in Flows, NEW n \in 1 .. Burst, Emit(s, f, n) PROVE TrafficInv'
    <2>1. n \in Nat
      BY DEF TrafficAssumption
    <2>2. QED
      BY <1>6, <2>1, EmitKeeps
  <1>7. ASSUME NEW s \in Commanded, Post(s) PROVE TrafficInv'
    <2>1. UNCHANGED <<queue, overflow, hand, accepted>> /\ LoopTypes'
      BY <1>0, <1>7 DEF Post, transport, looping, LoopTypes, Receivers
    <2>2. HostTypes'
      BY <1>0, <1>7 DEF Post, HostTypes
    <2>3. QED
      BY <2>1, <2>2, QuietKeeps
  <1>8. ASSUME Hush PROVE TrafficInv'
    <2>1. UNCHANGED <<queue, overflow, hand, accepted>> /\ LoopTypes' /\ HostTypes'
      BY <1>0, <1>8 DEF Hush, transport, looping, LoopTypes, Receivers, HostTypes
    <2>2. QED
      BY <2>1, QuietKeeps
  <1>9. ASSUME NEW s \in Mortal, Fail(s) PROVE TrafficInv'
    <2>1. s \in Shards
      BY DEF TrafficAssumption
    <2>2. LoopTypes'
      BY <1>0, <1>9, <2>1, LoopMoves DEF Fail
    <2>3. UNCHANGED <<queue, overflow, hand, accepted>> /\ HostTypes'
      BY <1>0, <1>9 DEF Fail, MarkFailed, HostTypes
    <2>4. QED
      BY <2>2, <2>3, QuietKeeps
  <1>10. ASSUME NEW s \in Mortal, ShutDown(s) PROVE TrafficInv'
    <2>1. s \in Shards
      BY DEF TrafficAssumption
    <2>2. QED
      BY <1>10, <2>1, ExitKeeps
  <1>11. ASSUME UNCHANGED vars PROVE TrafficInv'
    <2>1. UNCHANGED <<queue, overflow, hand, accepted>> /\ LoopTypes' /\ HostTypes'
      BY <1>0, <1>11 DEF vars, transport, looping, LoopTypes, Receivers, HostTypes
    <2>2. QED
      BY <2>1, QuietKeeps
  <1>12. QED
    BY <1>1, <1>2, <1>3, <1>4, <1>5, <1>6, <1>7, <1>8, <1>9, <1>10, <1>11 DEF Next, Worker

\* Between any number of shards, with any capacity, budget, burst and faults, an
\* envelope the transport took is in exactly one channel or overflow lane until
\* it is delivered, or its channel or worker is gone, and no envelope is ever in
\* two places (route_remote_preserving_terminal, drain_terminal_overflow).
THEOREM EnvelopesNeverLost == TrafficAssumption => (Spec => []NeverLost)
  <1> SUFFICES ASSUME TrafficAssumption PROVE Spec => []NeverLost
    OBVIOUS
  <1>1. Init => TrafficInv
    BY Starts
  <1>2. TrafficInv /\ [Next]_vars => TrafficInv'
    BY Steps
  <1>3. TrafficInv => NeverLost
    BY InvIsEnough
  <1>4. QED
    BY <1>1, <1>2, <1>3, PTL DEF Spec

-----------------------------------------------------------------------------
(* What is under way on the stream.                                        *)

FrameKinds == {"request", "reply", "error"}
Numbers == Requests \cup {0}
Unit == [req : Numbers, kind : FrameKinds, part : {1, 2}]
Entry == [tag : Nat, units : Seq(Unit)]

\* What the driver has not taken of the write w, n units of which are written,
\* and all that is between the queue of s and the frames its peer has taken.
Rest(w, n) == SubSeq(w, (IF n > 0 THEN n ELSE 0) + 1, Len(w))
Way(a, b, w, n) == (a \o b) \o Rest(w, n)
Transit(s) == Way(inbound[Peer(s)], wire[s], writing[s], wrote[s])

\* Frames, the last one perhaps cut short, and whole frames only.
Aligned(S) ==
    \A k \in Nat :
       /\ 2*k + 1 <= Len(S) => S[2*k + 1].part = 1
       /\ 2*k + 2 <= Len(S) => /\ S[2*k + 2].part = 2 /\ S[2*k + 2].req = S[2*k + 1].req
                               /\ S[2*k + 2].kind = S[2*k + 1].kind
Even(S) == \E k \in Nat : Len(S) = 2*k

\* Requests on their way: no unit twice, and no request both here and queued; K
\* are those the server may still be given, F those in flight.
OnTheWay(S, K) ==
    /\ \A i \in 1 .. Len(S) : S[i].kind = "request" /\ S[i].req \in K
    /\ \A i, j \in 1 .. Len(S) : S[i].req = S[j].req /\ S[i].part = S[j].part => i = j
Queued(Q, K, F) ==
    /\ \A i \in 1 .. Len(Q) : /\ Q[i].tag \in K /\ Q[i].tag \in F
                              /\ Q[i].units = Encode(Q[i].tag, "request")
    /\ \A i, j \in 1 .. Len(Q) : Q[i].tag = Q[j].tag => i = j
Upstream(S, Q, K, F) ==
    /\ OnTheWay(S, K) /\ Queued(Q, K, F)
    /\ \A i \in 1 .. Len(S), j \in 1 .. Len(Q) : S[i].req # Q[j].tag

\* Answers on their way: R are the requests that were routed, and 0 if the server
\* has sent what no server may send.
AnswerFrame(x, R) ==
    \/ \E r \in Requests : x = Encode(r, "error") \/ (x = Encode(r, "reply") /\ r \in R)
    \/ x = Encode(0, "request") /\ 0 \in R
Downstream(S, Q, R) ==
    /\ \A i \in 1 .. Len(S) : \/ S[i].kind = "error" /\ S[i].req \in Requests
                              \/ S[i].kind = "reply" /\ S[i].req \in Requests \cap R
                              \/ S[i].kind = "request" /\ S[i].req = 0 /\ 0 \in R
    /\ \A i \in 1 .. Len(Q) : AnswerFrame(Q[i].units, R)
Answering(S, Q) ==
    {r \in Requests : \/ \E i \in 1 .. Len(S) : S[i].req = r
                      \/ \E i \in 1 .. Len(Q) : Q[i].units[1].req = r}

Answered == Answering(Transit("server"), writeQueue["server"])
Kept == {r \in 1 .. asked : /\ routed[r] = 0 /\ r \notin recalled /\ r \notin Answered
                            /\ result[r] \notin {<<"Full">>, <<"LocalEncodeFailed">>}}
Sendable == {r \in Requests : routed[r] = 1} \cup {n \in {0} : foul}

-----------------------------------------------------------------------------
(* The inductive invariant.                                                *)

SocketTypes ==
    /\ link \in LinkConfig
    /\ phase \in [Ends -> {"connecting", "open", "closing", "stopped"}]
    /\ writeQueue \in [Ends -> Seq(Entry)] /\ writing \in [Ends -> Seq(Unit)]
    /\ wire \in [Ends -> Seq(Unit)] /\ inbound \in [Ends -> Seq(Unit)]
    /\ wrote \in [Ends -> Int] /\ draining \in [Ends -> BOOLEAN]
    /\ \A s \in Ends : wrote[s] <= Len(writing[s]) /\ -1 <= wrote[s]
    /\ \A s \in Ends : writing[s] = <<>> => wrote[s] = 0
    /\ \A s \in Ends : Len(writeQueue[s]) <= link.queueCap[s] /\ Len(wire[s]) <= link.wireCap
    /\ phase["server"] # "connecting"
    /\ phase["client"] = "connecting" => writing["client"] = <<>>

\* What a requester may be told.
Words == {"Ok", "ServerError", "Timeout", "IoError", "ConnectionClosed", "Idle", "Full",
          "LocalEncodeFailed"}

RequestTypes ==
    /\ asked \in 0 .. MaxRequests /\ inFlight \in SUBSET (1 .. asked)
    /\ result \in [Requests -> Seq(Words)] /\ recalled \in SUBSET (1 .. asked)
    /\ overflowed \in BOOLEAN
    /\ routing \in SUBSET Requests /\ calls \in SUBSET Requests
    /\ routed \in [Requests -> Nat]

WholeWay(s) ==
    /\ ~Closed(Peer(s)) => Aligned(Transit(s))
    /\ ~Closed(Peer(s)) /\ ~Closed(s) => Even(Transit(s))

Books ==
    /\ OneResult /\ RoutedTruth /\ QueueSuffices /\ SlotsFreed
    /\ Cardinality(inFlight) <= link.inFlightCap["client"]
    /\ Cardinality(routing) <= link.inFlightCap["server"]
    /\ \A r \in Requests : r > asked => routed[r] = 0 /\ result[r] = <<>>
    /\ calls \subseteq Sendable /\ Answered \subseteq 1 .. asked
    /\ Closed("server") => routing = {}

RequestsFresh == Upstream(Transit("client"), writeQueue["client"], Kept, inFlight)
AnswersFresh == Downstream(Transit("server"), writeQueue["server"], Sendable)

RpcInv ==
    /\ SocketTypes /\ RequestTypes /\ Books
    /\ \A s \in Ends : WholeWay(s)
    /\ RequestsFresh /\ AnswersFresh

-----------------------------------------------------------------------------
(* Sequences of units.                                                     *)

\* T is a part of S that begins after d of its units.
Piece(T, S, d) == Len(T) + d <= Len(S) /\ \A i \in 1 .. Len(T) : T[i] = S[i + d]

LEMMA FrameUnits ==
    ASSUME NEW r \in Numbers, NEW k \in FrameKinds
    PROVE  /\ Encode(r, k) \in Seq(Unit) /\ Len(Encode(r, k)) = 2
           /\ \A i \in 1 .. 2 : /\ Encode(r, k)[i].req = r /\ Encode(r, k)[i].kind = k
                               /\ Encode(r, k)[i].part = i
  <1>1. [req |-> r, kind |-> k, part |-> 1] \in Unit /\ [req |-> r, kind |-> k, part |-> 2] \in Unit
    BY DEF Unit
  <1>2. Encode(r, k) \in Seq(Unit) /\ Len(Encode(r, k)) = 2
    BY <1>1 DEF Encode
  <1>3. /\ Encode(r, k)[1].req = r /\ Encode(r, k)[1].kind = k /\ Encode(r, k)[1].part = 1
        /\ Encode(r, k)[2].req = r /\ Encode(r, k)[2].kind = k /\ Encode(r, k)[2].part = 2
    BY DEF Encode
  <1>4. QED
    BY <1>2, <1>3

\* A frame is put at the end.
LEMMA Pushed ==
    ASSUME NEW S \in Seq(Unit), NEW r \in Numbers, NEW k \in FrameKinds
    PROVE  /\ S \o Encode(r, k) \in Seq(Unit) /\ Len(S \o Encode(r, k)) = Len(S) + 2
           /\ \A i \in 1 .. Len(S) : (S \o Encode(r, k))[i] = S[i]
           /\ \A i \in Len(S) + 1 .. Len(S) + 2 :
                 /\ (S \o Encode(r, k))[i].req = r /\ (S \o Encode(r, k))[i].kind = k
                 /\ (S \o Encode(r, k))[i].part = i - Len(S)
  <1> DEFINE f == Encode(r, k)
  <1>1. /\ f \in Seq(Unit) /\ Len(f) = 2
        /\ \A i \in 1 .. 2 : f[i].req = r /\ f[i].kind = k /\ f[i].part = i
    BY FrameUnits
  <1> HIDE DEF f
  <1>2. /\ S \o f \in Seq(Unit) /\ Len(S \o f) = Len(S) + 2 /\ Len(S) \in Nat
        /\ \A i \in 1 .. Len(S) + 2 : (S \o f)[i] = IF i <= Len(S) THEN S[i] ELSE f[i - Len(S)]
    BY <1>1, ConcatProperties
  <1>3. \A i \in 1 .. Len(S) : (S \o f)[i] = S[i]
    BY <1>1, <1>2
  <1>4. ASSUME NEW i \in Len(S) + 1 .. Len(S) + 2
        PROVE  (S \o f)[i].req = r /\ (S \o f)[i].kind = k /\ (S \o f)[i].part = i - Len(S)
    <2>1. i - Len(S) \in 1 .. 2 /\ (S \o f)[i] = f[i - Len(S)]
      BY <1>2
    <2>2. QED
      BY <1>1, <2>1
  <1>5. QED
    BY <1>2, <1>3, <1>4 DEF f

LEMMA AlignedPushed ==
    ASSUME NEW S \in Seq(Unit), NEW r \in Numbers, NEW k \in FrameKinds,
           Aligned(S), Even(S)
    PROVE  Aligned(S \o Encode(r, k)) /\ Even(S \o Encode(r, k))
  <1> DEFINE T == S \o Encode(r, k)
  <1>0. Len(S) \in Nat
    OBVIOUS
  <1>1. /\ Len(T) = Len(S) + 2 /\ \A i \in 1 .. Len(S) : T[i] = S[i]
        /\ \A i \in Len(S) + 1 .. Len(S) + 2 : T[i].req = r /\ T[i].kind = k /\ T[i].part = i - Len(S)
    BY Pushed
  <1> HIDE DEF T
  <1>2. PICK m \in Nat : Len(S) = 2*m
    BY DEF Even
  <1>3. ASSUME NEW h \in Nat
        PROVE  /\ 2*h + 1 <= Len(T) => T[2*h + 1].part = 1
               /\ 2*h + 2 <= Len(T) => /\ T[2*h + 2].part = 2 /\ T[2*h + 2].req = T[2*h + 1].req
                                       /\ T[2*h + 2].kind = T[2*h + 1].kind
    <2>1. CASE h < m
      <3>1. 2*h + 1 \in 1 .. Len(S) /\ 2*h + 2 \in 1 .. Len(S)
        BY <1>2, <2>1
      <3>2. T[2*h + 1] = S[2*h + 1] /\ T[2*h + 2] = S[2*h + 2]
        BY <1>1, <3>1
      <3>3. QED
        BY <1>0, <3>1, <3>2 DEF Aligned
    <2>2. CASE h = m
      <3>1. 2*h + 1 = Len(S) + 1 /\ 2*h + 2 = Len(S) + 2
        BY <1>2, <2>2
      <3>2. /\ Len(S) + 1 \in Len(S) + 1 .. Len(S) + 2 /\ Len(S) + 2 \in Len(S) + 1 .. Len(S) + 2
            /\ (Len(S) + 1) - Len(S) = 1 /\ (Len(S) + 2) - Len(S) = 2
        BY <1>0
      <3>3. /\ T[Len(S) + 1].req = r /\ T[Len(S) + 1].kind = k /\ T[Len(S) + 1].part = 1
            /\ T[Len(S) + 2].req = r /\ T[Len(S) + 2].kind = k /\ T[Len(S) + 2].part = 2
        BY <1>1, <3>2
      <3>4. QED
        BY <3>1, <3>3
    <2>3. CASE h > m
      BY <1>0, <1>1, <1>2, <2>3
    <2>4. QED
      BY <2>1, <2>2, <2>3
  <1>4. Aligned(T)
    BY <1>3 DEF Aligned
  <1>5. Even(T)
    <2>1. m + 1 \in Nat /\ Len(T) = 2*(m + 1)
      BY <1>1, <1>2
    <2>2. QED
      BY <2>1 DEF Even
  <1>6. QED
    BY <1>4, <1>5 DEF T

LEMMA AlignedCut ==
    ASSUME NEW S \in Seq(Unit), NEW T \in Seq(Unit), Piece(T, S, 0), Aligned(S)
    PROVE  Aligned(T)
  <1>1. Len(S) \in Nat /\ Len(T) \in Nat /\ Len(T) <= Len(S) /\ \A i \in 1 .. Len(T) : T[i] = S[i]
    BY DEF Piece
  <1>2. ASSUME NEW h \in Nat
        PROVE  /\ 2*h + 1 <= Len(T) => T[2*h + 1].part = 1
               /\ 2*h + 2 <= Len(T) => /\ T[2*h + 2].part = 2 /\ T[2*h + 2].req = T[2*h + 1].req
                                       /\ T[2*h + 2].kind = T[2*h + 1].kind
    <2>1. /\ 2*h + 1 <= Len(S) => S[2*h + 1].part = 1
          /\ 2*h + 2 <= Len(S) => /\ S[2*h + 2].part = 2 /\ S[2*h + 2].req = S[2*h + 1].req
                                  /\ S[2*h + 2].kind = S[2*h + 1].kind
      BY DEF Aligned
    <2>2. /\ 2*h + 1 <= Len(T) => T[2*h + 1] = S[2*h + 1]
          /\ 2*h + 2 <= Len(T) => T[2*h + 2] = S[2*h + 2]
      BY <1>1
    <2>3. QED
      BY <1>1, <2>1, <2>2
  <1>3. QED
    BY <1>2 DEF Aligned

LEMMA AlignedDropped ==
    ASSUME NEW S \in Seq(Unit), NEW T \in Seq(Unit), Piece(T, S, 2), Len(T) = Len(S) - 2, Aligned(S)
    PROVE  Aligned(T) /\ (Even(S) => Even(T))
  <1>1. Len(S) \in Nat /\ Len(T) \in Nat /\ \A i \in 1 .. Len(T) : T[i] = S[i + 2]
    BY DEF Piece
  <1>2. ASSUME NEW h \in Nat
        PROVE  /\ 2*h + 1 <= Len(T) => T[2*h + 1].part = 1
               /\ 2*h + 2 <= Len(T) => /\ T[2*h + 2].part = 2 /\ T[2*h + 2].req = T[2*h + 1].req
                                       /\ T[2*h + 2].kind = T[2*h + 1].kind
    <2>0. h + 1 \in Nat /\ 2*(h + 1) + 1 = 2*h + 3 /\ 2*(h + 1) + 2 = 2*h + 4
      OBVIOUS
    <2>1. /\ 2*h + 3 <= Len(S) => S[2*h + 3].part = 1
          /\ 2*h + 4 <= Len(S) => /\ S[2*h + 4].part = 2 /\ S[2*h + 4].req = S[2*h + 3].req
                                  /\ S[2*h + 4].kind = S[2*h + 3].kind
      BY <2>0 DEF Aligned
    <2>2. /\ 2*h + 1 <= Len(T) => T[2*h + 1] = S[2*h + 3]
          /\ 2*h + 2 <= Len(T) => T[2*h + 2] = S[2*h + 4]
      BY <1>1
    <2>3. QED
      BY <1>1, <2>1, <2>2
  <1>3. Aligned(T)
    BY <1>2 DEF Aligned
  <1>4. ASSUME Even(S) PROVE Even(T)
    <2>1. PICK m \in Nat : Len(S) = 2*m
      BY <1>4 DEF Even
    <2>2. m - 1 \in Nat /\ Len(T) = 2*(m - 1)
      BY <1>1, <2>1
    <2>3. QED
      BY <2>2 DEF Even
  <1>5. QED
    BY <1>3, <1>4

\* Any piece of what is on its way to the server may stay, and the queue may be
\* emptied.
LEMMA UpstreamPiece ==
    ASSUME NEW S \in Seq(Unit), NEW T \in Seq(Unit), NEW Q \in Seq(Entry), NEW K, NEW F,
           NEW d \in Nat, Piece(T, S, d), Upstream(S, Q, K, F)
    PROVE  Upstream(T, Q, K, F) /\ \A G : Upstream(T, <<>>, K, G)
  <1>1. Len(S) \in Nat /\ Len(T) \in Nat /\ Len(Q) \in Nat
    OBVIOUS
  <1>2. \A i \in 1 .. Len(T) : i + d \in 1 .. Len(S) /\ T[i] = S[i + d]
    BY <1>1 DEF Piece
  <1>3. OnTheWay(T, K)
    <2>1. \A i \in 1 .. Len(T) : T[i].kind = "request" /\ T[i].req \in K
      BY <1>2 DEF Upstream, OnTheWay
    <2>2. ASSUME NEW i \in 1 .. Len(T), NEW j \in 1 .. Len(T),
                 T[i].req = T[j].req, T[i].part = T[j].part
          PROVE  i = j
      <3>1. i + d = j + d
        BY <1>2, <2>2 DEF Upstream, OnTheWay
      <3>2. QED
        BY <3>1, <1>1
    <2>3. QED
      BY <2>1, <2>2 DEF OnTheWay
  <1>4. \A i \in 1 .. Len(T), j \in 1 .. Len(Q) : T[i].req # Q[j].tag
    BY <1>2 DEF Upstream
  <1>5. Len(<<>>) = 0
    OBVIOUS
  <1>6. QED
    BY <1>3, <1>4, <1>5 DEF Upstream, Queued

\* A frame leaves the queue for the stream.
LEMMA UpstreamPop ==
    ASSUME NEW S \in Seq(Unit), NEW Q \in Seq(Entry), NEW K \in SUBSET Requests, NEW F,
           Q # <<>>, Upstream(S, Q, K, F)
    PROVE  /\ \E r \in Requests : Head(Q).units = Encode(r, "request")
           /\ Upstream(S \o Head(Q).units, Tail(Q), K, F)
  <1> DEFINE r == Q[1].tag
             T == S \o Encode(r, "request")
  <1>1. /\ Len(Q) \in Nat \ {0} /\ Head(Q) = Q[1] /\ Len(S) \in Nat
        /\ Tail(Q) \in Seq(Entry) /\ Len(Tail(Q)) = Len(Q) - 1
        /\ \A i \in 1 .. Len(Tail(Q)) : Tail(Q)[i] = Q[i + 1]
    BY HeadTailProperties, EmptySeq
  <1>2. r \in K /\ r \in F /\ Q[1].units = Encode(r, "request") /\ r \in Requests
    BY <1>1 DEF Upstream, Queued
  <1>3. /\ Len(T) = Len(S) + 2 /\ \A i \in 1 .. Len(S) : T[i] = S[i]
        /\ \A i \in Len(S) + 1 .. Len(S) + 2 :
              T[i].req = r /\ T[i].kind = "request" /\ T[i].part = i - Len(S)
    <2>1. "request" \in FrameKinds
      BY DEF FrameKinds
    <2> DEFINE k == "request"
    <2>2. r \in Numbers /\ k \in FrameKinds
      BY <1>2, <2>1 DEF Numbers
    <2> HIDE DEF r, k
    <2>3. /\ Len(S \o Encode(r, k)) = Len(S) + 2
          /\ \A i \in 1 .. Len(S) : (S \o Encode(r, k))[i] = S[i]
          /\ \A i \in Len(S) + 1 .. Len(S) + 2 :
                /\ (S \o Encode(r, k))[i].req = r /\ (S \o Encode(r, k))[i].kind = k
                /\ (S \o Encode(r, k))[i].part = i - Len(S)
      BY <2>2, Pushed
    <2>4. QED
      BY <2>3 DEF k
  <1>4. \A i \in 1 .. Len(S) : S[i].req # r
    BY <1>1 DEF Upstream
  <1>5. \A i \in 1 .. Len(T) : i \in 1 .. Len(S) \/ i \in Len(S) + 1 .. Len(S) + 2
    BY <1>1, <1>3
  <1> HIDE DEF r, T
  <1>6. \A i \in 1 .. Len(T) : T[i].kind = "request" /\ T[i].req \in K
    BY <1>2, <1>3, <1>5 DEF Upstream, OnTheWay
  <1>7. ASSUME NEW i \in 1 .. Len(T), NEW j \in 1 .. Len(T), T[i].req = T[j].req, T[i].part = T[j].part
        PROVE  i = j
    <2>1. CASE i \in 1 .. Len(S) /\ j \in 1 .. Len(S)
      BY <1>3, <1>7, <2>1 DEF Upstream, OnTheWay
    <2>2. CASE i \in Len(S) + 1 .. Len(S) + 2 /\ j \in Len(S) + 1 .. Len(S) + 2
      <3>1. i - Len(S) = j - Len(S)
        BY <1>3, <1>7, <2>2
      <3>2. QED
        BY <3>1, <1>1, <2>2
    <2>3. CASE i \in 1 .. Len(S) /\ j \in Len(S) + 1 .. Len(S) + 2
      BY <1>3, <1>4, <1>7, <2>3
    <2>4. CASE j \in 1 .. Len(S) /\ i \in Len(S) + 1 .. Len(S) + 2
      BY <1>3, <1>4, <1>7, <2>4
    <2>5. QED
      BY <1>5, <2>1, <2>2, <2>3, <2>4
  <1>8. OnTheWay(T, K)
    BY <1>6, <1>7 DEF OnTheWay
  <1>9. \A i \in 1 .. Len(Tail(Q)) : i + 1 \in 1 .. Len(Q) /\ Tail(Q)[i] = Q[i + 1]
    BY <1>1
  <1>10. Queued(Tail(Q), K, F)
    <2>1. \A i \in 1 .. Len(Tail(Q)) :
             /\ Tail(Q)[i].tag \in K /\ Tail(Q)[i].tag \in F
             /\ Tail(Q)[i].units = Encode(Tail(Q)[i].tag, "request")
      BY <1>9 DEF Upstream, Queued
    <2>2. ASSUME NEW i \in 1 .. Len(Tail(Q)), NEW j \in 1 .. Len(Tail(Q)), Tail(Q)[i].tag = Tail(Q)[j].tag
          PROVE  i = j
      <3>1. i + 1 = j + 1
        BY <1>9, <2>2 DEF Upstream, Queued
      <3>2. QED
        BY <3>1, <1>1
    <2>3. QED
      BY <2>1, <2>2 DEF Queued
  <1>11. ASSUME NEW i \in 1 .. Len(T), NEW j \in 1 .. Len(Tail(Q)) PROVE T[i].req # Tail(Q)[j].tag
    <2>1. CASE i \in 1 .. Len(S)
      BY <1>3, <1>9, <2>1 DEF Upstream
    <2>2. CASE i \in Len(S) + 1 .. Len(S) + 2
      <3>1. T[i].req = r /\ Tail(Q)[j] = Q[j + 1] /\ j + 1 \in 1 .. Len(Q) /\ 1 \in 1 .. Len(Q) /\ j + 1 # 1
        BY <1>1, <1>3, <1>9, <2>2
      <3>2. QED
        BY <3>1 DEF Upstream, Queued, r
    <2>3. QED
      BY <1>5, <2>1, <2>2
  <1>12. Upstream(T, Tail(Q), K, F)
    BY <1>8, <1>10, <1>11 DEF Upstream
  <1>13. Head(Q).units = Encode(r, "request")
    BY <1>1, <1>2
  <1>14. QED
    BY <1>2, <1>12, <1>13 DEF T

\* A new request is queued.
LEMMA UpstreamPush ==
    ASSUME NEW S \in Seq(Unit), NEW Q \in Seq(Entry), NEW K \in SUBSET Requests, NEW F,
           NEW r \in Requests, r \notin K, Upstream(S, Q, K, F)
    PROVE  /\ Tagged(r, Encode(r, "request")) \in Entry
           /\ Upstream(S, Append(Q, Tagged(r, Encode(r, "request"))), K \cup {r}, F \cup {r})
  <1> DEFINE x == Tagged(r, Encode(r, "request"))
             P == Append(Q, x)
  <1>1. x \in Entry /\ x.tag = r /\ x.units = Encode(r, "request")
    <2>1. Encode(r, "request") \in Seq(Unit)
      <3>1. r \in Numbers /\ "request" \in FrameKinds
        BY DEF FrameKinds, Numbers
      <3>2. QED
        BY <3>1, FrameUnits
    <2>2. r \in Nat
      BY RpcAssumption DEF Requests
    <2>3. QED
      BY <2>1, <2>2 DEF Tagged, Entry
  <1> HIDE DEF x
  <1>2. /\ Len(Q) \in Nat /\ Len(P) = Len(Q) + 1 /\ P[Len(Q) + 1] = x
        /\ \A i \in 1 .. Len(Q) : P[i] = Q[i]
    BY <1>1, AppendProperties
  <1> HIDE DEF P
  <1>3. \A i \in 1 .. Len(P) : i \in 1 .. Len(Q) \/ i = Len(Q) + 1
    BY <1>2
  <1>4. \A i \in 1 .. Len(Q) : Q[i].tag # r
    BY DEF Upstream, Queued
  <1>5. \A i \in 1 .. Len(P) : /\ P[i].tag \in K \cup {r} /\ P[i].tag \in F \cup {r}
                               /\ P[i].units = Encode(P[i].tag, "request")
    BY <1>1, <1>2, <1>3 DEF Upstream, Queued
  <1>6. \A i, j \in 1 .. Len(P) : P[i].tag = P[j].tag => i = j
    BY <1>1, <1>2, <1>3, <1>4 DEF Upstream, Queued
  <1>7. OnTheWay(S, K \cup {r}) /\ \A i \in 1 .. Len(S) : S[i].req # r
    BY DEF Upstream, OnTheWay
  <1>8. \A i \in 1 .. Len(S), j \in 1 .. Len(P) : S[i].req # P[j].tag
    BY <1>1, <1>2, <1>3, <1>7 DEF Upstream
  <1>9. Upstream(S, P, K \cup {r}, F \cup {r})
    BY <1>5, <1>6, <1>7, <1>8 DEF Upstream, Queued
  <1>10. QED
    BY <1>1, <1>9 DEF P, x

\* The sets may change where no request on its way is concerned.
LEMMA UpstreamSets ==
    ASSUME NEW S, NEW Q, NEW K, NEW F, NEW L, NEW G, Upstream(S, Q, K, F),
           K \subseteq L, \A r \in K : r \in F => r \in G
    PROVE  Upstream(S, Q, L, G)
  BY DEF Upstream, OnTheWay, Queued

\* The server takes the first frame: its request is not on its way any more.
LEMMA UpstreamTake ==
    ASSUME NEW S \in Seq(Unit), NEW T \in Seq(Unit), NEW Q \in Seq(Entry), NEW K, NEW F,
           Piece(T, S, 2), Len(S) >= 2, Aligned(S), Upstream(S, Q, K, F)
    PROVE  S[1].req \in K /\ Upstream(T, Q, K \ {S[1].req}, F)
  <1>1. Len(S) \in Nat /\ Len(T) \in Nat /\ 1 \in 1 .. Len(S) /\ 2 \in 1 .. Len(S)
    OBVIOUS
  <1>2. \A i \in 1 .. Len(T) : i + 2 \in 1 .. Len(S) /\ i + 2 # 1 /\ i + 2 # 2 /\ T[i] = S[i + 2]
    BY <1>1 DEF Piece
  <1>3. S[1].part = 1 /\ S[2].part = 2 /\ S[2].req = S[1].req
    <2>1. 2*0 + 1 = 1 /\ 2*0 + 2 = 2 /\ 0 \in Nat
      OBVIOUS
    <2>2. QED
      BY <2>1, <1>1 DEF Aligned
  <1>4. \A i \in 1 .. Len(S) : S[i].part = 1 \/ S[i].part = 2
    <2>1. \A i \in 1 .. Len(S) : S[i] \in Unit
      OBVIOUS
    <2>2. QED
      BY <2>1 DEF Unit
  <1>5. \A i \in 1 .. Len(S) : S[i].req = S[1].req => i = 1 \/ i = 2
    BY <1>1, <1>3, <1>4 DEF Upstream, OnTheWay
  <1>6. \A i \in 1 .. Len(T) : T[i].req # S[1].req
    BY <1>2, <1>5
  <1>7. Upstream(T, Q, K, F)
    BY UpstreamPiece
  <1>8. S[1].req \in K /\ \A j \in 1 .. Len(Q) : Q[j].tag # S[1].req
    BY <1>1 DEF Upstream, OnTheWay
  <1>9. QED
    BY <1>6, <1>7, <1>8 DEF Upstream, OnTheWay, Queued

\* A deadline recalls the frame of r.
LEMMA UpstreamRecall ==
    ASSUME NEW S \in Seq(Unit), NEW Q \in Seq(Entry), NEW K, NEW F, NEW r,
           Upstream(S, Q, K, F), \E i \in DOMAIN Q : Q[i].tag = r
    PROVE  /\ Recall(Q, r) \in Seq(Entry) /\ Len(Recall(Q, r)) = Len(Q) - 1
           /\ Upstream(S, Recall(Q, r), K \ {r}, F \ {r})
  <1> DEFINE c == CHOOSE i \in DOMAIN Q : Q[i].tag = r
             A == SubSeq(Q, 1, c - 1)
             B == SubSeq(Q, c + 1, Len(Q))
             P == A \o B
  <1>1. c \in DOMAIN Q /\ Q[c].tag = r
    OBVIOUS
  <1> HIDE DEF c
  <1>2. Len(Q) \in Nat /\ DOMAIN Q = 1 .. Len(Q) /\ c \in 1 .. Len(Q)
    BY <1>1
  <1>3. /\ A \in Seq(Entry) /\ Len(A) = c - 1 /\ \A i \in 1 .. c - 1 : A[i] = Q[i]
    <2>1. \A i \in 1 .. c - 1 : Q[i] \in Entry
      BY <1>2
    <2>2. A \in Seq(Entry) /\ Len(A) = (IF 1 <= c - 1 THEN (c - 1) - 1 + 1 ELSE 0)
          /\ \A i \in 1 .. (c - 1) - 1 + 1 : A[i] = Q[1 + i - 1]
      BY <1>2, <2>1, SubSeqProperties
    <2>3. Len(A) = c - 1 /\ (c - 1) - 1 + 1 = c - 1
      <3> HIDE DEF A
      <3>1. QED
        BY <1>2, <2>2
    <2>4. ASSUME NEW i \in 1 .. c - 1 PROVE A[i] = Q[i]
      <3>1. 1 + i - 1 = i
        BY <1>2
      <3>2. QED
        BY <2>2, <2>3, <3>1
    <2>5. QED
      BY <2>2, <2>3, <2>4
  <1>4. /\ B \in Seq(Entry) /\ Len(B) = Len(Q) - c /\ \A i \in 1 .. Len(Q) - c : B[i] = Q[c + i]
    <2>1. \A i \in c + 1 .. Len(Q) : Q[i] \in Entry
      BY <1>2
    <2>2. B \in Seq(Entry) /\ Len(B) = (IF c + 1 <= Len(Q) THEN Len(Q) - (c + 1) + 1 ELSE 0)
          /\ \A i \in 1 .. Len(Q) - (c + 1) + 1 : B[i] = Q[(c + 1) + i - 1]
      BY <1>2, <2>1, SubSeqProperties
    <2>3. Len(B) = Len(Q) - c /\ Len(Q) - (c + 1) + 1 = Len(Q) - c
      <3>1. \A m \in Nat : \A n \in 1 .. m :
               /\ (IF n + 1 <= m THEN m - (n + 1) + 1 ELSE 0) = m - n
               /\ m - (n + 1) + 1 = m - n
        OBVIOUS
      <3> HIDE DEF B
      <3>2. QED
        BY <1>2, <2>2, <3>1
    <2>4. ASSUME NEW i \in 1 .. Len(Q) - c PROVE B[i] = Q[c + i]
      <3>1. (c + 1) + i - 1 = c + i
        BY <1>2
      <3>2. QED
        BY <2>2, <2>3, <3>1
    <2>5. QED
      BY <2>2, <2>3, <2>4
  <1> HIDE DEF A, B
  <1>5. /\ P \in Seq(Entry) /\ Len(P) = Len(Q) - 1
        /\ \A i \in 1 .. Len(P) : P[i] = IF i <= c - 1 THEN A[i] ELSE B[i - (c - 1)]
    <2>1. /\ P \in Seq(Entry) /\ Len(P) = Len(A) + Len(B)
          /\ \A i \in 1 .. Len(A) + Len(B) : P[i] = IF i <= Len(A) THEN A[i] ELSE B[i - Len(A)]
      BY <1>3, <1>4, ConcatProperties
    <2>2. Len(A) + Len(B) = Len(Q) - 1
      BY <1>2, <1>3, <1>4
    <2>3. QED
      BY <1>3, <2>1, <2>2
  <1> HIDE DEF P
  <1>6. \A i \in 1 .. Len(P) : \/ i < c /\ i \in 1 .. Len(Q) /\ P[i] = Q[i]
                               \/ i >= c /\ i + 1 \in 1 .. Len(Q) /\ P[i] = Q[i + 1]
    <2> SUFFICES ASSUME NEW i \in 1 .. Len(P)
                 PROVE  \/ i < c /\ i \in 1 .. Len(Q) /\ P[i] = Q[i]
                        \/ i >= c /\ i + 1 \in 1 .. Len(Q) /\ P[i] = Q[i + 1]
      OBVIOUS
    <2>1. CASE i < c
      BY <1>2, <1>3, <1>5, <2>1
    <2>2. CASE i >= c
      <3>1. i - (c - 1) \in 1 .. Len(Q) - c /\ c + (i - (c - 1)) = i + 1 /\ ~(i <= c - 1)
        BY <1>2, <1>5, <2>2
      <3>2. P[i] = B[i - (c - 1)]
        BY <1>5, <3>1
      <3>3. P[i] = Q[i + 1]
        BY <1>4, <3>1, <3>2
      <3>4. QED
        BY <1>2, <1>5, <2>2, <3>3
    <2>3. QED
      BY <1>2, <2>1, <2>2
  <1>7. \A i \in 1 .. Len(P) : \E j \in 1 .. Len(Q) : j # c /\ P[i] = Q[j]
    BY <1>2, <1>5, <1>6
  <1>8. \A j \in 1 .. Len(Q) : j # c => Q[j].tag # r
    BY <1>1, <1>2 DEF Upstream, Queued
  <1>9. \A i, j \in 1 .. Len(P) : P[i].tag = P[j].tag => i = j
    <2> SUFFICES ASSUME NEW i \in 1 .. Len(P), NEW j \in 1 .. Len(P), P[i].tag = P[j].tag PROVE i = j
      OBVIOUS
    <2> DEFINE m == IF i < c THEN i ELSE i + 1
               n == IF j < c THEN j ELSE j + 1
    <2>1. m \in 1 .. Len(Q) /\ P[i] = Q[m]
      BY <1>2, <1>6
    <2>2. n \in 1 .. Len(Q) /\ P[j] = Q[n]
      BY <1>2, <1>6
    <2>3. m = n
      BY <2>1, <2>2 DEF Upstream, Queued
    <2>4. QED
      BY <1>2, <1>5, <2>3
  <1>10. \A i \in 1 .. Len(P) : /\ P[i].tag \in K \ {r} /\ P[i].tag \in F \ {r}
                                /\ P[i].units = Encode(P[i].tag, "request")
    BY <1>7, <1>8 DEF Upstream, Queued
  <1>11. OnTheWay(S, K \ {r})
    <2>1. \A i \in 1 .. Len(S) : S[i].req # r
      BY <1>1, <1>2 DEF Upstream
    <2>2. QED
      BY <2>1 DEF Upstream, OnTheWay
  <1>12. \A i \in 1 .. Len(S), j \in 1 .. Len(P) : S[i].req # P[j].tag
    BY <1>7 DEF Upstream
  <1>13. Upstream(S, P, K \ {r}, F \ {r})
    BY <1>9, <1>10, <1>11, <1>12 DEF Upstream, Queued
  <1>14. Recall(Q, r) = P
    BY DEF Recall, RemoveAt, P, A, B, c
  <1>15. QED
    BY <1>5, <1>13, <1>14

\* Any piece of what is on its way to the client may stay, and the queue may be
\* emptied.
LEMMA DownstreamPiece ==
    ASSUME NEW S \in Seq(Unit), NEW T \in Seq(Unit), NEW Q \in Seq(Entry), NEW R,
           NEW d \in Nat, Piece(T, S, d), Downstream(S, Q, R)
    PROVE  /\ Downstream(T, Q, R) /\ Downstream(T, <<>>, R)
           /\ Answering(T, Q) \subseteq Answering(S, Q)
           /\ Answering(T, <<>>) \subseteq Answering(S, Q)
  <1>1. Len(S) \in Nat /\ Len(T) \in Nat /\ Len(<<>>) = 0
    OBVIOUS
  <1>2. \A i \in 1 .. Len(T) : i + d \in 1 .. Len(S) /\ T[i] = S[i + d]
    BY <1>1 DEF Piece
  <1>3. Downstream(T, Q, R) /\ Downstream(T, <<>>, R)
    BY <1>1, <1>2 DEF Downstream
  <1>4. Answering(T, Q) \subseteq Answering(S, Q)
    BY <1>2 DEF Answering
  <1>5. Answering(T, <<>>) \subseteq Answering(S, Q)
    <2>1. 1 .. Len(<<>>) = {}
      BY <1>1
    <2>2. QED
      BY <1>2, <2>1 DEF Answering
  <1>6. QED
    BY <1>3, <1>4, <1>5

\* An answer leaves the queue for the stream.
LEMMA DownstreamPop ==
    ASSUME NEW S \in Seq(Unit), NEW Q \in Seq(Entry), NEW R, Q # <<>>, Downstream(S, Q, R)
    PROVE  /\ \E r \in Numbers, k \in FrameKinds : Head(Q).units = Encode(r, k)
           /\ Downstream(S \o Head(Q).units, Tail(Q), R)
           /\ Answering(S \o Head(Q).units, Tail(Q)) \subseteq Answering(S, Q)
  <1>1. /\ Len(Q) \in Nat \ {0} /\ Head(Q) = Q[1] /\ Len(S) \in Nat
        /\ Tail(Q) \in Seq(Entry) /\ Len(Tail(Q)) = Len(Q) - 1
        /\ \A i \in 1 .. Len(Tail(Q)) : Tail(Q)[i] = Q[i + 1]
    BY HeadTailProperties, EmptySeq
  <1>2. AnswerFrame(Q[1].units, R) /\ 1 \in 1 .. Len(Q)
    BY <1>1 DEF Downstream
  <1>3. PICK r \in Numbers, k \in FrameKinds :
           /\ Q[1].units = Encode(r, k)
           /\ \/ k = "error" /\ r \in Requests
              \/ k = "reply" /\ r \in Requests \cap R
              \/ k = "request" /\ r = 0 /\ 0 \in R
    BY <1>2 DEF AnswerFrame, FrameKinds, Numbers
  <1> DEFINE T == S \o Encode(r, k)
  <1>4. /\ Len(T) = Len(S) + 2 /\ \A i \in 1 .. Len(S) : T[i] = S[i]
        /\ \A i \in Len(S) + 1 .. Len(S) + 2 : T[i].req = r /\ T[i].kind = k
    BY Pushed
  <1>5. \A i \in 1 .. Len(T) : i \in 1 .. Len(S) \/ i \in Len(S) + 1 .. Len(S) + 2
    BY <1>1, <1>4
  <1> HIDE DEF T
  <1>6. \A i \in 1 .. Len(T) :
           \/ T[i].kind = "error" /\ T[i].req \in Requests
           \/ T[i].kind = "reply" /\ T[i].req \in Requests \cap R
           \/ T[i].kind = "request" /\ T[i].req = 0 /\ 0 \in R
    BY <1>3, <1>4, <1>5 DEF Downstream
  <1>7. \A i \in 1 .. Len(Tail(Q)) : i + 1 \in 1 .. Len(Q) /\ Tail(Q)[i] = Q[i + 1]
    BY <1>1
  <1>8. Downstream(T, Tail(Q), R)
    BY <1>6, <1>7 DEF Downstream
  <1>9. Q[1].units[1].req = r
    BY <1>3, FrameUnits
  <1>10. Answering(T, Tail(Q)) \subseteq Answering(S, Q)
    <2> SUFFICES ASSUME NEW q \in Requests,
                        \/ \E i \in 1 .. Len(T) : T[i].req = q
                        \/ \E i \in 1 .. Len(Tail(Q)) : Tail(Q)[i].units[1].req = q
                 PROVE  \/ \E i \in 1 .. Len(S) : S[i].req = q
                        \/ \E i \in 1 .. Len(Q) : Q[i].units[1].req = q
      BY DEF Answering
    <2>1. CASE \E i \in 1 .. Len(T) : T[i].req = q
      BY <1>2, <1>4, <1>5, <1>9, <2>1
    <2>2. CASE \E i \in 1 .. Len(Tail(Q)) : Tail(Q)[i].units[1].req = q
      BY <1>7, <2>2
    <2>3. QED
      BY <2>1, <2>2
  <1>11. Head(Q).units = Encode(r, k)
    BY <1>1, <1>3
  <1>12. QED
    BY <1>8, <1>10, <1>11 DEF T

\* An answer is queued.
LEMMA DownstreamPush ==
    ASSUME NEW S \in Seq(Unit), NEW Q \in Seq(Entry), NEW R, NEW r \in Numbers,
           NEW k \in FrameKinds, AnswerFrame(Encode(r, k), R), Downstream(S, Q, R)
    PROVE  /\ Tagged(0, Encode(r, k)) \in Entry
           /\ Downstream(S, Append(Q, Tagged(0, Encode(r, k))), R)
           /\ Answering(S, Append(Q, Tagged(0, Encode(r, k)))) \subseteq Answering(S, Q) \cup {r}
  <1> DEFINE x == Tagged(0, Encode(r, k))
             P == Append(Q, x)
  <1>1. x \in Entry /\ x.units = Encode(r, k) /\ x.units[1].req = r
    <2>1. Encode(r, k) \in Seq(Unit) /\ Encode(r, k)[1].req = r
      BY FrameUnits
    <2>2. QED
      BY <2>1 DEF Tagged, Entry
  <1>2. AnswerFrame(x.units, R)
    BY <1>1
  <1> HIDE DEF x
  <1>3. /\ Len(Q) \in Nat /\ Len(P) = Len(Q) + 1 /\ P[Len(Q) + 1] = x
        /\ \A i \in 1 .. Len(Q) : P[i] = Q[i]
    BY <1>1, AppendProperties
  <1> HIDE DEF P
  <1>4. \A i \in 1 .. Len(P) : i \in 1 .. Len(Q) \/ i = Len(Q) + 1
    BY <1>3
  <1>5. Downstream(S, P, R)
    BY <1>2, <1>3, <1>4 DEF Downstream
  <1>6. Answering(S, P) \subseteq Answering(S, Q) \cup {r}
    BY <1>1, <1>3, <1>4 DEF Answering
  <1>7. QED
    BY <1>1, <1>5, <1>6 DEF P, x

LEMMA DownstreamSets ==
    ASSUME NEW S, NEW Q, NEW R, NEW Z, Downstream(S, Q, R), R \subseteq Z
    PROVE  Downstream(S, Q, Z)
  BY DEF Downstream, AnswerFrame

-----------------------------------------------------------------------------
(* How the parts of a stream move.                                         *)

LEMMA UnitsJoin ==
    /\ \A x, y \in Seq(Unit) : x \o y \in Seq(Unit)
    /\ \A x, y, z \in Seq(Unit) : (x \o y) \o z = x \o (y \o z)
  BY ConcatProperties, ConcatAssociative

LEMMA RestIs ==
    ASSUME NEW w \in Seq(Unit), NEW n \in Int, n <= Len(w)
    PROVE  /\ Rest(w, n) \in Seq(Unit)
           /\ Len(Rest(w, n)) = Len(w) - (IF n > 0 THEN n ELSE 0)
           /\ n <= 0 => Rest(w, n) = w
           /\ n > 0 => Rest(w, n) = SubSeq(w, n + 1, Len(w))
  <1> DEFINE m == IF n > 0 THEN n ELSE 0
  <1>1. m \in Nat /\ m <= Len(w) /\ Len(w) \in Nat
    OBVIOUS
  <1> HIDE DEF m
  <1>2. \A i \in m + 1 .. Len(w) : w[i] \in Unit
    BY <1>1
  <1>3. /\ SubSeq(w, m + 1, Len(w)) \in Seq(Unit)
        /\ Len(SubSeq(w, m + 1, Len(w))) = IF m + 1 <= Len(w) THEN Len(w) - (m + 1) + 1 ELSE 0
    BY <1>1, <1>2, SubSeqProperties
  <1>4. Len(SubSeq(w, m + 1, Len(w))) = Len(w) - m
    BY <1>1, <1>3
  <1>5. n <= 0 => m = 0 /\ SubSeq(w, 0 + 1, Len(w)) = w
    <2>1. 0 + 1 = 1
      OBVIOUS
    <2>2. QED
      BY <2>1, SubSeqFull DEF m
  <1>6. n > 0 => m = n
    BY DEF m
  <1>7. Rest(w, n) = SubSeq(w, m + 1, Len(w))
    BY DEF Rest, m
  <1>8. QED
    BY <1>3, <1>4, <1>5, <1>6, <1>7 DEF m

LEMMA WayIs ==
    ASSUME NEW a \in Seq(Unit), NEW b \in Seq(Unit), NEW w \in Seq(Unit), NEW n \in Int, n <= Len(w)
    PROVE  /\ Way(a, b, w, n) \in Seq(Unit)
           /\ Len(Way(a, b, w, n)) = Len(a) + Len(b) + Len(Rest(w, n))
           /\ \A i \in 1 .. Len(a) : Way(a, b, w, n)[i] = a[i]
           /\ Piece(a \o b, Way(a, b, w, n), 0)
           /\ Piece(Rest(w, n), Way(a, b, w, n), Len(a) + Len(b))
  <1>1. Rest(w, n) \in Seq(Unit)
    BY RestIs
  <1>2. /\ a \o b \in Seq(Unit) /\ Len(a \o b) = Len(a) + Len(b) /\ Len(a) \in Nat /\ Len(b) \in Nat
        /\ \A i \in 1 .. Len(a) + Len(b) : (a \o b)[i] = IF i <= Len(a) THEN a[i] ELSE b[i - Len(a)]
    BY ConcatProperties
  <1> DEFINE c == a \o b
             z == Rest(w, n)
  <1> HIDE DEF c, z
  <1>3. c \in Seq(Unit) /\ z \in Seq(Unit) /\ Len(c) \in Nat /\ Len(z) \in Nat
    BY <1>1, <1>2 DEF c, z
  <1>4. /\ c \o z \in Seq(Unit) /\ Len(c \o z) = Len(c) + Len(z)
        /\ \A i \in 1 .. Len(c) + Len(z) : (c \o z)[i] = IF i <= Len(c) THEN c[i] ELSE z[i - Len(c)]
    BY <1>3, ConcatProperties
  <1>5. Piece(c, c \o z, 0)
    BY <1>3, <1>4 DEF Piece
  <1>6. Piece(z, c \o z, Len(c))
    <2>1. ASSUME NEW i \in 1 .. Len(z) PROVE z[i] = (c \o z)[i + Len(c)]
      <3>1. i + Len(c) \in 1 .. Len(c) + Len(z) /\ ~(i + Len(c) <= Len(c)) /\ (i + Len(c)) - Len(c) = i
        BY <1>3
      <3>2. QED
        BY <1>4, <3>1
    <2>2. QED
      BY <1>3, <1>4, <2>1 DEF Piece
  <1>7. \A i \in 1 .. Len(a) : (c \o z)[i] = a[i]
    <2> SUFFICES ASSUME NEW i \in 1 .. Len(a) PROVE (c \o z)[i] = a[i]
      OBVIOUS
    <2>1. i \in 1 .. Len(a) + Len(b) /\ i <= Len(a) /\ Len(c) = Len(a) + Len(b)
      BY <1>2 DEF c
    <2>2. c[i] = a[i]
      BY <1>2, <2>1 DEF c
    <2>3. i \in 1 .. Len(c) + Len(z) /\ i <= Len(c)
      BY <1>2, <1>3, <2>1
    <2>4. QED
      BY <1>4, <2>2, <2>3
  <1>8. Way(a, b, w, n) = c \o z /\ Len(c) = Len(a) + Len(b)
    BY <1>2 DEF Way, c, z
  <1>9. QED
    BY <1>4, <1>5, <1>6, <1>7, <1>8 DEF c, z

\* The driver takes n units of a write.
LEMMA WayWritten ==
    ASSUME NEW a \in Seq(Unit), NEW b \in Seq(Unit), NEW w \in Seq(Unit), NEW n \in 1 .. Len(w)
    PROVE  /\ b \o SubSeq(w, 1, n) \in Seq(Unit) /\ Len(b \o SubSeq(w, 1, n)) = Len(b) + n
           /\ Way(a, b \o SubSeq(w, 1, n), w, n) = Way(a, b, w, 0)
  <1>1. Len(w) \in Nat /\ n \in Nat /\ n > 0 /\ n <= Len(w) /\ 0 <= Len(w)
    OBVIOUS
  <1> DEFINE x == SubSeq(w, 1, n)
             y == SubSeq(w, n + 1, Len(w))
  <1>2. x \in Seq(Unit) /\ Len(x) = n
    <2>1. \A i \in 1 .. n : w[i] \in Unit
      BY <1>1
    <2>2. x \in Seq(Unit) /\ Len(x) = IF 1 <= n THEN n - 1 + 1 ELSE 0
      BY <1>1, <2>1, SubSeqProperties
    <2>3. QED
      BY <1>1, <2>2
  <1>3. y \in Seq(Unit) /\ Rest(w, n) = y /\ Rest(w, 0) = w
    BY <1>1, RestIs
  <1>4. x \o y = w
    <2>1. 1 \in 1 .. Len(w) + 1 /\ n \in 1 - 1 .. Len(w) /\ Len(w) \in n .. Len(w)
      BY <1>1
    <2>2. SubSeq(w, 1, n) \o SubSeq(w, n + 1, Len(w)) = SubSeq(w, 1, Len(w))
      BY <2>1, ConcatAdjacentSubSeq
    <2>3. QED
      BY <2>2, SubSeqFull
  <1> HIDE DEF x, y
  <1>5. b \o x \in Seq(Unit) /\ Len(b \o x) = Len(b) + n
    BY <1>2, ConcatProperties
  <1>6. (a \o (b \o x)) \o y = (a \o b) \o (x \o y)
    <2>1. a \o (b \o x) = (a \o b) \o x /\ a \o b \in Seq(Unit)
      BY <1>2, UnitsJoin, Zenon
    <2>2. ((a \o b) \o x) \o y = (a \o b) \o (x \o y)
      <3> DEFINE p == a \o b
      <3>1. p \in Seq(Unit) /\ x \in Seq(Unit) /\ y \in Seq(Unit)
        BY <1>2, <1>3, <2>1
      <3> HIDE DEF p
      <3>2. (p \o x) \o y = p \o (x \o y)
        BY <3>1, UnitsJoin, Zenon
      <3>3. QED
        BY <3>2 DEF p
    <2>3. QED
      BY <2>1, <2>2
  <1>7. QED
    BY <1>3, <1>4, <1>5, <1>6 DEF Way, x

\* The peer reads n units.
LEMMA WayRead ==
    ASSUME NEW a \in Seq(Unit), NEW b \in Seq(Unit), NEW w, NEW m, NEW n \in 1 .. Len(b)
    PROVE  /\ a \o SubSeq(b, 1, n) \in Seq(Unit) /\ SubSeq(b, n + 1, Len(b)) \in Seq(Unit)
           /\ Len(SubSeq(b, n + 1, Len(b))) <= Len(b)
           /\ Way(a \o SubSeq(b, 1, n), SubSeq(b, n + 1, Len(b)), w, m) = Way(a, b, w, m)
  <1>1. Len(b) \in Nat /\ n \in Nat /\ n > 0 /\ n <= Len(b)
    OBVIOUS
  <1> DEFINE x == SubSeq(b, 1, n)
             y == SubSeq(b, n + 1, Len(b))
  <1>2. x \in Seq(Unit)
    <2>1. \A i \in 1 .. n : b[i] \in Unit
      BY <1>1
    <2>2. QED
      BY <1>1, <2>1, SubSeqProperties
  <1>3. y \in Seq(Unit) /\ Len(y) <= Len(b)
    <2>1. Rest(b, n) \in Seq(Unit) /\ Rest(b, n) = y /\ Len(Rest(b, n)) = Len(b) - n
      BY <1>1, RestIs
    <2>2. QED
      BY <1>1, <2>1
  <1>4. x \o y = b
    <2>1. 1 \in 1 .. Len(b) + 1 /\ n \in 1 - 1 .. Len(b) /\ Len(b) \in n .. Len(b)
      BY <1>1
    <2>2. SubSeq(b, 1, n) \o SubSeq(b, n + 1, Len(b)) = SubSeq(b, 1, Len(b))
      BY <2>1, ConcatAdjacentSubSeq
    <2>3. QED
      BY <2>2, SubSeqFull
  <1> HIDE DEF x, y
  <1>5. (a \o x) \o y = a \o (x \o y) /\ a \o x \in Seq(Unit)
    BY <1>2, <1>3, UnitsJoin, Zenon
  <1>6. QED
    BY <1>2, <1>3, <1>4, <1>5 DEF Way, x, y

\* A new write begins, and the tail of a short one.
LEMMA WayStarts ==
    ASSUME NEW a \in Seq(Unit), NEW b \in Seq(Unit), NEW f \in Seq(Unit)
    PROVE  Way(a, b, f, 0) = Way(a, b, <<>>, 0) \o f
  <1>1. <<>> \in Seq(Unit) /\ Len(<<>>) = 0 /\ a \o b \in Seq(Unit) /\ Len(f) \in Nat
    BY ConcatProperties
  <1>2. Rest(f, 0) = f /\ Rest(<<>>, 0) = <<>>
    <2>1. 0 \in Int /\ 0 <= 0 /\ 0 <= Len(f) /\ 0 <= Len(<<>>)
      BY <1>1
    <2>2. Rest(f, 0) = f
      BY <2>1, RestIs
    <2>3. Rest(<<>>, 0) = <<>>
      BY <1>1, <2>1, RestIs
    <2>4. QED
      BY <2>2, <2>3
  <1>3. (a \o b) \o <<>> = a \o b
    BY <1>1, ConcatEmptySeq
  <1>4. QED
    BY <1>2, <1>3 DEF Way

LEMMA WayTail ==
    ASSUME NEW a \in Seq(Unit), NEW b \in Seq(Unit), NEW w \in Seq(Unit), NEW n \in 1 .. Len(w)
    PROVE  /\ SubSeq(w, n + 1, Len(w)) \in Seq(Unit)
           /\ Way(a, b, SubSeq(w, n + 1, Len(w)), 0) = Way(a, b, w, n)
  <1> DEFINE y == SubSeq(w, n + 1, Len(w))
  <1>1. n \in Int /\ n > 0 /\ n <= Len(w)
    OBVIOUS
  <1>2. y \in Seq(Unit) /\ Rest(w, n) = y
    BY <1>1, RestIs
  <1> HIDE DEF y
  <1>3. Rest(y, 0) = y
    <2>1. 0 \in Int /\ 0 <= Len(y)
      BY <1>2
    <2>2. QED
      BY <1>2, <2>1, RestIs
  <1>4. QED
    BY <1>2, <1>3 DEF Way, y

\* The peer takes a frame.
LEMMA WayTaken ==
    ASSUME NEW a \in Seq(Unit), NEW b \in Seq(Unit), NEW w \in Seq(Unit), NEW n \in Int,
           n <= Len(w), Len(a) >= 2
    PROVE  /\ SubSeq(a, 3, Len(a)) \in Seq(Unit)
           /\ Way(SubSeq(a, 3, Len(a)), b, w, n) \in Seq(Unit)
           /\ Piece(Way(SubSeq(a, 3, Len(a)), b, w, n), Way(a, b, w, n), 2)
           /\ Len(Way(SubSeq(a, 3, Len(a)), b, w, n)) = Len(Way(a, b, w, n)) - 2
  <1> DEFINE c == SubSeq(a, 3, Len(a))
             x == SubSeq(a, 1, 2)
             z == Rest(w, n)
  <1>0. Len(a) \in Nat /\ z \in Seq(Unit)
    BY RestIs
  <1>1. c \in Seq(Unit) /\ x \in Seq(Unit) /\ Len(x) = 2
    <2>1. (\A i \in 3 .. Len(a) : a[i] \in Unit) /\ (\A i \in 1 .. 2 : a[i] \in Unit)
      BY <1>0
    <2>2. c \in Seq(Unit)
      BY <1>0, <2>1, SubSeqProperties
    <2>3. x \in Seq(Unit) /\ Len(x) = IF 1 <= 2 THEN 2 - 1 + 1 ELSE 0
      BY <2>1, SubSeqProperties
    <2>4. QED
      BY <2>2, <2>3
  <1>2. x \o c = a
    <2>1. 1 \in 1 .. Len(a) + 1 /\ 2 \in 1 - 1 .. Len(a) /\ Len(a) \in 2 .. Len(a) /\ 2 + 1 = 3
      BY <1>0
    <2>2. SubSeq(a, 1, 2) \o SubSeq(a, 2 + 1, Len(a)) = SubSeq(a, 1, Len(a))
      BY <2>1, ConcatAdjacentSubSeq
    <2>3. QED
      BY <2>1, <2>2, SubSeqFull
  <1> HIDE DEF c, x, z
  <1> DEFINE t == (c \o b) \o z
  <1>3. t \in Seq(Unit) /\ c \o b \in Seq(Unit)
    BY <1>0, <1>1, ConcatProperties
  <1>4. (a \o b) \o z = x \o t
    <2>1. (x \o c) \o b = x \o (c \o b)
      BY <1>1, UnitsJoin, Zenon
    <2>2. (x \o (c \o b)) \o z = x \o t
      <3> DEFINE p == c \o b
      <3>1. p \in Seq(Unit) /\ x \in Seq(Unit) /\ z \in Seq(Unit)
        BY <1>0, <1>1, <1>3 DEF z
      <3> HIDE DEF p
      <3>2. (x \o p) \o z = x \o (p \o z)
        BY <3>1, UnitsJoin, ZenonT(30)
      <3>3. QED
        BY <3>2 DEF p, t
    <2>3. QED
      BY <1>2, <2>1, <2>2
  <1> HIDE DEF t
  <1>5. /\ Len(x \o t) = 2 + Len(t) /\ Len(t) \in Nat
        /\ \A i \in 1 .. 2 + Len(t) : (x \o t)[i] = IF i <= 2 THEN x[i] ELSE t[i - 2]
    <2>1. /\ Len(x \o t) = Len(x) + Len(t)
          /\ \A i \in 1 .. Len(x) + Len(t) : (x \o t)[i] = IF i <= Len(x) THEN x[i] ELSE t[i - Len(x)]
      BY <1>1, <1>3, ConcatProperties
    <2>2. QED
      BY <1>1, <1>3, <2>1
  <1>6. ASSUME NEW i \in 1 .. Len(t) PROVE t[i] = (x \o t)[i + 2]
    <2>1. i + 2 \in 1 .. 2 + Len(t) /\ ~(i + 2 <= 2) /\ (i + 2) - 2 = i
      BY <1>5
    <2>2. QED
      BY <1>5, <2>1
  <1>7. Piece(t, x \o t, 2) /\ Len(t) = Len(x \o t) - 2
    BY <1>5, <1>6 DEF Piece
  <1>8. Way(c, b, w, n) = t /\ Way(a, b, w, n) = x \o t
    BY <1>4 DEF Way, t, z
  <1>9. QED
    BY <1>1, <1>3, <1>7, <1>8 DEF c

\* The sender or the reader closes.
LEMMA WayCut ==
    ASSUME NEW a \in Seq(Unit), NEW b \in Seq(Unit), NEW w \in Seq(Unit), NEW n \in Int, n <= Len(w)
    PROVE  /\ Way(a, b, <<>>, 0) \in Seq(Unit) /\ Piece(Way(a, b, <<>>, 0), Way(a, b, w, n), 0)
           /\ Way(<<>>, <<>>, w, n) \in Seq(Unit)
           /\ Piece(Way(<<>>, <<>>, w, n), Way(a, b, w, n), Len(a) + Len(b))
           /\ Len(a) + Len(b) \in Nat
  <1>1. /\ <<>> \in Seq(Unit) /\ Len(<<>>) = 0 /\ 0 \in Int /\ Len(a) + Len(b) \in Nat
    OBVIOUS
  <1>2. a \o b \in Seq(Unit) /\ Rest(w, n) \in Seq(Unit)
    BY UnitsJoin, RestIs
  <1>3. Way(a, b, <<>>, 0) = a \o b
    <2>1. Rest(<<>>, 0) = <<>>
      <3>1. SubSeq(<<>>, 1, 0) = <<>>
        BY SubSeqEmpty
      <3>2. QED
        BY <1>1, <3>1 DEF Rest
    <2>2. (a \o b) \o <<>> = a \o b
      BY <1>2, ConcatEmptySeq
    <2>3. QED
      BY <2>1, <2>2 DEF Way
  <1>4. Way(<<>>, <<>>, w, n) = Rest(w, n)
    <2>1. <<>> \o <<>> = <<>> /\ <<>> \o Rest(w, n) = Rest(w, n)
      BY <1>1, <1>2, ConcatEmptySeq
    <2>2. QED
      BY <2>1 DEF Way
  <1>5. /\ Piece(a \o b, Way(a, b, w, n), 0) /\ Piece(Rest(w, n), Way(a, b, w, n), Len(a) + Len(b))
    BY WayIs
  <1>6. QED
    BY <1>1, <1>2, <1>3, <1>4, <1>5

-----------------------------------------------------------------------------
(* What each operation does to the two directions.                         *)

LEMMA PeerIs == \A s \in Ends : Peer(s) \in Ends /\ Peer(s) # s /\ Peer(Peer(s)) = s
  BY DEF Ends, Peer

LEMMA EndsAre == \A s, t \in Ends : t = s \/ t = Peer(s)
  BY DEF Ends, Peer

LEMMA SocketParts ==
    ASSUME SocketTypes, NEW s \in Ends
    PROVE  /\ writeQueue[s] \in Seq(Entry) /\ writing[s] \in Seq(Unit) /\ wire[s] \in Seq(Unit)
           /\ inbound[s] \in Seq(Unit) /\ wrote[s] \in Int /\ -1 <= wrote[s]
           /\ wrote[s] <= Len(writing[s]) /\ (writing[s] = <<>> => wrote[s] = 0)
           /\ link.wireCap \in Nat /\ link.queueCap[s] \in Nat /\ Len(writeQueue[s]) <= link.queueCap[s]
           /\ Len(wire[s]) <= link.wireCap /\ Transit(s) \in Seq(Unit)
  <1>1. Peer(s) \in Ends
    BY PeerIs
  <1>2. /\ writeQueue[s] \in Seq(Entry) /\ writing[s] \in Seq(Unit) /\ wire[s] \in Seq(Unit)
        /\ inbound[s] \in Seq(Unit) /\ inbound[Peer(s)] \in Seq(Unit) /\ wrote[s] \in Int
        /\ -1 <= wrote[s] /\ wrote[s] <= Len(writing[s]) /\ (writing[s] = <<>> => wrote[s] = 0)
        /\ Len(writeQueue[s]) <= link.queueCap[s] /\ Len(wire[s]) <= link.wireCap
    BY <1>1 DEF SocketTypes
  <1>3. link.wireCap \in Nat /\ link.queueCap[s] \in Nat
    BY DEF SocketTypes, LinkConfig
  <1>4. Transit(s) \in Seq(Unit)
    BY <1>2, WayIs DEF Transit
  <1>5. QED
    BY <1>2, <1>3, <1>4

SameClosed == \A t \in Ends : Closed(t)' <=> Closed(t)

\* The stream moves on, or an end that is closing stops.
LEMMA DriverWritesMoves ==
    ASSUME SocketTypes, NEW s \in Ends, DriverWrites(s), link' = link
    PROVE  /\ SocketTypes' /\ writeQueue' = writeQueue /\ SameClosed
           /\ \A t \in Ends : Transit(t)' = Transit(t)
  <1>1. PICK n \in 1 .. Len(writing[s]) :
           /\ Len(wire[s]) + n <= link.wireCap
           /\ wire' = [wire EXCEPT ![s] = wire[s] \o SubSeq(writing[s], 1, n)]
           /\ wrote' = [wrote EXCEPT ![s] = n]
    BY DEF DriverWrites
  <1>2. /\ UNCHANGED <<phase, writeQueue, writing, inbound, draining, active>>
        /\ wrote[s] = 0 /\ writing[s] # <<>> /\ phase[s] = "open"
    BY DEF DriverWrites
  <1>3. /\ wire[s] \in Seq(Unit) /\ writing[s] \in Seq(Unit) /\ inbound[Peer(s)] \in Seq(Unit)
        /\ Len(writing[s]) \in Nat
    BY SocketParts, PeerIs
  <1>4. /\ wire[s] \o SubSeq(writing[s], 1, n) \in Seq(Unit)
        /\ Len(wire[s] \o SubSeq(writing[s], 1, n)) = Len(wire[s]) + n
        /\ Way(inbound[Peer(s)], wire[s] \o SubSeq(writing[s], 1, n), writing[s], n)
             = Way(inbound[Peer(s)], wire[s], writing[s], 0)
    BY <1>3, WayWritten
  <1>5. \A t \in Ends : /\ wire'[t] = IF t = s THEN wire[s] \o SubSeq(writing[s], 1, n) ELSE wire[t]
                        /\ wrote'[t] = IF t = s THEN n ELSE wrote[t]
    BY <1>1 DEF SocketTypes
  <1>6. \A t \in Ends : Transit(t)' = Transit(t)
    <2> SUFFICES ASSUME NEW t \in Ends PROVE Transit(t)' = Transit(t)
      OBVIOUS
    <2>1. Transit(t)' = Way(inbound[Peer(t)], wire'[t], writing[t], wrote'[t])
      BY <1>2 DEF Transit
    <2>2. CASE t = s
      BY <1>2, <1>4, <1>5, <2>1, <2>2 DEF Transit
    <2>3. CASE t # s
      BY <1>5, <2>1, <2>3 DEF Transit
    <2>4. QED
      BY <2>2, <2>3
  <1>7. SocketTypes'
    <2>1. wire' \in [Ends -> Seq(Unit)] /\ wrote' \in [Ends -> Int]
      <3>1. n \in Int
        BY <1>3
      <3>2. QED
        BY <1>1, <1>4, <3>1 DEF SocketTypes
    <2>2. \A t \in Ends : /\ wrote'[t] <= Len(writing[t]) /\ -1 <= wrote'[t]
                          /\ (writing[t] = <<>> => wrote'[t] = 0)
                          /\ Len(writeQueue[t]) <= link.queueCap[t] /\ Len(wire'[t]) <= link.wireCap
      BY <1>1, <1>2, <1>3, <1>4, <1>5, SocketParts
    <2>3. QED
      BY <1>2, <2>1, <2>2 DEF SocketTypes
  <1>8. SameClosed
    BY <1>2 DEF SameClosed, Closed
  <1>9. QED
    BY <1>2, <1>6, <1>7, <1>8

LEMMA DriverFailsMoves ==
    ASSUME SocketTypes, NEW s \in Ends, DriverFails(s), link' = link
    PROVE  /\ SocketTypes' /\ writeQueue' = writeQueue /\ SameClosed
           /\ \A t \in Ends : Transit(t)' = Transit(t)
  <1>1. /\ UNCHANGED <<phase, writeQueue, writing, wire, inbound, draining, active>>
        /\ wrote' = [wrote EXCEPT ![s] = -1] /\ wrote[s] = 0 /\ writing[s] # <<>>
    BY DEF DriverFails
  <1>2. \A t \in Ends : wrote'[t] = IF t = s THEN -1 ELSE wrote[t]
    BY <1>1 DEF SocketTypes
  <1>3. \A t \in Ends : Transit(t)' = Transit(t)
    <2> SUFFICES ASSUME NEW t \in Ends PROVE Transit(t)' = Transit(t)
      OBVIOUS
    <2>1. Transit(t)' = Way(inbound[Peer(t)], wire[t], writing[t], wrote'[t])
      BY <1>1 DEF Transit
    <2>2. Rest(writing[t], wrote'[t]) = Rest(writing[t], wrote[t])
      <3>1. CASE t = s
        <4>1. wrote'[t] = -1 /\ wrote[t] = 0
          BY <1>1, <1>2, <3>1
        <4>2. (IF wrote'[t] > 0 THEN wrote'[t] ELSE 0) = 0 /\ (IF wrote[t] > 0 THEN wrote[t] ELSE 0) = 0
          BY <4>1
        <4>3. QED
          BY <4>2 DEF Rest
      <3>2. CASE t # s
        BY <1>2, <3>2
      <3>3. QED
        BY <3>1, <3>2
    <2>3. QED
      BY <2>1, <2>2 DEF Transit, Way
  <1>4. SocketTypes'
    <2>1. wrote' \in [Ends -> Int]
      BY <1>1 DEF SocketTypes
    <2>2. \A t \in Ends : /\ wrote'[t] <= Len(writing[t]) /\ -1 <= wrote'[t]
                          /\ (writing[t] = <<>> => wrote'[t] = 0)
      <3>1. \A t \in Ends : Len(writing[t]) \in Nat
        BY SocketParts
      <3>2. QED
        BY <1>1, <1>2, <3>1, SocketParts
    <2>3. QED
      BY <1>1, <2>1, <2>2 DEF SocketTypes
  <1>5. SameClosed
    BY <1>1 DEF SameClosed, Closed
  <1>6. QED
    BY <1>1, <1>3, <1>4, <1>5

LEMMA OnReadMoves ==
    ASSUME SocketTypes, NEW s \in Ends, OnRead(s), link' = link
    PROVE  /\ SocketTypes' /\ writeQueue' = writeQueue /\ SameClosed
           /\ \A t \in Ends : Transit(t)' = Transit(t)
  <1> DEFINE p == Peer(s)
  <1>0. p \in Ends /\ p # s /\ Peer(p) = s
    BY PeerIs
  <1> HIDE DEF p
  <1>1. PICK n \in 1 .. link.readChunk :
           /\ n <= Len(wire[p])
           /\ inbound' = [inbound EXCEPT ![s] = inbound[s] \o SubSeq(wire[p], 1, n)]
           /\ wire' = [wire EXCEPT ![p] = SubSeq(wire[p], n + 1, Len(wire[p]))]
    BY DEF OnRead, p
  <1>2. /\ UNCHANGED <<phase, writeQueue, writing, wrote>>
        /\ draining' = [draining EXCEPT ![s] = TRUE]
    BY DEF OnRead
  <1>3. inbound[s] \in Seq(Unit) /\ wire[p] \in Seq(Unit) /\ n \in 1 .. Len(wire[p])
    <2>1. inbound[s] \in Seq(Unit) /\ wire[p] \in Seq(Unit) /\ Len(wire[p]) \in Nat
      BY <1>0, SocketParts
    <2>2. QED
      BY <1>1, <2>1
  <1>4. /\ inbound[s] \o SubSeq(wire[p], 1, n) \in Seq(Unit)
        /\ SubSeq(wire[p], n + 1, Len(wire[p])) \in Seq(Unit)
        /\ Len(SubSeq(wire[p], n + 1, Len(wire[p]))) <= Len(wire[p])
        /\ \A w, m : Way(inbound[s] \o SubSeq(wire[p], 1, n), SubSeq(wire[p], n + 1, Len(wire[p])), w, m)
                       = Way(inbound[s], wire[p], w, m)
    BY <1>3, WayRead
  <1>5. \A t \in Ends :
           /\ inbound'[t] = IF t = s THEN inbound[s] \o SubSeq(wire[p], 1, n) ELSE inbound[t]
           /\ wire'[t] = IF t = p THEN SubSeq(wire[p], n + 1, Len(wire[p])) ELSE wire[t]
    BY <1>1 DEF SocketTypes
  <1>6. \A t \in Ends : Transit(t)' = Transit(t)
    <2> SUFFICES ASSUME NEW t \in Ends PROVE Transit(t)' = Transit(t)
      OBVIOUS
    <2>0. Peer(t) \in Ends
      BY PeerIs
    <2>1. Transit(t)' = Way(inbound'[Peer(t)], wire'[t], writing[t], wrote[t])
      BY <1>2 DEF Transit
    <2>2. CASE t = p
      <3>1. /\ inbound'[Peer(t)] = inbound[s] \o SubSeq(wire[p], 1, n)
            /\ wire'[t] = SubSeq(wire[p], n + 1, Len(wire[p]))
        BY <1>0, <1>5, <2>2
      <3>2. Transit(t) = Way(inbound[s], wire[p], writing[t], wrote[t])
        BY <1>0, <2>2 DEF Transit
      <3>3. QED
        BY <1>4, <2>1, <3>1, <3>2
    <2>3. CASE t = s
      <3>1. inbound'[Peer(t)] = inbound[Peer(t)] /\ wire'[t] = wire[t]
        BY <1>0, <1>5, <2>3 DEF p
      <3>2. QED
        BY <2>1, <3>1 DEF Transit
    <2>4. QED
      BY <2>2, <2>3, EndsAre DEF p
  <1>7. SocketTypes'
    <2>1. wire' \in [Ends -> Seq(Unit)] /\ inbound' \in [Ends -> Seq(Unit)] /\ draining' \in [Ends -> BOOLEAN]
      BY <1>0, <1>1, <1>2, <1>4 DEF SocketTypes
    <2>2. \A t \in Ends : Len(wire'[t]) <= link.wireCap
      <3>1. \A t \in Ends : Len(wire[t]) \in Nat /\ Len(wire[t]) <= link.wireCap /\ link.wireCap \in Nat
        BY SocketParts
      <3>2. Len(SubSeq(wire[p], n + 1, Len(wire[p]))) \in Nat
        BY <1>4
      <3>3. Len(SubSeq(wire[p], n + 1, Len(wire[p]))) <= link.wireCap
        BY <1>0, <1>4, <3>1, <3>2
      <3>4. QED
        BY <1>5, <3>1, <3>3
    <2>3. QED
      BY <1>2, <2>1, <2>2 DEF SocketTypes
  <1>8. SameClosed
    BY <1>2 DEF SameClosed, Closed
  <1>9. QED
    BY <1>2, <1>6, <1>7, <1>8

LEMMA StreamClosedMoves ==
    ASSUME SocketTypes, NEW s \in Ends, StreamClosed(s) \/ IdleRearms(s), link' = link
    PROVE  /\ SocketTypes' /\ writeQueue' = writeQueue /\ SameClosed
           /\ \A t \in Ends : Transit(t)' = Transit(t)
  <1>1. UNCHANGED <<writeQueue, writing, wrote, wire, inbound, draining>>
    BY DEF StreamClosed, IdleRearms
  <1>2. \/ phase[s] = "closing" /\ phase' = [phase EXCEPT ![s] = "stopped"]
        \/ phase' = phase
    BY DEF StreamClosed, IdleRearms
  <1>3. \A t \in Ends : Transit(t)' = Transit(t)
    BY <1>1 DEF Transit
  <1>4. \A t \in Ends : \/ phase'[t] = phase[t]
                        \/ phase[t] = "closing" /\ phase'[t] = "stopped"
    BY <1>2 DEF SocketTypes
  <1>5. phase' \in [Ends -> {"connecting", "open", "closing", "stopped"}]
    BY <1>2 DEF SocketTypes
  <1>6. SocketTypes'
    BY <1>1, <1>4, <1>5 DEF SocketTypes, Ends
  <1>7. SameClosed
    BY <1>4 DEF SameClosed, Closed
  <1>8. QED
    BY <1>1, <1>3, <1>6, <1>7

\* The handler leaves the queue q; its first frame may be written at once.
Sends(s, q) ==
    /\ SameClosed
    /\ writeQueue'[Peer(s)] = writeQueue[Peer(s)] /\ Transit(Peer(s))' = Transit(Peer(s))
    /\ \/ writeQueue'[s] = q /\ Transit(s)' = Transit(s)
       \/ /\ ~Closed(s) /\ q # <<>> /\ writeQueue'[s] = Tail(q)
          /\ Transit(s)' = Transit(s) \o Head(q).units

\* maybe_start_write on the queue q, w being what remains of the write in flight.
LEMMA StartWriteSends ==
    ASSUME SocketTypes, NEW s \in Ends, NEW q \in Seq(Entry), NEW w \in Seq(Unit),
           StartWrite(s, q, w), link' = link, Len(q) <= link.queueCap[s],
           phase \in [Ends -> {"connecting", "open", "closing", "stopped"}],
           phase[s] = "connecting" => w = <<>>,
           UNCHANGED <<phase, wire, inbound>>, draining' \in [Ends -> BOOLEAN],
           wrote' = [wrote EXCEPT ![s] = wrote'[s]], wrote'[s] \in Int,
           -1 <= wrote'[s], wrote'[s] <= Len(w), w = <<>> => wrote'[s] = 0,
           Way(inbound[Peer(s)], wire[s], w, wrote'[s]) = Transit(s)
    PROVE  SocketTypes' /\ Sends(s, q)
  <1> DEFINE p == Peer(s)
  <1>0. p \in Ends /\ p # s /\ Peer(p) = s
    BY PeerIs
  <1> HIDE DEF p
  <1>1. \A t \in Ends : t # s => wrote'[t] = wrote[t]
    BY DEF SocketTypes
  <1>2. wrote' \in [Ends -> Int]
    BY DEF SocketTypes
  <1>3. SameClosed
    BY DEF SameClosed, Closed
  <1>4. CASE w # <<>> \/ q = <<>> \/ phase[s] # "open"
    <2>1. writeQueue' = [writeQueue EXCEPT ![s] = q] /\ writing' = [writing EXCEPT ![s] = w]
      BY <1>4 DEF StartWrite
    <2>2. \A t \in Ends : /\ writeQueue'[t] = IF t = s THEN q ELSE writeQueue[t]
                          /\ writing'[t] = IF t = s THEN w ELSE writing[t]
      BY <2>1 DEF SocketTypes
    <2>3. writeQueue' \in [Ends -> Seq(Entry)] /\ writing' \in [Ends -> Seq(Unit)]
      BY <2>1 DEF SocketTypes
    <2>4. \A t \in Ends : /\ wrote'[t] <= Len(writing'[t]) /\ -1 <= wrote'[t]
                          /\ (writing'[t] = <<>> => wrote'[t] = 0)
                          /\ Len(writeQueue'[t]) <= link.queueCap[t] /\ Len(wire[t]) <= link.wireCap
      BY <1>1, <2>2, SocketParts
    <2>5. phase["client"] = "connecting" => writing'["client"] = <<>>
      BY <2>2 DEF SocketTypes, Ends
    <2>6. SocketTypes'
      BY <1>2, <2>3, <2>4, <2>5 DEF SocketTypes
    <2>7. Transit(s)' = Way(inbound[Peer(s)], wire[s], w, wrote'[s])
      BY <2>2 DEF Transit
    <2>8. Transit(p)' = Transit(p)
      BY <1>0, <1>1, <2>2 DEF Transit
    <2>9. QED
      BY <1>0, <1>3, <2>2, <2>6, <2>7, <2>8 DEF Sends, p
  <1>5. CASE ~(w # <<>> \/ q = <<>> \/ phase[s] # "open")
    <2>0. w = <<>> /\ wrote'[s] = 0 /\ q # <<>> /\ phase[s] = "open"
      BY <1>5
    <2>1. writeQueue' = [writeQueue EXCEPT ![s] = Tail(q)] /\ writing' = [writing EXCEPT ![s] = Head(q).units]
      BY <1>5 DEF StartWrite
    <2>2. \A t \in Ends : /\ writeQueue'[t] = IF t = s THEN Tail(q) ELSE writeQueue[t]
                          /\ writing'[t] = IF t = s THEN Head(q).units ELSE writing[t]
      BY <2>1 DEF SocketTypes
    <2>3. Head(q) \in Entry /\ Tail(q) \in Seq(Entry) /\ Len(Tail(q)) = Len(q) - 1 /\ Len(q) \in Nat
      BY <2>0, HeadTailProperties
    <2>4. Head(q).units \in Seq(Unit)
      BY <2>3 DEF Entry
    <2>5. writeQueue' \in [Ends -> Seq(Entry)] /\ writing' \in [Ends -> Seq(Unit)]
      BY <2>1, <2>3, <2>4 DEF SocketTypes
    <2>6. Len(Head(q).units) \in Nat /\ Len(Tail(q)) <= link.queueCap[s] /\ link.queueCap[s] \in Nat
      BY <2>3, <2>4, SocketParts
    <2>7. \A t \in Ends : /\ wrote'[t] <= Len(writing'[t]) /\ -1 <= wrote'[t]
                          /\ (writing'[t] = <<>> => wrote'[t] = 0)
                          /\ Len(writeQueue'[t]) <= link.queueCap[t] /\ Len(wire[t]) <= link.wireCap
      <3> SUFFICES ASSUME NEW t \in Ends
                   PROVE  /\ wrote'[t] <= Len(writing'[t]) /\ -1 <= wrote'[t]
                          /\ (writing'[t] = <<>> => wrote'[t] = 0)
                          /\ Len(writeQueue'[t]) <= link.queueCap[t] /\ Len(wire[t]) <= link.wireCap
        OBVIOUS
      <3>1. CASE t = s
        <4>1. writing'[t] = Head(q).units /\ writeQueue'[t] = Tail(q) /\ wrote'[t] = 0
          BY <2>0, <2>2, <3>1
        <4>2. QED
          BY <2>6, <3>1, <4>1, SocketParts
      <3>2. CASE t # s
        BY <1>1, <2>2, <3>2, SocketParts
      <3>3. QED
        BY <3>1, <3>2
    <2>8. phase["client"] = "connecting" => writing'["client"] = <<>>
      BY <2>0, <2>2 DEF SocketTypes, Ends
    <2>9. SocketTypes'
      BY <1>2, <2>5, <2>7, <2>8 DEF SocketTypes
    <2>10. Transit(s)' = Way(inbound[Peer(s)], wire[s], Head(q).units, 0)
      BY <2>0, <2>2 DEF Transit
    <2>11. Transit(s)' = Transit(s) \o Head(q).units
      <3>1. inbound[p] \in Seq(Unit) /\ wire[s] \in Seq(Unit)
        BY <1>0, SocketParts
      <3>2. Way(inbound[p], wire[s], Head(q).units, 0) = Way(inbound[p], wire[s], <<>>, 0) \o Head(q).units
        BY <2>4, <3>1, WayStarts
      <3>3. Way(inbound[p], wire[s], <<>>, 0) = Transit(s)
        BY <2>0 DEF p
      <3>4. QED
        BY <2>10, <3>2, <3>3 DEF p
    <2>12. Transit(p)' = Transit(p)
      BY <1>0, <1>1, <2>2 DEF Transit
    <2>13. QED
      BY <1>0, <1>3, <2>0, <2>2, <2>9, <2>11, <2>12 DEF Sends, Closed, p
  <1>6. QED
    BY <1>4, <1>5

\* on_wrote puts the tail of a short write first.
LEMMA OnWroteSends ==
    ASSUME SocketTypes, NEW s \in Ends, OnWrote(s), link' = link
    PROVE  SocketTypes' /\ Sends(s, writeQueue[s])
  <1> DEFINE n == wrote[s]
             w == writing[s]
             tail == SubSeq(w, n + 1, Len(w))
             Q == writeQueue[s]
  <1>1. /\ Q \in Seq(Entry) /\ w \in Seq(Unit) /\ n \in Int /\ n <= Len(w) /\ n > 0
        /\ Len(Q) <= link.queueCap[s] /\ wire[s] \in Seq(Unit) /\ inbound[Peer(s)] \in Seq(Unit)
    BY SocketParts, PeerIs DEF OnWrote
  <1>2. n \in 1 .. Len(w)
    BY <1>1
  <1>3. /\ tail \in Seq(Unit)
        /\ Way(inbound[Peer(s)], wire[s], tail, 0) = Transit(s)
    BY <1>1, <1>2, WayTail DEF Transit
  <1>4. /\ wrote' = [wrote EXCEPT ![s] = 0] /\ UNCHANGED <<phase, wire, inbound, draining>>
        /\ wrote'[s] = 0 /\ phase[s] = "open"
        /\ phase \in [Ends -> {"connecting", "open", "closing", "stopped"}]
        /\ draining' \in [Ends -> BOOLEAN]
    BY DEF OnWrote, Ready, SocketTypes
  <1>5. StartWrite(s, IF tail = <<>> THEN Q ELSE <<Tagged(Tail0, tail)>> \o Q, <<>>)
    BY DEF OnWrote
  <1> HIDE DEF tail, Q, w, n
  <1>6. CASE tail = <<>>
    <2>1. StartWrite(s, Q, <<>>)
      BY <1>5, <1>6
    <2>2. <<>> \in Seq(Unit) /\ 0 <= Len(<<>>) /\ Way(inbound[Peer(s)], wire[s], <<>>, 0) = Transit(s)
      BY <1>3, <1>6
    <2>3. /\ <<>> \in Seq(Unit) /\ wrote' = [wrote EXCEPT ![s] = wrote'[s]] /\ wrote'[s] \in Int
          /\ -1 <= wrote'[s] /\ wrote'[s] <= Len(<<>>)
          /\ Way(inbound[Peer(s)], wire[s], <<>>, wrote'[s]) = Transit(s)
      <3>1. wrote' = [wrote EXCEPT ![s] = wrote'[s]]
        BY <1>4
      <3>2. wrote'[s] = 0
        BY <1>4
      <3>3. QED
        BY <2>2, <3>1, <3>2
    <2>4. SocketTypes' /\ Sends(s, Q)
      BY <1>1, <1>4, <2>1, <2>3, StartWriteSends
    <2>5. QED
      BY <2>4 DEF Q
  <1>7. CASE tail # <<>>
    <2> DEFINE x == Tagged(Tail0, tail)
               q == <<x>> \o Q
    <2>1. x \in Entry /\ x.units = tail
      BY <1>3 DEF Tagged, Tail0, Entry
    <2> HIDE DEF x
    <2>2. q \in Seq(Entry) /\ q # <<>> /\ Head(q) = x /\ Tail(q) = Q
      BY <1>1, <2>1
    <2>3. StartWrite(s, q, <<>>)
      BY <1>5, <1>7 DEF x
    <2> HIDE DEF q
    <2>4. writeQueue' = [writeQueue EXCEPT ![s] = Q] /\ writing' = [writing EXCEPT ![s] = tail]
      BY <1>4, <2>1, <2>2, <2>3 DEF StartWrite
    <2>5. StartWrite(s, Q, tail)
      BY <1>7, <2>4 DEF StartWrite
    <2>6. /\ wrote' = [wrote EXCEPT ![s] = wrote'[s]] /\ wrote'[s] \in Int /\ -1 <= wrote'[s]
          /\ wrote'[s] <= Len(tail) /\ Way(inbound[Peer(s)], wire[s], tail, wrote'[s]) = Transit(s)
      <3>1. wrote' = [wrote EXCEPT ![s] = wrote'[s]]
        BY <1>4
      <3>2. wrote'[s] = 0 /\ Len(tail) \in Nat
        BY <1>3, <1>4
      <3>3. QED
        BY <1>3, <3>1, <3>2
    <2>7. SocketTypes' /\ Sends(s, Q)
      BY <1>1, <1>3, <1>4, <1>7, <2>5, <2>6, StartWriteSends
    <2>8. QED
      BY <2>7 DEF Q
  <1>8. QED
    BY <1>6, <1>7

\* A handler that queues a frame, or none, leaves the write in flight alone.
LEMMA QueueSends ==
    ASSUME SocketTypes, NEW s \in Ends, NEW q \in Seq(Entry), StartWrite(s, q, writing[s]),
           Len(q) <= link.queueCap[s], UNCHANGED <<link, phase, wrote, wire, inbound>>,
           draining' \in [Ends -> BOOLEAN]
    PROVE  SocketTypes' /\ Sends(s, q)
  <1>1. /\ writing[s] \in Seq(Unit) /\ wrote[s] \in Int /\ -1 <= wrote[s] /\ wrote[s] <= Len(writing[s])
        /\ (writing[s] = <<>> => wrote[s] = 0)
    BY SocketParts
  <1>2. wrote' = [wrote EXCEPT ![s] = wrote'[s]]
    BY DEF SocketTypes
  <1>3. Way(inbound[Peer(s)], wire[s], writing[s], wrote'[s]) = Transit(s)
    BY DEF Transit
  <1>4. /\ phase[s] = "connecting" => writing[s] = <<>>
        /\ phase \in [Ends -> {"connecting", "open", "closing", "stopped"}]
    BY DEF SocketTypes, Ends
  <1>5. QED
    BY <1>1, <1>2, <1>3, <1>4, StartWriteSends

LEMMA EndDrainSends ==
    ASSUME SocketTypes, NEW s \in Ends, EndDrain(s), link' = link
    PROVE  SocketTypes' /\ Sends(s, writeQueue[s])
  <1>1. UNCHANGED <<phase, wrote, wire, inbound>> /\ draining' = [draining EXCEPT ![s] = FALSE]
    BY DEF EndDrain
  <1>2. draining' \in [Ends -> BOOLEAN]
    BY <1>1 DEF SocketTypes
  <1>3. CASE s = "server"
    <2>1. StartWrite(s, writeQueue[s], writing[s])
      BY <1>3 DEF EndDrain
    <2>2. /\ writeQueue[s] \in Seq(Entry) /\ Len(writeQueue[s]) <= link.queueCap[s]
      BY SocketParts
    <2>3. QED
      BY <1>1, <1>2, <2>1, <2>2, QueueSends
  <1>4. CASE s # "server"
    <2>1. UNCHANGED <<writeQueue, writing>>
      BY <1>4 DEF EndDrain
    <2>2. SocketTypes'
      BY <1>1, <1>2, <2>1 DEF SocketTypes
    <2>3. Sends(s, writeQueue[s])
      BY <1>1, <2>1 DEF Sends, SameClosed, Closed, Transit
    <2>4. QED
      BY <2>2, <2>3
  <1>5. QED
    BY <1>3, <1>4

\* on_connected
LEMMA OnConnectedSends ==
    ASSUME SocketTypes, OnConnected(TRUE), link' = link
    PROVE  SocketTypes' /\ Sends("client", writeQueue["client"])
  <1> DEFINE s == "client"
             q == writeQueue[s]
  <1>0. s \in Ends /\ Peer(s) = "server" /\ "server" \in Ends /\ s # "server"
    BY DEF Ends, Peer
  <1>1. /\ phase[s] = "connecting" /\ phase' = [phase EXCEPT ![s] = "open"]
        /\ UNCHANGED <<wrote, wire, inbound, draining>>
        /\ \/ q = <<>> /\ UNCHANGED <<writeQueue, writing>>
           \/ /\ q # <<>> /\ writeQueue' = [writeQueue EXCEPT ![s] = Tail(q)]
              /\ writing' = [writing EXCEPT ![s] = Head(q).units]
    BY DEF OnConnected
  <1>2. q \in Seq(Entry) /\ Len(q) <= link.queueCap[s] /\ writing[s] = <<>> /\ wrote[s] = 0
    BY <1>0, <1>1, SocketParts DEF SocketTypes
  <1> HIDE DEF q, s
  <1>3. /\ phase' \in [Ends -> {"connecting", "open", "closing", "stopped"}]
        /\ \A t \in Ends : phase'[t] = IF t = s THEN "open" ELSE phase[t]
    BY <1>1 DEF SocketTypes
  <1>4. SameClosed
    BY <1>1, <1>3 DEF SameClosed, Closed
  <1>5. CASE q = <<>> /\ UNCHANGED <<writeQueue, writing>>
    <2>1. SocketTypes'
      BY <1>0, <1>1, <1>3, <1>5 DEF SocketTypes, s
    <2>2. \A t \in Ends : Transit(t)' = Transit(t)
      BY <1>1, <1>5 DEF Transit
    <2>3. Sends(s, q)
      BY <1>0, <1>4, <1>5, <2>2 DEF Sends, q
    <2>4. QED
      BY <2>1, <2>3 DEF q, s
  <1>6. CASE /\ q # <<>> /\ writeQueue' = [writeQueue EXCEPT ![s] = Tail(q)]
             /\ writing' = [writing EXCEPT ![s] = Head(q).units]
    <2>1. \A t \in Ends : /\ writeQueue'[t] = IF t = s THEN Tail(q) ELSE writeQueue[t]
                          /\ writing'[t] = IF t = s THEN Head(q).units ELSE writing[t]
      BY <1>6 DEF SocketTypes
    <2>2. Head(q) \in Entry /\ Tail(q) \in Seq(Entry) /\ Len(Tail(q)) = Len(q) - 1 /\ Len(q) \in Nat
      BY <1>2, <1>6, HeadTailProperties
    <2>3. Head(q).units \in Seq(Unit)
      BY <2>2 DEF Entry
    <2>4. writeQueue' \in [Ends -> Seq(Entry)] /\ writing' \in [Ends -> Seq(Unit)]
      BY <1>6, <2>2, <2>3 DEF SocketTypes
    <2>5. Len(Head(q).units) \in Nat /\ Len(Tail(q)) <= link.queueCap[s] /\ link.queueCap[s] \in Nat
      BY <1>0, <1>2, <2>2, <2>3, SocketParts
    <2>6. \A t \in Ends : /\ wrote[t] <= Len(writing'[t]) /\ -1 <= wrote[t]
                          /\ (writing'[t] = <<>> => wrote[t] = 0)
                          /\ Len(writeQueue'[t]) <= link.queueCap[t] /\ Len(wire[t]) <= link.wireCap
      <3> SUFFICES ASSUME NEW t \in Ends
                   PROVE  /\ wrote[t] <= Len(writing'[t]) /\ -1 <= wrote[t]
                          /\ (writing'[t] = <<>> => wrote[t] = 0)
                          /\ Len(writeQueue'[t]) <= link.queueCap[t] /\ Len(wire[t]) <= link.wireCap
        OBVIOUS
      <3>1. CASE t = s
        <4>1. writing'[t] = Head(q).units /\ writeQueue'[t] = Tail(q) /\ wrote[t] = 0
          BY <1>2, <2>1, <3>1
        <4>2. QED
          BY <2>5, <3>1, <4>1, SocketParts
      <3>2. CASE t # s
        BY <2>1, <3>2, SocketParts
      <3>3. QED
        BY <3>1, <3>2
    <2>7. phase'["client"] # "connecting" /\ phase'["server"] # "connecting"
      BY <1>0, <1>3 DEF SocketTypes, s
    <2>8. SocketTypes'
      BY <1>1, <1>3, <2>4, <2>6, <2>7 DEF SocketTypes
    <2>9. Transit(s)' = Way(inbound[Peer(s)], wire[s], Head(q).units, 0)
      BY <1>0, <1>1, <1>2, <2>1 DEF Transit
    <2>10. Transit(s)' = Transit(s) \o Head(q).units
      <3>1. inbound[Peer(s)] \in Seq(Unit) /\ wire[s] \in Seq(Unit)
        BY <1>0, SocketParts
      <3>2. Way(inbound[Peer(s)], wire[s], Head(q).units, 0)
              = Way(inbound[Peer(s)], wire[s], <<>>, 0) \o Head(q).units
        BY <2>3, <3>1, WayStarts
      <3>3. Way(inbound[Peer(s)], wire[s], <<>>, 0) = Transit(s)
        BY <1>2 DEF Transit
      <3>4. QED
        BY <2>9, <3>2, <3>3
    <2>11. Transit("server")' = Transit("server") /\ writeQueue'["server"] = writeQueue["server"]
      BY <1>0, <1>1, <2>1 DEF Transit
    <2>12. Sends(s, q)
      <3>1. ~Closed(s)
        BY <1>1 DEF Closed, s
      <3>2. QED
        BY <1>0, <1>4, <1>6, <2>1, <2>10, <2>11, <3>1 DEF Sends
    <2>13. QED
      BY <2>8, <2>12 DEF q, s
  <1>7. QED
    BY <1>1, <1>5, <1>6

\* An end closes: what it sent may still arrive, the rest is gone.
LEMMA CloseCuts ==
    ASSUME SocketTypes, NEW s \in Ends, CloseSocket(s), link' = link
    PROVE  /\ SocketTypes' /\ Closed(s)' /\ (Closed(Peer(s))' <=> Closed(Peer(s)))
           /\ writeQueue'[s] = <<>> /\ writeQueue'[Peer(s)] = writeQueue[Peer(s)]
           /\ Transit(s)' \in Seq(Unit) /\ Piece(Transit(s)', Transit(s), 0)
           /\ Transit(Peer(s))' \in Seq(Unit)
           /\ \E d \in Nat : Piece(Transit(Peer(s))', Transit(Peer(s)), d)
  <1> DEFINE p == Peer(s)
  <1>0. p \in Ends /\ p # s /\ Peer(p) = s
    BY PeerIs
  <1> HIDE DEF p
  <1>1. /\ phase' = [phase EXCEPT ![s] = IF phase[s] = "connecting" THEN "stopped" ELSE "closing"]
        /\ writeQueue' = [writeQueue EXCEPT ![s] = <<>>] /\ writing' = [writing EXCEPT ![s] = <<>>]
        /\ wrote' = [wrote EXCEPT ![s] = 0] /\ wire' = [wire EXCEPT ![p] = <<>>]
        /\ inbound' = [inbound EXCEPT ![s] = <<>>] /\ draining' = [draining EXCEPT ![s] = FALSE]
    BY DEF CloseSocket, p
  <1>2. \A t \in Ends :
           /\ phase'[t] = IF t = s THEN (IF phase[s] = "connecting" THEN "stopped" ELSE "closing") ELSE phase[t]
           /\ writeQueue'[t] = (IF t = s THEN <<>> ELSE writeQueue[t])
           /\ writing'[t] = (IF t = s THEN <<>> ELSE writing[t])
           /\ wrote'[t] = (IF t = s THEN 0 ELSE wrote[t])
           /\ wire'[t] = (IF t = p THEN <<>> ELSE wire[t])
           /\ inbound'[t] = (IF t = s THEN <<>> ELSE inbound[t])
    BY <1>1 DEF SocketTypes
  <1>3. phase' \in [Ends -> {"connecting", "open", "closing", "stopped"}]
    BY <1>1 DEF SocketTypes
  <1>4. /\ writeQueue' \in [Ends -> Seq(Entry)] /\ writing' \in [Ends -> Seq(Unit)]
        /\ wire' \in [Ends -> Seq(Unit)] /\ inbound' \in [Ends -> Seq(Unit)]
        /\ wrote' \in [Ends -> Int]
    <2>1. <<>> \in Seq(Unit) /\ <<>> \in Seq(Entry)
      OBVIOUS
    <2>2. writeQueue' \in [Ends -> Seq(Entry)] /\ writing' \in [Ends -> Seq(Unit)]
      BY <1>1, <2>1 DEF SocketTypes
    <2>3. wire' \in [Ends -> Seq(Unit)] /\ inbound' \in [Ends -> Seq(Unit)]
      BY <1>1, <2>1 DEF SocketTypes
    <2>4. wrote' \in [Ends -> Int]
      BY <1>1 DEF SocketTypes
    <2>5. QED
      BY <2>2, <2>3, <2>4
  <1>5. draining' \in [Ends -> BOOLEAN]
    BY <1>1 DEF SocketTypes
  <1>6. ASSUME NEW t \in Ends
        PROVE  /\ wrote'[t] <= Len(writing'[t]) /\ -1 <= wrote'[t] /\ (writing'[t] = <<>> => wrote'[t] = 0)
               /\ Len(writeQueue'[t]) <= link.queueCap[t] /\ Len(wire'[t]) <= link.wireCap
    <2>1. Len(<<>>) = 0 /\ link.wireCap \in Nat /\ link.queueCap[t] \in Nat
      BY SocketParts
    <2>2. Len(writeQueue'[t]) <= link.queueCap[t]
      BY <1>2, <2>1, SocketParts
    <2>3. Len(wire'[t]) <= link.wireCap
      BY <1>2, <2>1, SocketParts
    <2>4. /\ wrote'[t] <= Len(writing'[t]) /\ -1 <= wrote'[t] /\ (writing'[t] = <<>> => wrote'[t] = 0)
      <3>1. CASE t = s
        BY <1>2, <2>1, <3>1
      <3>2. CASE t # s
        BY <1>2, <3>2, SocketParts
      <3>3. QED
        BY <3>1, <3>2
    <2>5. QED
      BY <2>2, <2>3, <2>4
  <1>7. /\ phase'["server"] # "connecting"
        /\ phase'["client"] = "connecting" => writing'["client"] = <<>>
    BY <1>2 DEF SocketTypes, Ends
  <1>8. SocketTypes'
    BY <1>3, <1>4, <1>5, <1>6, <1>7 DEF SocketTypes
  <1>9. Closed(s)' /\ (Closed(p)' <=> Closed(p))
    BY <1>0, <1>2 DEF Closed
  <1>10. /\ inbound[p] \in Seq(Unit) /\ wire[s] \in Seq(Unit) /\ writing[s] \in Seq(Unit)
         /\ wrote[s] \in Int /\ wrote[s] <= Len(writing[s])
         /\ inbound[s] \in Seq(Unit) /\ wire[p] \in Seq(Unit) /\ writing[p] \in Seq(Unit)
         /\ wrote[p] \in Int /\ wrote[p] <= Len(writing[p])
    BY <1>0, SocketParts
  <1>11. Transit(s)' = Way(inbound[p], wire[s], <<>>, 0) /\ Transit(s) = Way(inbound[p], wire[s], writing[s], wrote[s])
    BY <1>0, <1>2 DEF Transit, p
  <1>12. Transit(p)' = Way(<<>>, <<>>, writing[p], wrote[p]) /\ Transit(p) = Way(inbound[s], wire[p], writing[p], wrote[p])
    BY <1>0, <1>2 DEF Transit
  <1>13. Transit(s)' \in Seq(Unit) /\ Piece(Transit(s)', Transit(s), 0)
    <2>1. /\ Way(inbound[p], wire[s], <<>>, 0) \in Seq(Unit)
          /\ Piece(Way(inbound[p], wire[s], <<>>, 0), Way(inbound[p], wire[s], writing[s], wrote[s]), 0)
      BY <1>10, WayCut
    <2>2. QED
      BY <1>11, <2>1
  <1>14. /\ Transit(p)' \in Seq(Unit) /\ Len(inbound[s]) + Len(wire[p]) \in Nat
         /\ Piece(Transit(p)', Transit(p), Len(inbound[s]) + Len(wire[p]))
    <2>1. /\ Way(<<>>, <<>>, writing[p], wrote[p]) \in Seq(Unit) /\ Len(inbound[s]) + Len(wire[p]) \in Nat
          /\ Piece(Way(<<>>, <<>>, writing[p], wrote[p]),
                   Way(inbound[s], wire[p], writing[p], wrote[p]), Len(inbound[s]) + Len(wire[p]))
      BY <1>10, WayCut
    <2>2. QED
      BY <1>12, <2>1
  <1>15. writeQueue'[s] = <<>> /\ writeQueue'[p] = writeQueue[p]
    BY <1>0, <1>2
  <1>16. QED
    BY <1>8, <1>9, <1>13, <1>14, <1>15 DEF p

\* The peer of s has taken a frame; the queue is not part of this.
LEMMA TakeFrameDrops ==
    ASSUME SocketTypes, NEW s \in Ends, HasFrame(s), TakeFrame(s),
           UNCHANGED <<link, phase, writing, wrote, wire, draining>>,
           writeQueue' \in [Ends -> Seq(Entry)],
           \A t \in Ends : Len(writeQueue'[t]) <= link.queueCap[t]
    PROVE  /\ SocketTypes' /\ SameClosed /\ Transit(s)' = Transit(s)
           /\ Transit(Peer(s))' \in Seq(Unit) /\ Piece(Transit(Peer(s))', Transit(Peer(s)), 2)
           /\ Len(Transit(Peer(s))') = Len(Transit(Peer(s))) - 2 /\ Len(Transit(Peer(s))) >= 2
           /\ Transit(Peer(s))[1] = inbound[s][1] /\ Transit(Peer(s))[2] = inbound[s][2]
  <1> DEFINE p == Peer(s)
             a == inbound[s]
  <1>0. p \in Ends /\ p # s /\ Peer(p) = s
    BY PeerIs
  <1>1. /\ a \in Seq(Unit) /\ wire[p] \in Seq(Unit) /\ writing[p] \in Seq(Unit)
        /\ wrote[p] \in Int /\ wrote[p] <= Len(writing[p]) /\ Len(a) >= 2 /\ Len(a) \in Nat
    BY <1>0, SocketParts DEF HasFrame
  <1> HIDE DEF p
  <1>2. inbound' = [inbound EXCEPT ![s] = SubSeq(a, 3, Len(a))]
    BY DEF TakeFrame
  <1>3. \A t \in Ends : inbound'[t] = IF t = s THEN SubSeq(a, 3, Len(a)) ELSE inbound[t]
    BY <1>2 DEF SocketTypes
  <1>4. Transit(p)' = Way(SubSeq(a, 3, Len(a)), wire[p], writing[p], wrote[p]) /\ Transit(p) = Way(a, wire[p], writing[p], wrote[p])
    BY <1>0, <1>3 DEF Transit
  <1>5. Transit(s)' = Transit(s)
    BY <1>0, <1>3 DEF Transit, p
  <1> HIDE DEF a
  <1>6. /\ SubSeq(a, 3, Len(a)) \in Seq(Unit) /\ Transit(p)' \in Seq(Unit) /\ Piece(Transit(p)', Transit(p), 2)
        /\ Len(Transit(p)') = Len(Transit(p)) - 2
    <2> DEFINE c == SubSeq(a, 3, Len(a))
    <2> HIDE DEF p
    <2>1. /\ c \in Seq(Unit) /\ Way(c, wire[p], writing[p], wrote[p]) \in Seq(Unit)
          /\ Piece(Way(c, wire[p], writing[p], wrote[p]), Way(a, wire[p], writing[p], wrote[p]), 2)
          /\ Len(Way(c, wire[p], writing[p], wrote[p])) = Len(Way(a, wire[p], writing[p], wrote[p])) - 2
      BY <1>1, WayTaken, ZenonT(30)
    <2>2. QED
      BY <1>4, <2>1
  <1>7. /\ Len(Transit(p)) = Len(a) + Len(wire[p]) + Len(Rest(writing[p], wrote[p]))
        /\ \A i \in 1 .. Len(a) : Transit(p)[i] = a[i]
    <2> HIDE DEF p
    <2>1. /\ Len(Way(a, wire[p], writing[p], wrote[p])) = Len(a) + Len(wire[p]) + Len(Rest(writing[p], wrote[p]))
          /\ \A i \in 1 .. Len(a) : Way(a, wire[p], writing[p], wrote[p])[i] = a[i]
      BY <1>1, WayIs, ZenonT(30)
    <2>2. QED
      BY <1>4, <2>1
  <1>8. Rest(writing[p], wrote[p]) \in Seq(Unit)
    BY <1>1, RestIs
  <1>9. Len(Transit(p)) >= 2 /\ Transit(p)[1] = a[1] /\ Transit(p)[2] = a[2]
    <2>1. Len(wire[p]) \in Nat /\ Len(Rest(writing[p], wrote[p])) \in Nat
      BY <1>1, <1>8
    <2>2. Len(a) + Len(wire[p]) + Len(Rest(writing[p], wrote[p])) >= 2 /\ 1 \in 1 .. Len(a) /\ 2 \in 1 .. Len(a)
      <3>1. \A x, y, z \in Nat : x >= 2 => x + y + z >= 2 /\ 1 \in 1 .. x /\ 2 \in 1 .. x
        OBVIOUS
      <3>2. Len(a) \in Nat /\ Len(a) >= 2
        BY <1>1
      <3>3. QED
        BY <2>1, <3>1, <3>2
    <2>3. Len(Transit(p)) >= 2
      BY <1>7, <2>2
    <2>4. QED
      BY <1>7, <2>2, <2>3
  <1>10. inbound' \in [Ends -> Seq(Unit)]
    BY <1>2, <1>6 DEF SocketTypes
  <1>11. SocketTypes'
    BY <1>10 DEF SocketTypes
  <1>12. SameClosed
    BY DEF SameClosed, Closed
  <1>13. QED
    BY <1>5, <1>6, <1>9, <1>11, <1>12 DEF p, a

-----------------------------------------------------------------------------
(* The parts of the invariant.                                             *)

\* A frame is sent at once or later: whole frames stay whole.
LEMMA WholeSends ==
    ASSUME SocketTypes, \A t \in Ends : WholeWay(t), NEW s \in Ends, NEW q, Sends(s, q),
           q # <<>> => \E r \in Numbers, k \in FrameKinds : Head(q).units = Encode(r, k)
    PROVE  \A t \in Ends : WholeWay(t)'
  <1>0. Peer(s) \in Ends /\ Peer(Peer(s)) = s
    BY PeerIs
  <1>1. /\ Closed(s)' <=> Closed(s)
        /\ Closed(Peer(s))' <=> Closed(Peer(s))
    BY <1>0 DEF Sends, SameClosed
  <1>2. WholeWay(Peer(s))'
    <2>1. Transit(Peer(s))' = Transit(Peer(s)) /\ WholeWay(Peer(s))
      BY <1>0 DEF Sends
    <2>2. QED
      BY <1>0, <1>1, <2>1 DEF WholeWay
  <1>3. WholeWay(s)'
    <2>1. WholeWay(s) /\ Transit(s) \in Seq(Unit)
      BY SocketParts
    <2>2. CASE Transit(s)' = Transit(s)
      BY <1>1, <2>1, <2>2 DEF WholeWay
    <2>3. CASE ~Closed(s) /\ q # <<>> /\ Transit(s)' = Transit(s) \o Head(q).units
      <3>1. PICK r \in Numbers, k \in FrameKinds : Head(q).units = Encode(r, k)
        BY <2>3
      <3>2. Transit(s)' = Transit(s) \o Encode(r, k)
        BY <2>3, <3>1
      <3>3. CASE ~Closed(Peer(s)) /\ ~Closed(s)
        <4>1. Aligned(Transit(s)) /\ Even(Transit(s))
          BY <2>1, <3>3 DEF WholeWay
        <4>2. Aligned(Transit(s) \o Encode(r, k)) /\ Even(Transit(s) \o Encode(r, k))
          BY <2>1, <4>1, AlignedPushed
        <4>3. QED
          BY <3>2, <4>2 DEF WholeWay
      <3>4. CASE Closed(Peer(s))
        BY <1>1, <3>4 DEF WholeWay
      <3>5. QED
        BY <2>3, <3>3, <3>4
    <2>4. QED
      BY <2>2, <2>3 DEF Sends
  <1>4. QED
    BY <1>2, <1>3, EndsAre

\* An end closes.
LEMMA WholeCloses ==
    ASSUME SocketTypes, \A t \in Ends : WholeWay(t), NEW s \in Ends, CloseSocket(s), link' = link
    PROVE  \A t \in Ends : WholeWay(t)'
  <1>0. Peer(s) \in Ends /\ Peer(Peer(s)) = s
    BY PeerIs
  <1>1. /\ Closed(s)' /\ (Closed(Peer(s))' <=> Closed(Peer(s)))
        /\ Transit(s)' \in Seq(Unit) /\ Piece(Transit(s)', Transit(s), 0)
    BY CloseCuts
  <1>2. WholeWay(Peer(s))'
    BY <1>0, <1>1 DEF WholeWay
  <1>3. WholeWay(s)'
    <2>1. Transit(s) \in Seq(Unit) /\ WholeWay(s)
      BY SocketParts
    <2>2. CASE ~Closed(Peer(s))
      <3>1. Aligned(Transit(s))
        BY <2>1, <2>2 DEF WholeWay
      <3>2. Aligned(Transit(s)')
        BY <1>1, <2>1, <3>1, AlignedCut
      <3>3. QED
        BY <1>1, <3>2 DEF WholeWay
    <2>3. CASE Closed(Peer(s))
      BY <1>1, <2>3 DEF WholeWay
    <2>4. QED
      BY <2>2, <2>3
  <1>4. QED
    BY <1>2, <1>3, EndsAre

\* An end takes a frame.
LEMMA WholeTakes ==
    ASSUME SocketTypes, \A t \in Ends : WholeWay(t), NEW s \in Ends, SameClosed,
           Transit(s)' = Transit(s), Transit(Peer(s))' \in Seq(Unit),
           Piece(Transit(Peer(s))', Transit(Peer(s)), 2),
           Len(Transit(Peer(s))') = Len(Transit(Peer(s))) - 2
    PROVE  \A t \in Ends : WholeWay(t)'
  <1> DEFINE p == Peer(s)
  <1>0. p \in Ends /\ Peer(p) = s
    BY PeerIs
  <1>1. (Closed(s)' <=> Closed(s)) /\ (Closed(p)' <=> Closed(p))
    BY <1>0 DEF SameClosed
  <1>2. WholeWay(s)'
    BY <1>1 DEF WholeWay
  <1>3. WholeWay(p)'
    <2>1. Transit(p) \in Seq(Unit) /\ WholeWay(p)
      BY <1>0, SocketParts
    <2>2. CASE ~Closed(s)
      <3>1. Aligned(Transit(p)) /\ (~Closed(p) => Even(Transit(p)))
        BY <1>0, <2>1, <2>2 DEF WholeWay
      <3>2. Aligned(Transit(p)') /\ (Even(Transit(p)) => Even(Transit(p)'))
        BY <2>1, <3>1, AlignedDropped
      <3>3. QED
        BY <1>0, <1>1, <3>1, <3>2 DEF WholeWay
    <2>3. CASE Closed(s)
      BY <1>0, <1>1, <2>3 DEF WholeWay
    <2>4. QED
      BY <2>2, <2>3
  <1>4. QED
    BY <1>2, <1>3, EndsAre DEF p

\* What the queue of the client leaves on the stream.
LEMMA UpstreamSends ==
    ASSUME SocketTypes, NEW q \in Seq(Entry), NEW K \in SUBSET Requests, NEW F,
           Upstream(Transit("client"), q, K, F), Sends("client", q)
    PROVE  /\ Upstream(Transit("client")', writeQueue'["client"], K, F)
           /\ q # <<>> => \E r \in Numbers, k \in FrameKinds : Head(q).units = Encode(r, k)
  <1>1. Transit("client") \in Seq(Unit)
    BY SocketParts DEF Ends
  <1>2. ASSUME q # <<>>
        PROVE  /\ \E r \in Requests : Head(q).units = Encode(r, "request")
               /\ Upstream(Transit("client") \o Head(q).units, Tail(q), K, F)
    BY <1>1, <1>2, UpstreamPop
  <1>3. Upstream(Transit("client")', writeQueue'["client"], K, F)
    BY <1>2 DEF Sends
  <1>4. "request" \in FrameKinds /\ \A r \in Requests : r \in Numbers
    BY DEF FrameKinds, Numbers
  <1>5. QED
    BY <1>2, <1>3, <1>4

LEMMA DownstreamSends ==
    ASSUME SocketTypes, NEW q \in Seq(Entry), NEW R,
           Downstream(Transit("server"), q, R), Sends("server", q)
    PROVE  /\ Downstream(Transit("server")', writeQueue'["server"], R)
           /\ Answered' \subseteq Answering(Transit("server"), q)
           /\ q # <<>> => \E r \in Numbers, k \in FrameKinds : Head(q).units = Encode(r, k)
  <1>1. Transit("server") \in Seq(Unit)
    BY SocketParts DEF Ends
  <1>2. ASSUME q # <<>>
        PROVE  /\ \E r \in Numbers, k \in FrameKinds : Head(q).units = Encode(r, k)
               /\ Downstream(Transit("server") \o Head(q).units, Tail(q), R)
               /\ Answering(Transit("server") \o Head(q).units, Tail(q)) \subseteq Answering(Transit("server"), q)
    BY <1>1, <1>2, DownstreamPop
  <1>3. Downstream(Transit("server")', writeQueue'["server"], R)
    BY <1>2 DEF Sends
  <1>4. Answering(Transit("server")', writeQueue'["server"]) \subseteq Answering(Transit("server"), q)
    BY <1>2 DEF Sends
  <1>5. QED
    BY <1>2, <1>3, <1>4 DEF Answered

LEMMA KeptGrows ==
    ASSUME Answered' \subseteq Answered, UNCHANGED <<asked, routed, recalled, result, foul>>
    PROVE  Kept \subseteq Kept' /\ Sendable' = Sendable
  BY DEF Kept, Sendable

LEMMA KeptKnown == Kept \subseteq 1 .. asked /\ (RequestTypes => Kept \in SUBSET Requests)
  <1>1. Kept \subseteq 1 .. asked
    BY DEF Kept
  <1>2. ASSUME RequestTypes PROVE 1 .. asked \subseteq Requests
    BY <1>2, RpcAssumption DEF RequestTypes, Requests
  <1>3. QED
    BY <1>1, <1>2

\* Nothing but the stream changes.
LEMMA BooksStay ==
    ASSUME RequestTypes, Books, SameClosed, Answered' \subseteq Answered,
           UNCHANGED <<link, asked, inFlight, result, recalled, overflowed, routing, calls, routed, foul>>
    PROVE  RequestTypes' /\ Books'
  <1>1. (Closed("client")' <=> Closed("client")) /\ (Closed("server")' <=> Closed("server"))
    BY DEF SameClosed, Ends
  <1>2. RequestTypes'
    BY DEF RequestTypes
  <1>3. OneResult' /\ RoutedTruth' /\ QueueSuffices' /\ SlotsFreed'
    BY <1>1 DEF Books, OneResult, RoutedTruth, QueueSuffices, SlotsFreed
  <1>4. Books'
    BY <1>1, <1>3 DEF Books, Sendable
  <1>5. QED
    BY <1>2, <1>4

LEMMA SendsKeeps ==
    ASSUME RpcInv, NEW s \in Ends, SocketTypes', Sends(s, writeQueue[s]),
           UNCHANGED <<link, asked, inFlight, result, recalled, overflowed, routing, calls, routed, foul>>
    PROVE  RpcInv'
  <1>0. /\ SocketTypes /\ RequestTypes /\ Books /\ RequestsFresh /\ AnswersFresh
        /\ \A t \in Ends : WholeWay(t)
    BY DEF RpcInv
  <1>2. writeQueue["client"] \in Seq(Entry) /\ writeQueue["server"] \in Seq(Entry)
    BY <1>0, SocketParts DEF Ends
  <1>3. Kept \in SUBSET Requests
    BY <1>0, KeptKnown
  <1>4. CASE s = "client"
    <2>1. Sends("client", writeQueue["client"]) /\ Upstream(Transit("client"), writeQueue["client"], Kept, inFlight)
      BY <1>0, <1>4 DEF RequestsFresh
    <2>2. /\ Upstream(Transit("client")', writeQueue'["client"], Kept, inFlight)
          /\ writeQueue[s] # <<>> => \E r \in Numbers, k \in FrameKinds : Head(writeQueue[s]).units = Encode(r, k)
      BY <1>0, <1>2, <1>3, <1>4, <2>1, UpstreamSends
    <2>3. Transit("server")' = Transit("server") /\ writeQueue'["server"] = writeQueue["server"]
      BY <2>1 DEF Sends, Peer
    <2>4. Answered' = Answered
      BY <2>3 DEF Answered
    <2>5. Kept \subseteq Kept' /\ Sendable' = Sendable
      BY <2>4, KeptGrows
    <2>6. RequestsFresh'
      <3>1. Upstream(Transit("client")', writeQueue'["client"], Kept', inFlight)
        BY <2>2, <2>5, UpstreamSets
      <3>2. QED
        BY <3>1 DEF RequestsFresh
    <2>7. AnswersFresh'
      BY <1>0, <2>3, <2>5 DEF AnswersFresh
    <2>8. \A t \in Ends : WholeWay(t)'
      BY <1>0, <2>2, WholeSends
    <2>9. RequestTypes' /\ Books'
      BY <1>0, <2>4, BooksStay DEF Sends
    <2>10. QED
      BY <2>6, <2>7, <2>8, <2>9 DEF RpcInv
  <1>5. CASE s = "server"
    <2>1. Sends("server", writeQueue["server"]) /\ Downstream(Transit("server"), writeQueue["server"], Sendable)
      BY <1>0, <1>5 DEF AnswersFresh
    <2>2. /\ Downstream(Transit("server")', writeQueue'["server"], Sendable)
          /\ Answered' \subseteq Answering(Transit("server"), writeQueue["server"])
          /\ writeQueue[s] # <<>> => \E r \in Numbers, k \in FrameKinds : Head(writeQueue[s]).units = Encode(r, k)
      BY <1>0, <1>2, <1>5, <2>1, DownstreamSends
    <2>3. Transit("client")' = Transit("client") /\ writeQueue'["client"] = writeQueue["client"]
      BY <2>1 DEF Sends, Peer
    <2>4. Answered' \subseteq Answered
      BY <2>2 DEF Answered
    <2>5. Kept \subseteq Kept' /\ Sendable' = Sendable
      BY <2>4, KeptGrows
    <2>6. RequestsFresh'
      <3>1. Upstream(Transit("client"), writeQueue["client"], Kept', inFlight)
        BY <1>0, <2>5, UpstreamSets DEF RequestsFresh
      <3>2. QED
        BY <2>3, <3>1 DEF RequestsFresh
    <2>7. AnswersFresh'
      BY <2>2, <2>5 DEF AnswersFresh
    <2>8. \A t \in Ends : WholeWay(t)'
      BY <1>0, <2>2, WholeSends
    <2>9. RequestTypes' /\ Books'
      BY <1>0, <2>4, BooksStay DEF Sends
    <2>10. QED
      BY <2>6, <2>7, <2>8, <2>9 DEF RpcInv
  <1>6. QED
    BY <1>4, <1>5 DEF Ends

LEMMA LoopKeeps ==
    ASSUME RpcInv, NEW s \in Ends,
           Loop(s) \/ RpcIdle(s) \/ (s = "client" /\ EffectsRun /\ UNCHANGED server)
    PROVE  RpcInv'
  <1>1. link' = link
    BY DEF Loop, RpcIdle, client, server
  <1>2. SocketTypes
    BY DEF RpcInv
  <1>3. UNCHANGED <<link, asked, inFlight, result, recalled, overflowed, routing, calls, routed, foul>>
    BY DEF Loop, RpcIdle, EffectsRun, client, server
  <1>4. CASE OnWrote(s)
    BY <1>1, <1>2, <1>3, <1>4, OnWroteSends, SendsKeeps
  <1>5. CASE EndDrain(s)
    BY <1>1, <1>2, <1>3, <1>5, EndDrainSends, SendsKeeps
  <1>6. CASE DriverWrites(s) \/ DriverFails(s) \/ OnRead(s) \/ StreamClosed(s) \/ IdleRearms(s)
    <2>1. /\ SocketTypes' /\ writeQueue' = writeQueue /\ SameClosed
          /\ \A t \in Ends : Transit(t)' = Transit(t)
      BY <1>1, <1>2, <1>6, DriverWritesMoves, DriverFailsMoves, OnReadMoves, StreamClosedMoves
    <2>2. Sends(s, writeQueue[s])
      BY <2>1, PeerIs DEF Sends
    <2>3. QED
      BY <1>3, <2>1, <2>2, SendsKeeps
  <1>7. QED
    BY <1>4, <1>5, <1>6 DEF Loop, RpcIdle, EffectsRun

-----------------------------------------------------------------------------
(* Results.                                                                *)

LEMMA Waiting ==
    ASSUME RequestTypes, OneResult
    PROVE  /\ \A r \in inFlight : r \in 1 .. asked /\ r \in Requests /\ result[r] = <<>>
           /\ \A r \in 1 .. asked : r \in Requests /\ (r \notin inFlight => Len(result[r]) = 1)
  <1>1. \A r \in 1 .. asked : r \in Requests
    BY RpcAssumption DEF RequestTypes, Requests
  <1>2. \A r \in inFlight : r \in 1 .. asked
    BY DEF RequestTypes
  <1>3. ASSUME NEW r \in inFlight PROVE result[r] = <<>>
    <2>1. r \in Requests /\ Len(result[r]) + 1 = 1
      BY <1>1, <1>2 DEF OneResult
    <2>2. result[r] \in Seq(Words)
      BY <2>1 DEF RequestTypes
    <2>3. Len(result[r]) = 0
      BY <2>1, <2>2
    <2>4. QED
      BY <2>2, <2>3, EmptySeq
  <1>4. ASSUME NEW r \in 1 .. asked, r \notin inFlight PROVE Len(result[r]) = 1
    <2>1. r \in Requests /\ Len(result[r]) + 0 = 1
      BY <1>1, <1>4 DEF OneResult
    <2>2. Len(result[r]) \in Nat
      BY <2>1 DEF RequestTypes
    <2>3. QED
      BY <2>1, <2>2
  <1>5. QED
    BY <1>1, <1>2, <1>3, <1>4

\* notify: those who have heard nothing hear what.
LEMMA NotifySays ==
    ASSUME RequestTypes, NEW rs, NEW what \in Words, Notify(rs, what),
           \A r \in Requests : r \in rs => result[r] = <<>>
    PROVE  /\ result' \in [Requests -> Seq(Words)]
           /\ \A r \in Requests : /\ r \in rs => result'[r] = <<what>>
                                  /\ r \notin rs => result'[r] = result[r]
  <1>1. Append(<<>>, what) = <<what>> /\ <<what>> \in Seq(Words)
    OBVIOUS
  <1>2. result' = [r \in Requests |-> IF r \in rs THEN Append(result[r], what) ELSE result[r]]
    BY DEF Notify
  <1>3. \A r \in Requests : /\ r \in rs => result'[r] = <<what>>
                            /\ r \notin rs => result'[r] = result[r]
    BY <1>1, <1>2
  <1>4. \A r \in Requests : result'[r] \in Seq(Words)
    BY <1>1, <1>3 DEF RequestTypes
  <1>5. QED
    BY <1>2, <1>3, <1>4

LEMMA WordsDiffer ==
    /\ \A what \in Words : Len(<<what>>) = 1
    /\ \A what \in Words, other \in Words : <<what>> = <<other>> => what = other
    /\ <<>> # <<"Ok">> /\ <<>> # <<"Full">> /\ <<>> # <<"LocalEncodeFailed">>
  OBVIOUS

LEMMA WordsAre == "Ok" \in Words /\ "Full" \in Words /\ "LocalEncodeFailed" \in Words
  BY DEF Words

\* The requests the server may still be given, but for those of X.
LEMMA KeptStays ==
    ASSUME NEW X, Answered' \subseteq Answered \cup X, asked \in Nat, asked' \in Nat, asked <= asked',
           \A r \in Kept : r \notin X => /\ routed'[r] = 0 /\ r \notin recalled'
                                         /\ result'[r] \notin {<<"Full">>, <<"LocalEncodeFailed">>}
    PROVE  Kept \ X \subseteq Kept'
  <1> SUFFICES ASSUME NEW r \in Kept, r \notin X PROVE r \in Kept'
    OBVIOUS
  <1>1. r \in 1 .. asked /\ r \notin Answered
    BY DEF Kept
  <1>2. r \in 1 .. asked'
    BY <1>1
  <1>3. r \notin Answered'
    BY <1>1
  <1>4. QED
    BY <1>2, <1>3 DEF Kept

LEMMA RequestCount == RequestTypes => /\ asked \in Nat /\ asked <= MaxRequests /\ MaxRequests \in Nat
                                      /\ \A r \in 1 .. asked : r \in Requests
  BY RpcAssumption DEF RequestTypes, Requests

LEMMA FiniteSides ==
    ASSUME RequestTypes
    PROVE  /\ IsFiniteSet(inFlight) /\ IsFiniteSet(routing)
           /\ Cardinality(inFlight) \in Nat /\ Cardinality(routing) \in Nat
  <1>1. IsFiniteSet(Requests)
    BY RpcAssumption, FS_Interval DEF Requests
  <1>2. inFlight \subseteq Requests /\ routing \subseteq Requests
    BY RequestCount DEF RequestTypes
  <1>3. IsFiniteSet(inFlight) /\ IsFiniteSet(routing)
    BY <1>1, <1>2, FS_Subset
  <1>4. QED
    BY <1>3, FS_CardinalityType

LEMMA CapsAre ==
    SocketTypes => /\ link.inFlightCap["client"] \in Nat /\ link.inFlightCap["server"] \in Nat
                   /\ link.queueCap["client"] \in Nat /\ link.queueCap["server"] \in Nat
  BY DEF SocketTypes, LinkConfig, Ends

\* The frames in the client's queue are of different requests in flight.
LEMMA QueueFits ==
    ASSUME RpcInv
    PROVE  Len(writeQueue["client"]) <= Cardinality(inFlight)
  <1> DEFINE Q == writeQueue["client"]
             f == [i \in 1 .. Len(Q) |-> Q[i].tag]
  <1>1. Queued(Q, Kept, inFlight)
    BY DEF RpcInv, RequestsFresh, Upstream
  <1>2. Q \in Seq(Entry) /\ Len(Q) \in Nat
    BY SocketParts DEF RpcInv, Ends
  <1> HIDE DEF Q
  <1>3. f \in [1 .. Len(Q) -> inFlight] /\ \A i, j \in 1 .. Len(Q) : f[i] = f[j] => i = j
    BY <1>1 DEF Queued
  <1> HIDE DEF f
  <1>4. f \in Injection(1 .. Len(Q), inFlight)
    BY <1>3 DEF Injection, IsInjective
  <1>5. IsFiniteSet(inFlight)
    BY FiniteSides DEF RpcInv
  <1>6. Cardinality(1 .. Len(Q)) <= Cardinality(inFlight)
    BY <1>4, <1>5, FS_Injection
  <1>7. Cardinality(1 .. Len(Q)) = Len(Q)
    <2>1. Cardinality(1 .. Len(Q)) = IF 1 > Len(Q) THEN 0 ELSE Len(Q) - 1 + 1
      BY <1>2, FS_Interval
    <2>2. QED
      BY <1>2, <2>1
  <1>8. QED
    BY <1>6, <1>7 DEF Q

-----------------------------------------------------------------------------
(* The client's handlers.                                                  *)

\* A handler of the client tells what to the requests of rs, which were in
\* flight or are asked now; the others that are asked now are in flight.
Tells(rs, what, X) ==
    /\ asked' \in {asked, asked + 1} /\ asked' <= MaxRequests
    /\ rs \subseteq inFlight \cup ((asked + 1) .. asked')
    /\ Notify(rs, what)
    /\ inFlight' = (inFlight \cup ((asked + 1) .. asked')) \ rs
    /\ what = "Ok" => \A r \in rs : routed[r] = 1
    /\ what \in {"Full", "LocalEncodeFailed"} => rs \subseteq (asked + 1) .. asked'
    /\ recalled \subseteq recalled' /\ recalled' \subseteq recalled \cup X
    /\ X \subseteq 1 .. asked /\ \A r \in X : routed[r] = 0

LEMMA ClientStep ==
    ASSUME RequestTypes, Books, NEW rs, NEW what \in Words, NEW X, Tells(rs, what, X),
           overflowed' \in BOOLEAN, QueueSuffices', Closed("client")' => inFlight' = {},
           Cardinality(inFlight') <= link.inFlightCap["client"],
           Answered' \subseteq Answered, Closed("server")' <=> Closed("server"),
           UNCHANGED <<link, routing, calls, routed, foul>>
    PROVE  RequestTypes' /\ Books' /\ Kept \ X \subseteq Kept' /\ Sendable' = Sendable
  <1> USE DEF Tells
  <1>1. /\ asked \in Nat /\ asked' \in 0 .. MaxRequests /\ asked <= asked' /\ MaxRequests \in Nat
        /\ \A r \in 1 .. asked' : r \in 1 .. asked \/ (r = asked + 1 /\ r \in (asked + 1) .. asked')
        /\ \A r \in (asked + 1) .. asked' : r \in 1 .. asked' /\ r > asked
        /\ \A r \in 1 .. asked : r \in 1 .. asked' /\ ~(r > asked) /\ r \notin (asked + 1) .. asked'
        /\ \A r \in 1 .. asked' : r \in Requests
    BY RpcAssumption DEF RequestTypes, Requests
  <1>2. /\ \A r \in inFlight : r \in 1 .. asked /\ r \in Requests /\ result[r] = <<>>
        /\ \A r \in 1 .. asked : r \in Requests /\ (r \notin inFlight => Len(result[r]) = 1)
    BY Waiting DEF Books
  <1>3. \A r \in (asked + 1) .. asked' : r \in Requests /\ routed[r] = 0 /\ result[r] = <<>>
    BY <1>1 DEF Books
  <1>4. /\ result' \in [Requests -> Seq(Words)]
        /\ \A r \in Requests : /\ r \in rs => result'[r] = <<what>>
                               /\ r \notin rs => result'[r] = result[r]
    <2>1. \A r \in Requests : r \in rs => result[r] = <<>>
      BY <1>2, <1>3
    <2>2. QED
      BY <2>1, NotifySays
  <1>5. RequestTypes'
    <2>1. inFlight' \in SUBSET (1 .. asked')
      BY <1>1, <1>2
    <2>2. recalled' \in SUBSET (1 .. asked')
      BY <1>1 DEF RequestTypes
    <2>3. QED
      BY <1>1, <1>4, <2>1, <2>2 DEF RequestTypes
  <1>6. ASSUME NEW r \in 1 .. asked'
        PROVE  Len(result'[r]) + (IF r \in inFlight' THEN 1 ELSE 0) = 1
    <2>1. CASE r \in rs
      <3>1. result'[r] = <<what>> /\ r \notin inFlight'
        BY <1>1, <1>4, <2>1
      <3>2. QED
        BY <3>1, WordsDiffer
    <2>2. CASE r \notin rs /\ r \in inFlight'
      <3>1. result'[r] = <<>>
        BY <1>1, <1>2, <1>3, <1>4, <2>2
      <3>2. QED
        BY <2>2, <3>1
    <2>3. CASE r \notin rs /\ r \notin inFlight'
      <3>1. r \in 1 .. asked /\ r \notin inFlight
        BY <1>1, <2>3
      <3>2. Len(result'[r]) = 1
        BY <1>1, <1>2, <1>4, <2>3, <3>1
      <3>3. QED
        BY <2>3, <3>2
    <2>4. QED
      BY <2>1, <2>2, <2>3
  <1>7. OneResult'
    BY <1>6 DEF OneResult
  <1>8. RoutedTruth'
    <2> SUFFICES ASSUME NEW r \in 1 .. asked'
                 PROVE  /\ routed[r] <= 1
                        /\ result'[r] = <<"Ok">> => routed[r] = 1
                        /\ r \in recalled' \/ result'[r] \in {<<"Full">>, <<"LocalEncodeFailed">>} => routed[r] = 0
      BY DEF RoutedTruth
    <2>1. r \in Requests
      BY <1>1
    <2>2. /\ routed[r] <= 1 /\ (result[r] = <<"Ok">> => routed[r] = 1)
          /\ r \in recalled \/ result[r] \in {<<"Full">>, <<"LocalEncodeFailed">>} => routed[r] = 0
      <3>1. CASE r \in 1 .. asked
        BY <3>1 DEF Books, RoutedTruth
      <3>2. CASE r = asked + 1 /\ r \in (asked + 1) .. asked'
        <4>1. routed[r] = 0 /\ result[r] = <<>>
          BY <1>3, <3>2
        <4>2. QED
          BY <4>1, WordsDiffer
      <3>3. QED
        BY <1>1, <3>1, <3>2
    <2>3. r \in recalled' => routed[r] = 0
      BY <2>2
    <2>4. CASE r \notin rs
      BY <1>4, <2>1, <2>2, <2>3, <2>4
    <2>5. CASE r \in rs
      <3>1. result'[r] = <<what>>
        BY <1>4, <2>1, <2>5
      <3>2. result'[r] = <<"Ok">> => what = "Ok"
        BY <3>1, WordsDiffer, WordsAre
      <3>3. result'[r] \in {<<"Full">>, <<"LocalEncodeFailed">>} => what \in {"Full", "LocalEncodeFailed"}
        BY <3>1, WordsDiffer, WordsAre
      <3>4. QED
        BY <1>3, <2>2, <2>3, <2>5, <3>2, <3>3
    <2>6. QED
      BY <2>4, <2>5
  <1>9. \A r \in Requests : r > asked' => routed'[r] = 0 /\ result'[r] = <<>>
    <2> SUFFICES ASSUME NEW r \in Requests, r > asked'
                 PROVE  routed[r] = 0 /\ result'[r] = <<>>
      OBVIOUS
    <2>1. r > asked /\ r \notin 1 .. asked /\ r \notin (asked + 1) .. asked'
      BY <1>1 DEF Requests
    <2>2. r \notin rs
      BY <1>2, <2>1
    <2>3. QED
      BY <1>4, <2>1, <2>2 DEF Books
  <1>10. Sendable' = Sendable /\ SlotsFreed' /\ calls' \subseteq Sendable'
    BY DEF Sendable, Books, SlotsFreed
  <1>11. Answered' \subseteq 1 .. asked'
    BY <1>1 DEF Books
  <1>12. Books'
    <2>1. /\ Cardinality(routing) <= link.inFlightCap["server"]
          /\ Closed("server") => routing = {}
      BY DEF Books
    <2>2. QED
      BY <1>7, <1>8, <1>9, <1>10, <1>11, <2>1 DEF Books
  <1>13. Kept \ X \subseteq Kept'
    <2>1. Answered' \subseteq Answered \cup X /\ asked' \in Nat
      BY <1>1
    <2>2. ASSUME NEW r \in Kept, r \notin X
          PROVE  /\ routed'[r] = 0 /\ r \notin recalled'
                 /\ result'[r] \notin {<<"Full">>, <<"LocalEncodeFailed">>}
      <3>1. /\ r \in 1 .. asked /\ routed[r] = 0 /\ r \notin recalled
            /\ result[r] \notin {<<"Full">>, <<"LocalEncodeFailed">>}
        BY DEF Kept
      <3>2. r \in Requests /\ r \notin (asked + 1) .. asked'
        BY <1>1, <3>1
      <3>3. result'[r] \notin {<<"Full">>, <<"LocalEncodeFailed">>}
        <4>1. CASE r \notin rs
          BY <1>4, <3>1, <3>2, <4>1
        <4>2. CASE r \in rs
          <5>1. result'[r] = <<what>> /\ what \notin {"Full", "LocalEncodeFailed"}
            BY <1>4, <3>2, <4>2
          <5>2. QED
            BY <5>1, WordsDiffer, WordsAre
        <4>3. QED
          BY <4>1, <4>2
      <3>4. QED
        BY <2>2, <3>1, <3>3
    <2>3. QED
      BY <1>1, <2>1, <2>2, KeptStays
  <1>14. QED
    BY <1>5, <1>10, <1>12, <1>13

\* begin_close of the client.
LEMMA ClientCloseKeeps ==
    ASSUME RpcInv, NEW why \in {"IoError", "ConnectionClosed", "Idle"}, NEW also,
           BeginClose(why, also), also = (asked + 1) .. asked',
           asked' \in {asked, asked + 1}, asked' <= MaxRequests,
           overflowed' \in BOOLEAN, QueueSuffices',
           UNCHANGED <<link, recalled, routing, calls, routed, foul>>
    PROVE  RpcInv'
  <1>0. /\ SocketTypes /\ RequestTypes /\ Books /\ RequestsFresh /\ AnswersFresh
        /\ \A t \in Ends : WholeWay(t)
    BY DEF RpcInv
  <1>1. CloseSocket("client") /\ Notify(inFlight \cup also, why) /\ inFlight' = {}
    BY DEF BeginClose
  <1>2. "client" \in Ends /\ Peer("client") = "server" /\ "server" \in Ends
    BY DEF Ends, Peer
  <1>3. /\ SocketTypes' /\ Closed("client")' /\ (Closed("server")' <=> Closed("server"))
        /\ writeQueue'["client"] = <<>> /\ writeQueue'["server"] = writeQueue["server"]
        /\ Transit("client")' \in Seq(Unit) /\ Piece(Transit("client")', Transit("client"), 0)
        /\ Transit("server")' \in Seq(Unit)
        /\ \E d \in Nat : Piece(Transit("server")', Transit("server"), d)
    <2>1. /\ Closed(Peer("client"))' <=> Closed(Peer("client"))
          /\ Transit(Peer("client"))' \in Seq(Unit)
          /\ \E d \in Nat : Piece(Transit(Peer("client"))', Transit(Peer("client")), d)
          /\ writeQueue'[Peer("client")] = writeQueue[Peer("client")]
      BY <1>0, <1>1, <1>2, CloseCuts
    <2>2. /\ SocketTypes' /\ Closed("client")' /\ writeQueue'["client"] = <<>>
          /\ Transit("client")' \in Seq(Unit) /\ Piece(Transit("client")', Transit("client"), 0)
      BY <1>0, <1>1, <1>2, CloseCuts
    <2>3. Peer("client")' = "server"
      BY DEF Peer
    <2>4. QED
      BY <1>2, <2>1, <2>2, <2>3
  <1>4. \A t \in Ends : WholeWay(t)'
    BY <1>0, <1>1, <1>2, WholeCloses
  <1>5. /\ Transit("client") \in Seq(Unit) /\ Transit("server") \in Seq(Unit)
        /\ writeQueue["client"] \in Seq(Entry) /\ writeQueue["server"] \in Seq(Entry)
    BY <1>0, <1>2, SocketParts
  <1>6. /\ Downstream(Transit("server")', writeQueue["server"], Sendable)
        /\ Answering(Transit("server")', writeQueue["server"]) \subseteq Answering(Transit("server"), writeQueue["server"])
    <2>1. PICK d \in Nat : Piece(Transit("server")', Transit("server"), d)
      BY <1>3
    <2>2. Downstream(Transit("server"), writeQueue["server"], Sendable)
      BY <1>0 DEF AnswersFresh
    <2>3. QED
      BY <1>3, <1>5, <2>1, <2>2, DownstreamPiece
  <1>7. Answered' \subseteq Answered
    BY <1>3, <1>6 DEF Answered
  <1>8. why \in Words /\ why # "Ok" /\ why \notin {"Full", "LocalEncodeFailed"}
    <2>1. why \in Words
      BY DEF Words
    <2>2. why # "Ok" /\ why \notin {"Full", "LocalEncodeFailed"}
      OBVIOUS
    <2>3. QED
      BY <2>1, <2>2
  <1>9. RequestTypes' /\ Books' /\ Kept \subseteq Kept' /\ Sendable' = Sendable
    <2>1. Cardinality(inFlight') <= link.inFlightCap["client"]
      <3>1. Cardinality({}) = 0
        BY FS_EmptySet
      <3>2. QED
        BY <1>0, <1>1, <3>1, CapsAre
    <2>2. inFlight' = (inFlight \cup ((asked + 1) .. asked')) \ (inFlight \cup also)
      BY <1>1
    <2>3. /\ recalled \subseteq recalled' /\ recalled' \subseteq recalled \cup {}
          /\ {} \subseteq 1 .. asked /\ \A r \in {} : routed[r] = 0
      OBVIOUS
    <2>4. RequestTypes' /\ Books' /\ Kept \ {} \subseteq Kept' /\ Sendable' = Sendable
      <3>1. Tells(inFlight \cup also, why, {})
        BY <1>1, <1>8, <2>2, <2>3 DEF Tells
      <3>2. QED
        BY <1>0, <1>1, <1>3, <1>7, <1>8, <2>1, <3>1, ClientStep
    <2>5. QED
      BY <2>4
  <1>10. RequestsFresh'
    <2>1. Upstream(Transit("client")', <<>>, Kept, {})
      BY <1>0, <1>3, <1>5, UpstreamPiece DEF RequestsFresh
    <2>2. Upstream(Transit("client")', <<>>, Kept', {})
      BY <1>9, <2>1, UpstreamSets
    <2>3. QED
      BY <1>1, <1>3, <2>2 DEF RequestsFresh
  <1>11. AnswersFresh'
    BY <1>3, <1>6, <1>9 DEF AnswersFresh
  <1>12. QED
    BY <1>3, <1>4, <1>9, <1>10, <1>11 DEF RpcInv

LEMMA FewerWaiting ==
    ASSUME SocketTypes, RequestTypes, Books, inFlight' \subseteq inFlight
    PROVE  Cardinality(inFlight') <= link.inFlightCap["client"]
  <1>1. IsFiniteSet(inFlight) /\ Cardinality(inFlight) \in Nat
    BY FiniteSides
  <1>2. Cardinality(inFlight') <= Cardinality(inFlight) /\ IsFiniteSet(inFlight')
    BY <1>1, FS_Subset
  <1>3. Cardinality(inFlight') \in Nat
    BY <1>2, FS_CardinalityType
  <1>4. Cardinality(inFlight) <= link.inFlightCap["client"] /\ link.inFlightCap["client"] \in Nat
    BY CapsAre DEF Books
  <1>5. QED
    BY <1>1, <1>2, <1>3, <1>4

\* Nobody hears of it.
LEMMA StutterKeeps ==
    ASSUME RpcInv, UNCHANGED <<socket, link, asked, inFlight, result, recalled, overflowed>>,
           UNCHANGED <<routing, calls, routed, foul>>
    PROVE  RpcInv'
  <1>1. UNCHANGED <<phase, writeQueue, writing, wrote, wire, inbound, draining>>
    BY DEF socket
  <1>2. SocketTypes'
    BY <1>1 DEF RpcInv, SocketTypes
  <1>3. \A t \in Ends : Transit(t)' = Transit(t) /\ (Closed(t)' <=> Closed(t))
    BY <1>1 DEF Transit, Closed, Peer
  <1>4. "client" \in Ends /\ Sends("client", writeQueue["client"])
    BY <1>1, <1>3, PeerIs DEF Sends, SameClosed, Ends
  <1>5. QED
    BY <1>2, <1>4, SendsKeeps

LEMMA OnFrameKeeps ==
    ASSUME RpcInv, OnFrame, UNCHANGED server
    PROVE  RpcInv'
  <1> DEFINE e == Frame("client")
             rs == {e.req} \cap inFlight
             what == IF e.kind = "reply" THEN "Ok" ELSE "ServerError"
  <1>0. /\ SocketTypes /\ RequestTypes /\ Books /\ RequestsFresh /\ AnswersFresh
        /\ \A t \in Ends : WholeWay(t)
    BY DEF RpcInv
  <1>1. UNCHANGED <<link, asked, recalled, overflowed, routing, calls, routed, foul>>
    BY DEF OnFrame, server
  <1>2. /\ (asked + 1) .. asked' = {} /\ asked' \in {asked, asked + 1} /\ asked' <= MaxRequests
        /\ asked \in Nat
    BY <1>0, <1>1, RequestCount
  <1>3. QueueSuffices' /\ overflowed' \in BOOLEAN
    BY <1>0, <1>1 DEF Books, QueueSuffices, RequestTypes
  <1>4. CASE BeginClose("ConnectionClosed", {})
    <2>1. "ConnectionClosed" \in {"IoError", "ConnectionClosed", "Idle"}
      OBVIOUS
    <2>2. QED
      BY <1>1, <1>2, <1>3, <1>4, <2>1, ClientCloseKeeps
  <1>5. CASE Decodes("client") /\ e.kind # "request" /\ ~BeginClose("ConnectionClosed", {})
    <2>1. /\ HasFrame("client") /\ TakeFrame("client") /\ Notify(rs, what) /\ inFlight' = inFlight \ {e.req}
          /\ UNCHANGED <<phase, writeQueue, writing, wrote, wire, draining>>
      BY <1>5 DEF OnFrame
    <2>2. "client" \in Ends /\ "server" \in Ends /\ Peer("client") = "server" /\ Peer("client")' = "server"
      BY DEF Ends, Peer
    <2>3. /\ writeQueue' \in [Ends -> Seq(Entry)]
          /\ \A t \in Ends : Len(writeQueue'[t]) <= link.queueCap[t]
      BY <1>0, <2>1 DEF SocketTypes
    <2>4. /\ SocketTypes' /\ SameClosed /\ Transit("client")' = Transit("client")
          /\ Transit("server")' \in Seq(Unit) /\ Piece(Transit("server")', Transit("server"), 2)
          /\ Len(Transit("server")') = Len(Transit("server")) - 2 /\ Len(Transit("server")) >= 2
          /\ Transit("server")[1] = e
      <3>1. /\ SocketTypes' /\ SameClosed /\ Transit("client")' = Transit("client")
            /\ Transit(Peer("client"))' \in Seq(Unit) /\ Piece(Transit(Peer("client"))', Transit(Peer("client")), 2)
            /\ Len(Transit(Peer("client"))') = Len(Transit(Peer("client"))) - 2
            /\ Len(Transit(Peer("client"))) >= 2 /\ Transit(Peer("client"))[1] = inbound["client"][1]
        BY <1>0, <1>1, <2>1, <2>2, <2>3, TakeFrameDrops
      <3>2. QED
        BY <2>2, <3>1 DEF Frame
    <2>5. /\ Transit("server") \in Seq(Unit) /\ writeQueue["server"] \in Seq(Entry)
          /\ Len(Transit("server")) \in Nat /\ 1 \in 1 .. Len(Transit("server"))
      BY <1>0, <2>2, <2>4, SocketParts
    <2>6. e.req \in Requests
      BY <1>0, <1>5, <2>4, <2>5 DEF AnswersFresh, Downstream
    <2>7. e.req \in Answered
      BY <2>4, <2>5, <2>6 DEF Answered, Answering
    <2>8. e.kind = "reply" => e.req \in Sendable
      BY <1>0, <2>4, <2>5 DEF AnswersFresh, Downstream
    <2>9. /\ Downstream(Transit("server")', writeQueue["server"], Sendable)
          /\ Answering(Transit("server")', writeQueue["server"]) \subseteq Answering(Transit("server"), writeQueue["server"])
      BY <1>0, <2>4, <2>5, DownstreamPiece DEF AnswersFresh
    <2>10. Answered' \subseteq Answered
      BY <2>1, <2>9 DEF Answered
    <2>11. (Closed("client")' <=> Closed("client")) /\ (Closed("server")' <=> Closed("server"))
      BY <2>2, <2>4 DEF SameClosed
    <2>12. RequestTypes' /\ Books' /\ Kept \subseteq Kept' /\ Sendable' = Sendable
      <3>1. what \in Words /\ what \notin {"Full", "LocalEncodeFailed"} /\ (what = "Ok" => e.kind = "reply")
        BY DEF Words
      <3>2. what = "Ok" => \A r \in rs : routed[r] = 1
        BY <2>6, <2>8, <3>1, RpcAssumption DEF Sendable, Requests
      <3>3. /\ rs \subseteq inFlight \cup ((asked + 1) .. asked')
            /\ inFlight' = (inFlight \cup ((asked + 1) .. asked')) \ rs
        BY <1>2, <2>1
      <3>4. /\ recalled \subseteq recalled' /\ recalled' \subseteq recalled \cup {}
            /\ {} \subseteq 1 .. asked /\ \A r \in {} : routed[r] = 0
        BY <1>1
      <3>5. Closed("client")' => inFlight' = {}
        BY <1>0, <2>1, <2>11 DEF Books, OneResult
      <3>6. Cardinality(inFlight') <= link.inFlightCap["client"]
        BY <1>0, <2>1, FewerWaiting
      <3> HIDE DEF rs, what, e
      <3>7. RequestTypes' /\ Books' /\ Kept \ {} \subseteq Kept' /\ Sendable' = Sendable
        <4>1. Tells(rs, what, {})
          BY <1>2, <2>1, <3>1, <3>2, <3>3, <3>4 DEF Tells
        <4>2. QED
          BY <1>0, <1>1, <1>3, <2>10, <2>11, <3>1, <3>5, <3>6, <4>1, ClientStep
      <3>8. QED
        BY <3>7
    <2>13. RequestsFresh'
      <3>1. \A r \in Kept : r \in inFlight => r \in inFlight'
        BY <2>1, <2>7 DEF Kept
      <3>2. Upstream(Transit("client"), writeQueue["client"], Kept', inFlight')
        BY <1>0, <2>12, <3>1, UpstreamSets DEF RequestsFresh
      <3>3. QED
        BY <2>1, <2>4, <3>2 DEF RequestsFresh
    <2>14. AnswersFresh'
      BY <2>1, <2>9, <2>12 DEF AnswersFresh
    <2>15. \A t \in Ends : WholeWay(t)'
      BY <1>0, <2>2, <2>4, WholeTakes
    <2>16. QED
      BY <2>4, <2>12, <2>13, <2>14, <2>15 DEF RpcInv
  <1>6. QED
    BY <1>4, <1>5 DEF OnFrame

\* Only the client's queue changes.
LEMMA ClientQueueMoves ==
    ASSUME SocketTypes, NEW q \in Seq(Entry), Len(q) <= link.queueCap["client"],
           writeQueue' = [writeQueue EXCEPT !["client"] = q],
           UNCHANGED <<link, phase, writing, wrote, wire, inbound, draining>>
    PROVE  /\ SocketTypes' /\ SameClosed /\ writeQueue'["client"] = q
           /\ writeQueue'["server"] = writeQueue["server"]
           /\ \A t \in Ends : Transit(t)' = Transit(t)
  <1>1. /\ writeQueue' \in [Ends -> Seq(Entry)] /\ writeQueue'["client"] = q
        /\ \A t \in Ends : t # "client" => writeQueue'[t] = writeQueue[t]
    BY DEF SocketTypes, Ends
  <1>2. SocketTypes'
    BY <1>1 DEF SocketTypes
  <1>3. SameClosed /\ \A t \in Ends : Transit(t)' = Transit(t)
    BY DEF SameClosed, Closed, Transit, Peer
  <1>4. writeQueue'["server"] = writeQueue["server"]
    BY <1>1 DEF Ends
  <1>5. QED
    BY <1>1, <1>2, <1>3, <1>4

LEMMA TimesOutKeeps ==
    ASSUME RpcInv, NEW r \in inFlight, TimesOut(r), ~Closed("client"),
           UNCHANGED <<asked, overflowed, server>>
    PROVE  RpcInv'
  <1> DEFINE Q == writeQueue["client"]
             S == Transit("client")
             waits == \E i \in DOMAIN Q : Q[i].tag = r
             X == IF waits THEN {r} ELSE {}
  <1>0. /\ SocketTypes /\ RequestTypes /\ Books /\ RequestsFresh /\ AnswersFresh
        /\ \A t \in Ends : WholeWay(t)
    BY DEF RpcInv
  <1>1. /\ inFlight' = inFlight \ {r} /\ Notify({r}, "Timeout")
        /\ UNCHANGED <<phase, writing, wrote, wire, inbound, draining>>
        /\ UNCHANGED <<link, asked, overflowed, routing, calls, routed, foul>>
        /\ waits => writeQueue' = [writeQueue EXCEPT !["client"] = Recall(Q, r)] /\ recalled' = recalled \cup {r}
        /\ ~waits => writeQueue' = writeQueue /\ recalled' = recalled
    BY DEF TimesOut, server
  <1>2. /\ (asked + 1) .. asked' = {} /\ asked' \in {asked, asked + 1} /\ asked' <= MaxRequests
        /\ asked \in Nat
    BY <1>0, <1>1, RequestCount
  <1>3. S \in Seq(Unit) /\ Q \in Seq(Entry) /\ Len(Q) <= link.queueCap["client"] /\ DOMAIN Q = 1 .. Len(Q)
    BY <1>0, SocketParts DEF Ends
  <1>4. link.queueCap["client"] \in Nat /\ Len(Q) \in Nat
    BY <1>0, <1>3, CapsAre
  <1>5. Upstream(S, Q, Kept, inFlight)
    BY <1>0 DEF RequestsFresh
  <1> HIDE DEF Q, S
  <1>6. PICK q \in Seq(Entry) : /\ writeQueue' = [writeQueue EXCEPT !["client"] = q]
                                /\ Len(q) <= link.queueCap["client"]
                                /\ Upstream(S, q, Kept \ X, inFlight')
    <2>1. CASE waits
      <3>1. /\ Recall(Q, r) \in Seq(Entry) /\ Len(Recall(Q, r)) = Len(Q) - 1
            /\ Upstream(S, Recall(Q, r), Kept \ {r}, inFlight \ {r})
        BY <1>3, <1>5, <2>1, UpstreamRecall
      <3>2. Len(Recall(Q, r)) <= link.queueCap["client"]
        BY <1>3, <1>4, <3>1
      <3>3. QED
        BY <1>1, <2>1, <3>1, <3>2
    <2>2. CASE ~waits
      <3>1. writeQueue' = [writeQueue EXCEPT !["client"] = Q]
        BY <1>0, <1>1, <2>2 DEF SocketTypes, Q
      <3>2. \A i \in 1 .. Len(Q) : Q[i].tag # r
        BY <1>3, <2>2
      <3>3. Upstream(S, Q, Kept, inFlight \ {r})
        BY <1>5, <3>2 DEF Upstream, Queued
      <3>4. Kept \ X = Kept
        BY <2>2
      <3>5. Upstream(S, Q, Kept \ X, inFlight')
        BY <1>1, <3>3, <3>4
      <3>6. QED
        BY <1>3, <3>1, <3>5
    <2>3. QED
      BY <2>1, <2>2
  <1>7. /\ SocketTypes' /\ SameClosed /\ writeQueue'["client"] = q
        /\ writeQueue'["server"] = writeQueue["server"]
        /\ Transit("client")' = S /\ Transit("server")' = Transit("server")
    BY <1>0, <1>1, <1>6, ClientQueueMoves DEF Ends, S
  <1>8. Answered' = Answered
    BY <1>7 DEF Answered
  <1>9. (Closed("client")' <=> Closed("client")) /\ (Closed("server")' <=> Closed("server"))
    BY <1>7 DEF SameClosed, Ends
  <1>10. RequestTypes' /\ Books' /\ Kept \ X \subseteq Kept' /\ Sendable' = Sendable
    <2>1. /\ "Timeout" \in Words /\ "Timeout" # "Ok" /\ "Timeout" \notin {"Full", "LocalEncodeFailed"}
      BY DEF Words
    <2>2. /\ {r} \subseteq inFlight \cup ((asked + 1) .. asked')
          /\ inFlight' = (inFlight \cup ((asked + 1) .. asked')) \ {r}
      BY <1>1, <1>2
    <2>3. /\ recalled \subseteq recalled' /\ recalled' \subseteq recalled \cup X
      BY <1>1
    <2>4. X \subseteq 1 .. asked /\ \A t \in X : routed[t] = 0
      <3>1. waits => r \in Kept
        BY <1>3, <1>5 DEF Upstream, Queued
      <3>2. QED
        BY <3>1 DEF Kept
    <2>5. Closed("client")' => inFlight' = {}
      BY <1>9
    <2>6. Cardinality(inFlight') <= link.inFlightCap["client"]
      BY <1>0, <1>1, FewerWaiting
    <2>7. QueueSuffices' /\ overflowed' \in BOOLEAN
      BY <1>0, <1>1 DEF Books, QueueSuffices, RequestTypes
    <2> HIDE DEF X
    <2>8. QED
      <3>1. Tells({r}, "Timeout", X)
        BY <1>1, <1>2, <2>1, <2>2, <2>3, <2>4 DEF Tells
      <3>2. QED
        BY <1>0, <1>1, <1>8, <1>9, <2>1, <2>5, <2>6, <2>7, <3>1, ClientStep
  <1>11. RequestsFresh'
    <2>1. Upstream(S, q, Kept', inFlight')
      BY <1>6, <1>10, UpstreamSets
    <2>2. QED
      BY <1>7, <2>1 DEF RequestsFresh
  <1>12. AnswersFresh'
    BY <1>0, <1>7, <1>10 DEF AnswersFresh
  <1>13. \A t \in Ends : WholeWay(t)'
    <2>1. \A t \in Ends : Transit(t)' = Transit(t)
      BY <1>7 DEF Ends, S
    <2>2. QED
      BY <1>0, <1>7, <2>1, PeerIs DEF WholeWay, SameClosed
  <1>14. QED
    BY <1>7, <1>10, <1>11, <1>12, <1>13 DEF RpcInv

LEMMA RefuseKeeps ==
    ASSUME RpcInv, asked < MaxRequests, asked' = asked + 1,
           NEW what \in {"ConnectionClosed", "Full", "LocalEncodeFailed"}, Refuse(asked + 1, what),
           UNCHANGED <<recalled, server>>
    PROVE  RpcInv'
  <1> DEFINE r == asked + 1
  <1>0. /\ SocketTypes /\ RequestTypes /\ Books /\ RequestsFresh /\ AnswersFresh
        /\ \A t \in Ends : WholeWay(t)
    BY DEF RpcInv
  <1>1. /\ Notify({r}, what) /\ UNCHANGED <<inFlight, overflowed, recalled>>
        /\ UNCHANGED <<phase, writeQueue, writing, wrote, wire, inbound, draining>>
        /\ UNCHANGED <<link, routing, calls, routed, foul>>
    BY DEF Refuse, socket, server
  <1>2. /\ asked \in Nat /\ MaxRequests \in Nat /\ (asked + 1) .. asked' = {r} /\ r \notin 1 .. asked
        /\ r \in Nat /\ asked' <= MaxRequests
    BY <1>0, RequestCount
  <1>3. SocketTypes'
    BY <1>0, <1>1 DEF SocketTypes
  <1>4. \A t \in Ends : Transit(t)' = Transit(t) /\ (Closed(t)' <=> Closed(t))
    BY <1>1 DEF Transit, Closed, Peer
  <1>5. /\ Transit("client")' = Transit("client") /\ Transit("server")' = Transit("server")
        /\ (Closed("client")' <=> Closed("client")) /\ (Closed("server")' <=> Closed("server"))
    BY <1>4 DEF Ends
  <1>6. Answered' = Answered
    BY <1>1, <1>5 DEF Answered
  <1>7. RequestTypes' /\ Books' /\ Kept \subseteq Kept' /\ Sendable' = Sendable
    <2>1. what \in Words /\ what # "Ok"
      BY DEF Words
    <2>2. r \notin inFlight
      BY <1>0, <1>2 DEF RequestTypes
    <2>3. Tells({r}, what, {})
      BY <1>1, <1>2, <2>1, <2>2 DEF Tells
    <2>4. QueueSuffices' /\ overflowed' \in BOOLEAN
      BY <1>0, <1>1 DEF Books, QueueSuffices, RequestTypes
    <2>5. Closed("client")' => inFlight' = {}
      BY <1>0, <1>1, <1>5 DEF Books, OneResult
    <2>6. Cardinality(inFlight') <= link.inFlightCap["client"]
      BY <1>0, <1>1 DEF Books
    <2>7. RequestTypes' /\ Books' /\ Kept \ {} \subseteq Kept' /\ Sendable' = Sendable
      BY <1>0, <1>1, <1>5, <1>6, <2>1, <2>3, <2>4, <2>5, <2>6, ClientStep
    <2>8. QED
      BY <2>7
  <1>8. RequestsFresh'
    <2>1. Upstream(Transit("client"), writeQueue["client"], Kept', inFlight)
      BY <1>0, <1>7, UpstreamSets DEF RequestsFresh
    <2>2. QED
      BY <1>1, <1>5, <2>1 DEF RequestsFresh
  <1>9. AnswersFresh'
    BY <1>0, <1>1, <1>5, <1>7 DEF AnswersFresh
  <1>10. \A t \in Ends : WholeWay(t)'
    BY <1>0, <1>4, PeerIs DEF WholeWay
  <1>11. QED
    BY <1>3, <1>7, <1>8, <1>9, <1>10 DEF RpcInv

LEMMA OverflowKeeps ==
    ASSUME RpcInv, asked < MaxRequests, asked' = asked + 1, Overflow(asked + 1), ~MapFull, NoPlace,
           UNCHANGED <<recalled, server>>
    PROVE  RpcInv'
  <1>0. SocketTypes /\ RequestTypes /\ Books
    BY DEF RpcInv
  <1>1. /\ BeginClose("IoError", {asked + 1}) /\ overflowed' = TRUE
        /\ UNCHANGED <<link, recalled, routing, calls, routed, foul>>
    BY DEF Overflow, server
  <1>2. /\ asked \in Nat /\ {asked + 1} = (asked + 1) .. asked' /\ asked' \in {asked, asked + 1}
        /\ asked' <= MaxRequests
    BY <1>0, RequestCount
  <1>3. link.queueCap["client"] < link.inFlightCap["client"]
    <2>1. /\ link.queueCap["client"] \in Nat /\ link.inFlightCap["client"] \in Nat
          /\ Cardinality(inFlight) \in Nat /\ Len(writeQueue["client"]) \in Nat
      BY <1>0, CapsAre, FiniteSides, SocketParts DEF Ends
    <2>2. Len(writeQueue["client"]) <= Cardinality(inFlight)
      BY QueueFits
    <2>3. QED
      BY <2>1, <2>2 DEF MapFull, NoPlace
  <1>4. QueueSuffices'
    <2>1. ~(link.queueCap["client"] >= link.inFlightCap["client"])
      BY <1>0, <1>3, CapsAre
    <2>2. QED
      BY <1>1, <2>1 DEF QueueSuffices
  <1>5. overflowed' \in BOOLEAN /\ "IoError" \in {"IoError", "ConnectionClosed", "Idle"}
    BY <1>1
  <1>6. QED
    BY <1>1, <1>2, <1>4, <1>5, ClientCloseKeeps

LEMMA AdmitKeeps ==
    ASSUME RpcInv, asked < MaxRequests, asked' = asked + 1, Admit(asked + 1), ~MapFull, ~NoPlace,
           ~Closed("client"), UNCHANGED <<recalled, server>>
    PROVE  RpcInv'
  <1> DEFINE r == asked + 1
             Q == writeQueue["client"]
             S == Transit("client")
             x == Tagged(r, Encode(r, "request"))
             q == Append(Q, x)
  <1>0. /\ SocketTypes /\ RequestTypes /\ Books /\ RequestsFresh /\ AnswersFresh
        /\ \A t \in Ends : WholeWay(t)
    BY DEF RpcInv
  <1>1. /\ inFlight' = inFlight \cup {r} /\ result' = result /\ UNCHANGED <<overflowed, recalled>>
        /\ StartWrite("client", q, writing["client"])
        /\ UNCHANGED <<link, phase, wrote, wire, inbound>> /\ draining' = draining
        /\ UNCHANGED <<link, routing, calls, routed, foul>>
    BY DEF Admit, server
  <1>2. /\ asked \in Nat /\ MaxRequests \in Nat /\ (asked + 1) .. asked' = {r} /\ r \notin 1 .. asked
        /\ r \in Nat /\ asked' <= MaxRequests /\ r \in 1 .. asked' /\ r > asked
    BY <1>0, RequestCount
  <1>3. r \in Requests
    BY <1>2 DEF Requests
  <1>4. /\ S \in Seq(Unit) /\ Q \in Seq(Entry) /\ Len(Q) \in Nat /\ link.queueCap["client"] \in Nat
    BY <1>0, SocketParts DEF Ends
  <1>5. Kept \in SUBSET Requests /\ r \notin Kept
    BY <1>0, <1>2, KeptKnown
  <1>6. x \in Entry /\ Upstream(S, q, Kept \cup {r}, inFlight \cup {r})
    <2>1. Upstream(S, Q, Kept, inFlight)
      BY <1>0 DEF RequestsFresh
    <2> HIDE DEF S, Q, r
    <2>2. QED
      BY <1>3, <1>4, <1>5, <2>1, UpstreamPush
  <1>7. q \in Seq(Entry) /\ Len(q) <= link.queueCap["client"]
    <2>1. Len(Q) < link.queueCap["client"]
      BY <1>4 DEF NoPlace
    <2> HIDE DEF Q, x
    <2>2. q \in Seq(Entry) /\ Len(q) = Len(Q) + 1
      BY <1>4, <1>6
    <2>3. QED
      BY <1>4, <2>1, <2>2
  <1> HIDE DEF q, x, S
  <1>8. SocketTypes' /\ Sends("client", q)
    <2>1. draining' \in [Ends -> BOOLEAN] /\ "client" \in Ends
      BY <1>0, <1>1 DEF SocketTypes, Ends
    <2>2. QED
      BY <1>0, <1>1, <1>7, <2>1, QueueSends
  <1>9. /\ SameClosed /\ writeQueue'["server"] = writeQueue["server"]
        /\ Transit("server")' = Transit("server")
    BY <1>8 DEF Sends, Peer
  <1>10. (Closed("client")' <=> Closed("client")) /\ (Closed("server")' <=> Closed("server"))
    BY <1>9 DEF SameClosed, Ends
  <1>11. Answered' = Answered
    BY <1>9 DEF Answered
  <1>12. r \notin inFlight
    BY <1>0, <1>2 DEF RequestTypes
  <1>13. RequestTypes' /\ Books' /\ Kept \subseteq Kept' /\ Sendable' = Sendable
    <2>1. "Timeout" \in Words /\ "Timeout" # "Ok" /\ "Timeout" \notin {"Full", "LocalEncodeFailed"}
      BY DEF Words
    <2>2. Notify({}, "Timeout")
      BY <1>0, <1>1 DEF Notify, RequestTypes
    <2>3. Tells({}, "Timeout", {})
      BY <1>1, <1>2, <2>1, <2>2 DEF Tells
    <2>4. QueueSuffices' /\ overflowed' \in BOOLEAN
      BY <1>0, <1>1 DEF Books, QueueSuffices, RequestTypes
    <2>5. Cardinality(inFlight') <= link.inFlightCap["client"]
      <3>1. IsFiniteSet(inFlight) /\ Cardinality(inFlight) \in Nat /\ link.inFlightCap["client"] \in Nat
        BY <1>0, FiniteSides, CapsAre
      <3>2. Cardinality(inFlight \cup {r}) = Cardinality(inFlight) + 1
        BY <1>12, <3>1, FS_AddElement
      <3>3. QED
        BY <1>1, <3>1, <3>2 DEF MapFull
    <2>6. RequestTypes' /\ Books' /\ Kept \ {} \subseteq Kept' /\ Sendable' = Sendable
      BY <1>0, <1>1, <1>10, <1>11, <2>1, <2>3, <2>4, <2>5, ClientStep
    <2>7. QED
      BY <2>6
  <1>14. r \in Kept'
    <2>1. routed[r] = 0 /\ result[r] = <<>> /\ Answered \subseteq 1 .. asked
      BY <1>0, <1>2, <1>3 DEF Books
    <2>2. r \notin recalled
      BY <1>0, <1>2 DEF RequestTypes
    <2>3. result[r] \notin {<<"Full">>, <<"LocalEncodeFailed">>}
      BY <2>1, WordsDiffer
    <2>4. r \in 1 .. asked' /\ routed'[r] = 0 /\ r \notin recalled' /\ r \notin Answered'
          /\ result'[r] \notin {<<"Full">>, <<"LocalEncodeFailed">>}
      BY <1>1, <1>2, <1>11, <2>1, <2>2, <2>3
    <2> HIDE DEF r
    <2>5. QED
      BY <2>4 DEF Kept
  <1>15. /\ Upstream(Transit("client")', writeQueue'["client"], Kept \cup {r}, inFlight \cup {r})
         /\ q # <<>> => \E t \in Numbers, k \in FrameKinds : Head(q).units = Encode(t, k)
    <2>1. Kept \cup {r} \in SUBSET Requests
      BY <1>3, <1>5
    <2> HIDE DEF r
    <2>2. QED
      BY <1>0, <1>6, <1>7, <1>8, <2>1, UpstreamSends DEF S
  <1>16. RequestsFresh'
    <2>1. Upstream(Transit("client")', writeQueue'["client"], Kept', inFlight')
      <3>1. Kept \cup {r} \subseteq Kept'
        BY <1>13, <1>14
      <3> HIDE DEF r
      <3>2. QED
        BY <1>1, <1>15, <3>1, UpstreamSets
    <2>2. QED
      BY <2>1 DEF RequestsFresh
  <1>17. AnswersFresh'
    BY <1>0, <1>9, <1>13 DEF AnswersFresh
  <1>18. \A t \in Ends : WholeWay(t)'
    <2>1. "client" \in Ends
      BY DEF Ends
    <2>2. QED
      BY <1>0, <1>8, <1>15, <2>1, WholeSends
  <1>19. QED
    BY <1>8, <1>13, <1>16, <1>17, <1>18 DEF RpcInv

LEMMA OnRequestKeeps ==
    ASSUME RpcInv, NEW fits \in BOOLEAN, OnRequest(fits), UNCHANGED server
    PROVE  RpcInv'
  <1>1. asked < MaxRequests /\ asked' = asked + 1 /\ recalled' = recalled
    BY DEF OnRequest
  <1>2. /\ "ConnectionClosed" \in {"ConnectionClosed", "Full", "LocalEncodeFailed"}
        /\ "Full" \in {"ConnectionClosed", "Full", "LocalEncodeFailed"}
        /\ "LocalEncodeFailed" \in {"ConnectionClosed", "Full", "LocalEncodeFailed"}
    OBVIOUS
  <1>3. CASE \/ Refuse(asked + 1, "ConnectionClosed") \/ Refuse(asked + 1, "Full")
             \/ Refuse(asked + 1, "LocalEncodeFailed")
    BY <1>1, <1>2, <1>3, RefuseKeeps
  <1>4. CASE Overflow(asked + 1) /\ ~MapFull /\ NoPlace
    BY <1>1, <1>4, OverflowKeeps
  <1>5. CASE Admit(asked + 1) /\ ~Closed("client") /\ ~MapFull /\ ~NoPlace
    BY <1>1, <1>5, AdmitKeeps
  <1>6. QED
    BY <1>3, <1>4, <1>5 DEF OnRequest

LEMMA OnDeadlineKeeps ==
    ASSUME RpcInv, NEW r \in Requests, OnDeadline(r), UNCHANGED server
    PROVE  RpcInv'
  <1>1. UNCHANGED <<asked, overflowed>> /\ UNCHANGED <<link, routing, calls, routed, foul>>
    BY DEF OnDeadline, server
  <1>2. CASE UNCHANGED <<inFlight, result, recalled, socket>>
    BY <1>1, <1>2, StutterKeeps
  <1>3. CASE TimesOut(r) /\ r \in inFlight /\ ~Closed("client")
    BY <1>1, <1>3, TimesOutKeeps
  <1>4. QED
    BY <1>2, <1>3 DEF OnDeadline

\* The other handlers that close the client.
LEMMA ClientEndsKeeps ==
    ASSUME RpcInv, NEW why \in {"IoError", "ConnectionClosed", "Idle"}, BeginClose(why, {}),
           UNCHANGED <<asked, recalled, overflowed, server>>
    PROVE  RpcInv'
  <1>0. RequestTypes /\ Books
    BY DEF RpcInv
  <1>1. /\ (asked + 1) .. asked' = {} /\ asked' \in {asked, asked + 1} /\ asked' <= MaxRequests
    BY <1>0, RequestCount
  <1>2. UNCHANGED <<link, recalled, routing, calls, routed, foul>>
    BY DEF server
  <1>3. QueueSuffices' /\ overflowed' \in BOOLEAN
    BY <1>0, <1>2 DEF Books, QueueSuffices, RequestTypes
  <1>4. QED
    BY <1>1, <1>2, <1>3, ClientCloseKeeps

LEMMA OnConnectedKeeps ==
    ASSUME RpcInv, NEW ok \in BOOLEAN, OnConnected(ok), UNCHANGED server
    PROVE  RpcInv'
  <1>1. UNCHANGED <<asked, recalled, overflowed>> /\ UNCHANGED <<link, routing, calls, routed, foul>>
    BY DEF OnConnected, server
  <1>2. CASE ok
    <2>1. OnConnected(TRUE)
      BY <1>2 DEF OnConnected
    <2>2. UNCHANGED <<inFlight, result>>
      BY <2>1 DEF OnConnected
    <2>3. SocketTypes' /\ Sends("client", writeQueue["client"])
      BY <1>1, <2>1, OnConnectedSends DEF RpcInv
    <2>4. QED
      BY <1>1, <2>2, <2>3, SendsKeeps DEF Ends
  <1>3. CASE ~ok
    <2>1. BeginClose("IoError", {}) /\ "IoError" \in {"IoError", "ConnectionClosed", "Idle"}
      BY <1>3 DEF OnConnected
    <2>2. QED
      BY <1>1, <2>1, ClientEndsKeeps
  <1>4. QED
    BY <1>2, <1>3

-----------------------------------------------------------------------------
(* The handlers of the connection.                                         *)

\* A handler of the connection that routes nothing; those of X it answers.
LEMMA ServerStep ==
    ASSUME RequestTypes, Books, SocketTypes, NEW X, X \subseteq 1 .. asked,
           Answered' \subseteq Answered \cup X,
           calls' \subseteq calls, routing' \subseteq routing, routing' \subseteq calls',
           Closed("server")' => routing' = {}, Closed("client")' <=> Closed("client"),
           UNCHANGED <<link, asked, inFlight, result, recalled, overflowed, routed, foul>>
    PROVE  RequestTypes' /\ Books' /\ Kept \ X \subseteq Kept' /\ Sendable' = Sendable
  <1>1. RequestTypes'
    BY DEF RequestTypes
  <1>2. Sendable' = Sendable
    BY DEF Sendable
  <1>3. OneResult' /\ RoutedTruth' /\ QueueSuffices' /\ SlotsFreed'
    BY DEF Books, OneResult, RoutedTruth, QueueSuffices, SlotsFreed
  <1>4. Cardinality(routing') <= link.inFlightCap["server"]
    <2>1. IsFiniteSet(routing) /\ Cardinality(routing) \in Nat /\ link.inFlightCap["server"] \in Nat
      BY FiniteSides, CapsAre
    <2>2. IsFiniteSet(routing') /\ Cardinality(routing') <= Cardinality(routing)
      BY <2>1, FS_Subset
    <2>3. Cardinality(routing') \in Nat
      BY <2>2, FS_CardinalityType
    <2>4. Cardinality(routing) <= link.inFlightCap["server"]
      BY DEF Books
    <2>5. QED
      BY <2>1, <2>2, <2>3, <2>4
  <1>5. Books'
    <2>1. /\ Cardinality(inFlight) <= link.inFlightCap["client"]
          /\ \A r \in Requests : r > asked => routed[r] = 0 /\ result[r] = <<>>
          /\ calls \subseteq Sendable /\ Answered \subseteq 1 .. asked
      BY DEF Books
    <2>2. calls' \subseteq Sendable' /\ Answered' \subseteq 1 .. asked'
      BY <1>2, <2>1
    <2>3. QED
      BY <1>3, <1>4, <2>1, <2>2 DEF Books
  <1>6. Kept \ X \subseteq Kept'
    <2>1. asked \in Nat /\ asked' \in Nat /\ asked <= asked'
      BY RequestCount
    <2>2. \A r \in Kept : r \notin X => /\ routed'[r] = 0 /\ r \notin recalled'
                                        /\ result'[r] \notin {<<"Full">>, <<"LocalEncodeFailed">>}
      BY DEF Kept
    <2>3. QED
      BY <2>1, <2>2, KeptStays
  <1>7. QED
    BY <1>1, <1>2, <1>5, <1>6

\* begin_close of the connection.
LEMMA ServerCloseKeeps ==
    ASSUME RpcInv, NEW why, ServerBeginClose(why), calls' \subseteq calls, UNCHANGED <<client, routed, foul>>
    PROVE  RpcInv'
  <1>0. /\ SocketTypes /\ RequestTypes /\ Books /\ RequestsFresh /\ AnswersFresh
        /\ \A t \in Ends : WholeWay(t)
    BY DEF RpcInv
  <1>1. /\ CloseSocket("server") /\ routing' = {} /\ link' = link
        /\ UNCHANGED <<link, asked, inFlight, result, recalled, overflowed, routed, foul>>
    BY DEF ServerBeginClose, client
  <1>2. /\ "server" \in Ends /\ Peer("server") = "client" /\ "client" \in Ends /\ Peer("server")' = "client"
    BY DEF Ends, Peer
  <1>3. /\ SocketTypes' /\ (Closed("client")' <=> Closed("client"))
        /\ writeQueue'["server"] = <<>> /\ writeQueue'["client"] = writeQueue["client"]
        /\ Transit("server")' \in Seq(Unit) /\ Piece(Transit("server")', Transit("server"), 0)
        /\ Transit("client")' \in Seq(Unit)
        /\ \E d \in Nat : Piece(Transit("client")', Transit("client"), d)
    <2>1. /\ Closed(Peer("server"))' <=> Closed(Peer("server"))
          /\ Transit(Peer("server"))' \in Seq(Unit)
          /\ \E d \in Nat : Piece(Transit(Peer("server"))', Transit(Peer("server")), d)
          /\ writeQueue'[Peer("server")] = writeQueue[Peer("server")]
      BY <1>0, <1>1, <1>2, CloseCuts
    <2>2. /\ SocketTypes' /\ writeQueue'["server"] = <<>>
          /\ Transit("server")' \in Seq(Unit) /\ Piece(Transit("server")', Transit("server"), 0)
      BY <1>0, <1>1, <1>2, CloseCuts
    <2>3. QED
      BY <1>2, <2>1, <2>2
  <1>4. \A t \in Ends : WholeWay(t)'
    BY <1>0, <1>1, <1>2, WholeCloses
  <1>5. /\ Transit("client") \in Seq(Unit) /\ Transit("server") \in Seq(Unit)
        /\ writeQueue["client"] \in Seq(Entry) /\ writeQueue["server"] \in Seq(Entry)
    BY <1>0, <1>2, SocketParts
  <1>6. /\ Downstream(Transit("server")', <<>>, Sendable)
        /\ Answering(Transit("server")', <<>>) \subseteq Answering(Transit("server"), writeQueue["server"])
    <2>1. 0 \in Nat /\ Downstream(Transit("server"), writeQueue["server"], Sendable)
      BY <1>0 DEF AnswersFresh
    <2>2. QED
      BY <1>3, <1>5, <2>1, DownstreamPiece
  <1>7. Answered' \subseteq Answered \cup {}
    BY <1>3, <1>6 DEF Answered
  <1>8. RequestTypes' /\ Books' /\ Kept \subseteq Kept' /\ Sendable' = Sendable
    <2>1. RequestTypes' /\ Books' /\ Kept \ {} \subseteq Kept' /\ Sendable' = Sendable
      <3>1. {} \subseteq 1 .. asked /\ routing' \subseteq routing /\ routing' \subseteq calls'
        BY <1>1
      <3>2. QED
        BY <1>0, <1>1, <1>3, <1>7, <3>1, ServerStep
    <2>2. QED
      BY <2>1
  <1>9. RequestsFresh'
    <2>1. PICK d \in Nat : Piece(Transit("client")', Transit("client"), d)
      BY <1>3
    <2>2. Upstream(Transit("client")', writeQueue["client"], Kept, inFlight)
      BY <1>0, <1>3, <1>5, <2>1, UpstreamPiece DEF RequestsFresh
    <2>3. Upstream(Transit("client")', writeQueue["client"], Kept', inFlight)
      BY <1>8, <2>2, UpstreamSets
    <2>4. QED
      BY <1>1, <1>3, <2>3 DEF RequestsFresh
  <1>10. AnswersFresh'
    BY <1>3, <1>6, <1>8 DEF AnswersFresh
  <1>11. QED
    BY <1>3, <1>4, <1>8, <1>9, <1>10 DEF RpcInv

\* The connection takes a frame, which is of a request it was never given.
LEMMA ServerTakes ==
    ASSUME RpcInv, HasFrame("server"), TakeFrame("server"),
           UNCHANGED <<link, phase, writing, wrote, wire, draining>>,
           writeQueue' \in [Ends -> Seq(Entry)],
           \A t \in Ends : Len(writeQueue'[t]) <= link.queueCap[t]
    PROVE  /\ SocketTypes' /\ SameClosed /\ Transit("server")' = Transit("server")
           /\ \A t \in Ends : WholeWay(t)'
           /\ Frame("server").req \in Kept
           /\ Upstream(Transit("client")', writeQueue["client"], Kept \ {Frame("server").req}, inFlight)
  <1> DEFINE e == Frame("server")
  <1>0. /\ SocketTypes /\ RequestTypes /\ Books /\ RequestsFresh /\ AnswersFresh
        /\ \A t \in Ends : WholeWay(t)
    BY DEF RpcInv
  <1>1. /\ "server" \in Ends /\ Peer("server") = "client" /\ "client" \in Ends /\ Peer("server")' = "client"
        /\ Peer("client") = "server"
    BY DEF Ends, Peer
  <1>2. /\ SocketTypes' /\ SameClosed /\ Transit("server")' = Transit("server")
        /\ Transit("client")' \in Seq(Unit) /\ Piece(Transit("client")', Transit("client"), 2)
        /\ Len(Transit("client")') = Len(Transit("client")) - 2 /\ Len(Transit("client")) >= 2
        /\ Transit("client")[1] = e
    <2>1. /\ SocketTypes' /\ SameClosed /\ Transit("server")' = Transit("server")
          /\ Transit(Peer("server"))' \in Seq(Unit) /\ Piece(Transit(Peer("server"))', Transit(Peer("server")), 2)
          /\ Len(Transit(Peer("server"))') = Len(Transit(Peer("server"))) - 2
          /\ Len(Transit(Peer("server"))) >= 2 /\ Transit(Peer("server"))[1] = inbound["server"][1]
      BY <1>0, <1>1, TakeFrameDrops
    <2>2. QED
      BY <1>1, <2>1 DEF Frame
  <1>3. \A t \in Ends : WholeWay(t)'
    <2>1. /\ Transit(Peer("server"))' \in Seq(Unit) /\ Piece(Transit(Peer("server"))', Transit(Peer("server")), 2)
          /\ Len(Transit(Peer("server"))') = Len(Transit(Peer("server"))) - 2
      BY <1>1, <1>2
    <2>2. QED
      BY <1>0, <1>1, <1>2, <2>1, WholeTakes
  <1>4. Transit("client") \in Seq(Unit) /\ writeQueue["client"] \in Seq(Entry)
    BY <1>0, <1>1, SocketParts
  <1>5. Aligned(Transit("client"))
    <2>1. ~Closed("server") /\ WholeWay("client")
      BY <1>0, <1>1 DEF HasFrame, Closed
    <2>2. QED
      BY <1>1, <2>1 DEF WholeWay
  <1>6. /\ Transit("client")[1].req \in Kept
        /\ Upstream(Transit("client")', writeQueue["client"], Kept \ {Transit("client")[1].req}, inFlight)
    <2>1. Upstream(Transit("client"), writeQueue["client"], Kept, inFlight)
      BY <1>0 DEF RequestsFresh
    <2>2. QED
      BY <1>2, <1>4, <1>5, <2>1, UpstreamTake
  <1>7. QED
    BY <1>2, <1>3, <1>6

LEMMA RouteRequestKeeps ==
    ASSUME RpcInv, HasFrame("server"), RouteRequest(Frame("server").req),
           ~Refused(Frame("server").req), UNCHANGED <<client, foul>>
    PROVE  RpcInv'
  <1> DEFINE r == Frame("server").req
  <1>0. SocketTypes /\ RequestTypes /\ Books /\ AnswersFresh
    BY DEF RpcInv
  <1>1. /\ routing' = routing \cup {r} /\ calls' = calls \cup {r}
        /\ routed' = [routed EXCEPT ![r] = routed[r] + 1] /\ TakeFrame("server")
        /\ UNCHANGED <<link, phase, writing, wrote, wire, draining>> /\ writeQueue' = writeQueue
        /\ UNCHANGED <<link, asked, inFlight, result, recalled, overflowed, foul>>
    BY DEF RouteRequest, client
  <1>2. /\ SocketTypes' /\ SameClosed /\ Transit("server")' = Transit("server")
        /\ \A t \in Ends : WholeWay(t)'
        /\ r \in Kept /\ Upstream(Transit("client")', writeQueue["client"], Kept \ {r}, inFlight)
    <2>1. /\ writeQueue' \in [Ends -> Seq(Entry)]
          /\ \A t \in Ends : Len(writeQueue'[t]) <= link.queueCap[t]
      BY <1>0, <1>1 DEF SocketTypes
    <2>2. QED
      BY <1>1, <2>1, ServerTakes
  <1> HIDE DEF r
  <1>3. /\ r \in 1 .. asked /\ r \in Requests /\ routed[r] = 0 /\ r \notin recalled
        /\ result[r] \notin {<<"Full">>, <<"LocalEncodeFailed">>}
    BY <1>0, <1>2, KeptKnown DEF Kept
  <1>4. routed' \in [Requests -> Nat] /\ routed'[r] = 1 /\ \A t \in Requests : t # r => routed'[t] = routed[t]
    BY <1>0, <1>1, <1>3 DEF RequestTypes
  <1>5. Answered' = Answered
    BY <1>1, <1>2 DEF Answered
  <1>6. Sendable \subseteq Sendable' /\ r \in Sendable'
    BY <1>1, <1>3, <1>4 DEF Sendable
  <1>7. RequestTypes'
    BY <1>0, <1>1, <1>3, <1>4 DEF RequestTypes
  <1>8. (Closed("client")' <=> Closed("client")) /\ (Closed("server")' <=> Closed("server")) /\ ~Closed("server")
    BY <1>2 DEF SameClosed, Ends, HasFrame, Closed
  <1>9. RoutedTruth'
    <2> SUFFICES ASSUME NEW t \in 1 .. asked
                 PROVE  /\ routed'[t] <= 1 /\ (result[t] = <<"Ok">> => routed'[t] = 1)
                        /\ (t \in recalled \/ result[t] \in {<<"Full">>, <<"LocalEncodeFailed">>} => routed'[t] = 0)
      BY <1>1 DEF RoutedTruth
    <2>1. /\ routed[t] <= 1 /\ (result[t] = <<"Ok">> => routed[t] = 1)
          /\ (t \in recalled \/ result[t] \in {<<"Full">>, <<"LocalEncodeFailed">>} => routed[t] = 0)
      BY <1>0 DEF Books, RoutedTruth
    <2>2. t \in Requests
      BY <1>0, RequestCount
    <2>3. QED
      BY <1>3, <1>4, <2>1, <2>2
  <1>10. Cardinality(routing') <= link.inFlightCap["server"]
    <2>1. IsFiniteSet(routing) /\ Cardinality(routing) \in Nat /\ link.inFlightCap["server"] \in Nat
      BY <1>0, FiniteSides, CapsAre
    <2>2. r \notin routing /\ Cardinality(routing) < link.inFlightCap["server"]
      BY <2>1 DEF Refused, r
    <2>3. Cardinality(routing \cup {r}) = Cardinality(routing) + 1
      BY <2>1, <2>2, FS_AddElement
    <2>4. QED
      BY <1>1, <2>1, <2>2, <2>3
  <1>11. Books'
    <2>1. /\ Cardinality(inFlight) <= link.inFlightCap["client"]
          /\ \A t \in Requests : t > asked => routed[t] = 0 /\ result[t] = <<>>
          /\ calls \subseteq Sendable /\ Answered \subseteq 1 .. asked
          /\ OneResult /\ QueueSuffices /\ SlotsFreed
      BY <1>0 DEF Books
    <2>2. OneResult' /\ QueueSuffices' /\ SlotsFreed'
      BY <1>1, <1>8, <2>1 DEF OneResult, QueueSuffices, SlotsFreed
    <2>3. \A t \in Requests : t > asked => routed'[t] = 0 /\ result'[t] = <<>>
      <3> SUFFICES ASSUME NEW t \in Requests, t > asked PROVE routed'[t] = 0 /\ result'[t] = <<>>
        OBVIOUS
      <3>1. t # r
        <4>1. asked \in Nat
          BY <1>0, RequestCount
        <4>2. QED
          BY <1>3, <4>1
      <3>2. QED
        BY <1>1, <1>4, <2>1, <3>1
    <2>4. calls' \subseteq Sendable' /\ Answered' \subseteq 1 .. asked'
      BY <1>1, <1>5, <1>6, <2>1
    <2>5. QED
      BY <1>1, <1>8, <1>9, <1>10, <2>1, <2>2, <2>3, <2>4 DEF Books
  <1>12. Kept \ {r} \subseteq Kept'
    <2>1. asked \in Nat /\ asked' \in Nat /\ asked <= asked' /\ Answered' \subseteq Answered \cup {r}
      BY <1>0, <1>1, <1>5, RequestCount
    <2>2. ASSUME NEW t \in Kept, t \notin {r}
          PROVE  /\ routed'[t] = 0 /\ t \notin recalled'
                 /\ result'[t] \notin {<<"Full">>, <<"LocalEncodeFailed">>}
      <3>1. t \in Requests
        BY <1>0, KeptKnown
      <3>2. QED
        BY <1>1, <1>4, <2>2, <3>1 DEF Kept
    <2>3. QED
      BY <2>1, <2>2, KeptStays
  <1>13. RequestsFresh'
    <2>1. Upstream(Transit("client")', writeQueue["client"], Kept', inFlight)
      BY <1>2, <1>12, UpstreamSets
    <2>2. QED
      BY <1>1, <2>1 DEF RequestsFresh
  <1>14. AnswersFresh'
    <2>1. Downstream(Transit("server"), writeQueue["server"], Sendable')
      BY <1>0, <1>6, DownstreamSets DEF AnswersFresh
    <2>2. QED
      BY <1>1, <1>2, <2>1 DEF AnswersFresh
  <1>15. QED
    BY <1>2, <1>7, <1>11, <1>13, <1>14 DEF RpcInv

LEMMA AnswerErrorKeeps ==
    ASSUME RpcInv, HasFrame("server"), AnswerError(Frame("server").req), ~QueueFull,
           UNCHANGED <<client, foul>>
    PROVE  RpcInv'
  <1> DEFINE r == Frame("server").req
             Q == writeQueue["server"]
             q == Append(Q, Tagged(0, Encode(r, "error")))
  <1>0. SocketTypes /\ RequestTypes /\ Books /\ AnswersFresh /\ RequestsFresh
    BY DEF RpcInv
  <1>1. /\ writeQueue' = [writeQueue EXCEPT !["server"] = q] /\ TakeFrame("server")
        /\ UNCHANGED <<link, phase, writing, wrote, wire, draining>>
        /\ UNCHANGED <<link, asked, inFlight, result, recalled, overflowed, routed, foul>>
        /\ UNCHANGED <<routing, calls>>
    BY DEF AnswerError, EnqueueWrite, client
  <1>2. /\ Q \in Seq(Entry) /\ Len(Q) \in Nat /\ link.queueCap["server"] \in Nat
        /\ Transit("server") \in Seq(Unit) /\ inbound["server"] \in Seq(Unit)
        /\ Len(Q) < link.queueCap["server"]
    <2>1. Q \in Seq(Entry) /\ link.queueCap["server"] \in Nat /\ Transit("server") \in Seq(Unit)
          /\ inbound["server"] \in Seq(Unit)
      BY <1>0, SocketParts DEF Ends
    <2>2. QED
      BY <2>1 DEF QueueFull
  <1>3. r \in Numbers
    <2>1. inbound["server"][1] \in Unit
      BY <1>2 DEF HasFrame
    <2>2. QED
      BY <2>1 DEF Frame, Unit
  <1>4. Tagged(0, Encode(r, "error")) \in Entry
    <2>1. "error" \in FrameKinds
      BY DEF FrameKinds
    <2> HIDE DEF r
    <2>2. Encode(r, "error") \in Seq(Unit)
      BY <1>3, <2>1, FrameUnits
    <2>3. QED
      BY <2>2 DEF Tagged, Entry
  <1>5. q \in Seq(Entry) /\ Len(q) = Len(Q) + 1
    <2> HIDE DEF r, Q
    <2>1. QED
      BY <1>2, <1>4
  <1>6. /\ writeQueue' \in [Ends -> Seq(Entry)] /\ writeQueue'["server"] = q
        /\ writeQueue'["client"] = writeQueue["client"]
        /\ \A t \in Ends : Len(writeQueue'[t]) <= link.queueCap[t]
    <2> HIDE DEF q, Q
    <2>1. /\ writeQueue' \in [Ends -> Seq(Entry)] /\ writeQueue'["server"] = q
          /\ \A t \in Ends : t # "server" => writeQueue'[t] = writeQueue[t]
      BY <1>0, <1>1, <1>5 DEF SocketTypes, Ends
    <2>2. Len(q) <= link.queueCap["server"]
      BY <1>2, <1>5
    <2>3. \A t \in Ends : Len(writeQueue'[t]) <= link.queueCap[t]
      BY <1>0, <2>1, <2>2 DEF SocketTypes
    <2>4. QED
      BY <2>1, <2>3 DEF Ends
  <1>7. /\ SocketTypes' /\ SameClosed /\ Transit("server")' = Transit("server")
        /\ \A t \in Ends : WholeWay(t)'
        /\ r \in Kept /\ Upstream(Transit("client")', writeQueue["client"], Kept \ {r}, inFlight)
    BY <1>1, <1>6, ServerTakes
  <1>8. /\ Downstream(Transit("server"), q, Sendable)
        /\ Answering(Transit("server"), q) \subseteq Answering(Transit("server"), Q) \cup {r}
    <2>1. Downstream(Transit("server"), Q, Sendable)
      BY <1>0 DEF AnswersFresh
    <2>2. "error" \in FrameKinds /\ r \in Requests /\ r \in Numbers
      BY <1>0, <1>7, KeptKnown DEF FrameKinds, Numbers
    <2> HIDE DEF r, Q
    <2>3. AnswerFrame(Encode(r, "error"), Sendable)
      BY <2>2 DEF AnswerFrame
    <2>4. QED
      BY <1>2, <2>1, <2>2, <2>3, DownstreamPush
  <1> HIDE DEF r, q
  <1>9. Answered' \subseteq Answered \cup {r}
    BY <1>6, <1>7, <1>8 DEF Answered
  <1>10. RequestTypes' /\ Books' /\ Kept \ {r} \subseteq Kept' /\ Sendable' = Sendable
    <2>1. {r} \subseteq 1 .. asked
      BY <1>7, KeptKnown
    <2>2. (Closed("client")' <=> Closed("client")) /\ (Closed("server")' => routing' = {})
      BY <1>0, <1>1, <1>7 DEF SameClosed, Ends, Books
    <2>3. calls' \subseteq calls /\ routing' \subseteq routing /\ routing' \subseteq calls'
      BY <1>0, <1>1 DEF Books, SlotsFreed
    <2>4. QED
      BY <1>0, <1>1, <1>9, <2>1, <2>2, <2>3, ServerStep
  <1>11. RequestsFresh'
    <2>1. Upstream(Transit("client")', writeQueue["client"], Kept', inFlight)
      BY <1>7, <1>10, UpstreamSets
    <2>2. QED
      BY <1>1, <1>6, <2>1 DEF RequestsFresh
  <1>12. AnswersFresh'
    BY <1>6, <1>7, <1>8, <1>10 DEF AnswersFresh
  <1>13. QED
    BY <1>7, <1>10, <1>11, <1>12 DEF RpcInv

LEMMA OnRequestFrameKeeps ==
    ASSUME RpcInv, NEW fits \in BOOLEAN, OnRequestFrame(fits)
    PROVE  RpcInv'
  <1> DEFINE r == Frame("server").req
             valid == Decodes("server") /\ Frame("server").kind = "request"
  <1>1. HasFrame("server") /\ UNCHANGED <<client, foul>>
    BY DEF OnRequestFrame
  <1>2. CASE valid /\ ~Refused(r)
    BY <1>1, <1>2, RouteRequestKeeps DEF OnRequestFrame
  <1>3. CASE ~(valid /\ ~Refused(r)) /\ valid /\ fits /\ ~QueueFull
    BY <1>1, <1>3, AnswerErrorKeeps DEF OnRequestFrame
  <1>4. CASE ~(valid /\ ~Refused(r)) /\ ~(valid /\ fits /\ ~QueueFull)
    <2>1. PICK why : ServerBeginClose(why) /\ UNCHANGED <<calls, routed>>
      BY <1>4 DEF OnRequestFrame
    <2>2. QED
      BY <1>1, <2>1, ServerCloseKeeps
  <1>5. QED
    BY <1>2, <1>3, <1>4

\* The router's call of r is over, and r is not answered.
LEMMA CallEndsKeeps ==
    ASSUME RpcInv, NEW r, calls' = calls \ {r}, UNCHANGED <<socket, client, routed, foul>>,
           routing' = routing \ {r} \/ (routing' = routing /\ Closed("server"))
    PROVE  RpcInv'
  <1>0. /\ SocketTypes /\ RequestTypes /\ Books /\ RequestsFresh /\ AnswersFresh
        /\ \A t \in Ends : WholeWay(t)
    BY DEF RpcInv
  <1>1. /\ UNCHANGED <<phase, writeQueue, writing, wrote, wire, inbound, draining>>
        /\ UNCHANGED <<link, asked, inFlight, result, recalled, overflowed, routed, foul>>
    BY DEF socket, client
  <1>2. SocketTypes'
    BY <1>0, <1>1 DEF SocketTypes
  <1>3. \A t \in Ends : Transit(t)' = Transit(t) /\ (Closed(t)' <=> Closed(t))
    BY <1>1 DEF Transit, Closed, Peer
  <1>4. /\ Transit("client")' = Transit("client") /\ Transit("server")' = Transit("server")
        /\ (Closed("client")' <=> Closed("client")) /\ (Closed("server")' <=> Closed("server"))
    BY <1>3 DEF Ends
  <1>5. Answered' \subseteq Answered \cup {}
    BY <1>1, <1>4 DEF Answered
  <1>6. /\ calls' \subseteq calls /\ routing' \subseteq routing /\ routing' \subseteq calls'
        /\ Closed("server")' => routing' = {}
    BY <1>0, <1>4 DEF Books, SlotsFreed
  <1>7. RequestTypes' /\ Books' /\ Kept \subseteq Kept' /\ Sendable' = Sendable
    <2>1. {} \subseteq 1 .. asked
      OBVIOUS
    <2>2. RequestTypes' /\ Books' /\ Kept \ {} \subseteq Kept' /\ Sendable' = Sendable
      BY <1>0, <1>1, <1>4, <1>5, <1>6, <2>1, ServerStep
    <2>3. QED
      BY <2>2
  <1>8. RequestsFresh'
    <2>1. Upstream(Transit("client"), writeQueue["client"], Kept', inFlight)
      BY <1>0, <1>7, UpstreamSets DEF RequestsFresh
    <2>2. QED
      BY <1>1, <1>4, <2>1 DEF RequestsFresh
  <1>9. AnswersFresh'
    BY <1>0, <1>1, <1>4, <1>7 DEF AnswersFresh
  <1>10. \A t \in Ends : WholeWay(t)'
    BY <1>0, <1>3, PeerIs DEF WholeWay
  <1>11. QED
    BY <1>2, <1>7, <1>8, <1>9, <1>10 DEF RpcInv

LEMMA AnswerKeeps ==
    ASSUME RpcInv, NEW r \in calls, NEW k \in {"reply", "error"}, ~QueueFull,
           phase["server"] = "open", calls' = calls \ {r}, routing' = routing \ {r},
           StartWrite("server", EnqueueWrite(Encode(r, k)), writing["server"]),
           UNCHANGED <<phase, wrote, wire, inbound, draining>>, UNCHANGED <<client, routed, foul>>
    PROVE  RpcInv'
  <1> DEFINE Q == writeQueue["server"]
             q == Append(Q, Tagged(0, Encode(r, k)))
  <1>0. /\ SocketTypes /\ RequestTypes /\ Books /\ RequestsFresh /\ AnswersFresh
        /\ \A t \in Ends : WholeWay(t)
    BY DEF RpcInv
  <1>1. UNCHANGED <<link, asked, inFlight, result, recalled, overflowed, routed, foul>>
    BY DEF client
  <1>2. r \in Sendable /\ r \in Requests /\ r \in 1 .. asked /\ r \notin Kept
    <2>1. r \in Sendable /\ r \in Requests /\ routed[r] = 1
      BY <1>0, RpcAssumption DEF Books, Sendable, RequestTypes, Requests
    <2>2. ~(r > asked) /\ asked \in Nat
      BY <1>0, <2>1, RequestCount DEF Books
    <2>3. r \in 1 .. asked
      BY <2>1, <2>2 DEF Requests
    <2>4. QED
      BY <2>1, <2>3 DEF Kept
  <1>3. /\ Q \in Seq(Entry) /\ Len(Q) \in Nat /\ link.queueCap["server"] \in Nat
        /\ Transit("server") \in Seq(Unit) /\ Len(Q) < link.queueCap["server"]
    <2>1. Q \in Seq(Entry) /\ link.queueCap["server"] \in Nat /\ Transit("server") \in Seq(Unit)
      BY <1>0, SocketParts DEF Ends
    <2>2. QED
      BY <2>1 DEF QueueFull
  <1>4. /\ Tagged(0, Encode(r, k)) \in Entry /\ Downstream(Transit("server"), q, Sendable)
        /\ Answering(Transit("server"), q) \subseteq Answering(Transit("server"), Q) \cup {r}
    <2>1. Downstream(Transit("server"), Q, Sendable)
      BY <1>0 DEF AnswersFresh
    <2>2. k \in FrameKinds /\ AnswerFrame(Encode(r, k), Sendable) /\ r \in Numbers
      BY <1>2 DEF FrameKinds, AnswerFrame, Numbers
    <2> HIDE DEF Q
    <2>3. QED
      BY <1>3, <2>1, <2>2, DownstreamPush
  <1>5. q \in Seq(Entry) /\ Len(q) <= link.queueCap["server"]
    <2> HIDE DEF Q
    <2>1. q \in Seq(Entry) /\ Len(q) = Len(Q) + 1
      BY <1>3, <1>4
    <2>2. QED
      BY <1>3, <2>1
  <1>6. StartWrite("server", q, writing["server"])
    BY DEF EnqueueWrite
  <1> HIDE DEF q
  <1>7. SocketTypes' /\ Sends("server", q)
    <2>1. draining' \in [Ends -> BOOLEAN] /\ "server" \in Ends
      BY <1>0 DEF SocketTypes, Ends
    <2>2. QED
      BY <1>0, <1>1, <1>5, <1>6, <2>1, QueueSends
  <1>8. /\ SameClosed /\ writeQueue'["client"] = writeQueue["client"]
        /\ Transit("client")' = Transit("client")
    BY <1>7 DEF Sends, Peer
  <1>9. /\ Downstream(Transit("server")', writeQueue'["server"], Sendable)
        /\ Answered' \subseteq Answering(Transit("server"), q)
        /\ q # <<>> => \E t \in Numbers, j \in FrameKinds : Head(q).units = Encode(t, j)
    BY <1>0, <1>4, <1>5, <1>7, DownstreamSends
  <1>10. Answered' \subseteq Answered \cup {r}
    BY <1>4, <1>9 DEF Answered
  <1>11. RequestTypes' /\ Books' /\ Kept \ {r} \subseteq Kept' /\ Sendable' = Sendable
    <2>1. (Closed("client")' <=> Closed("client")) /\ ~Closed("server")'
      BY <1>8 DEF SameClosed, Ends, Closed
    <2>2. calls' \subseteq calls /\ routing' \subseteq routing /\ routing' \subseteq calls'
      BY <1>0 DEF Books, SlotsFreed
    <2>3. {r} \subseteq 1 .. asked
      BY <1>2
    <2>4. QED
      BY <1>0, <1>1, <1>10, <2>1, <2>2, <2>3, ServerStep
  <1>12. RequestsFresh'
    <2>1. Kept \subseteq Kept'
      BY <1>2, <1>11
    <2>2. Upstream(Transit("client"), writeQueue["client"], Kept', inFlight)
      BY <1>0, <2>1, UpstreamSets DEF RequestsFresh
    <2>3. QED
      BY <1>1, <1>8, <2>2 DEF RequestsFresh
  <1>13. AnswersFresh'
    BY <1>9, <1>11 DEF AnswersFresh
  <1>14. \A t \in Ends : WholeWay(t)'
    <2>1. "server" \in Ends
      BY DEF Ends
    <2>2. QED
      BY <1>0, <1>7, <1>9, <2>1, WholeSends
  <1>15. QED
    BY <1>7, <1>11, <1>12, <1>13, <1>14 DEF RpcInv

LEMMA OnRoutedKeeps ==
    ASSUME RpcInv, NEW r \in Requests, NEW outcome \in Outcomes, OnRouted(r, outcome)
    PROVE  RpcInv'
  <1>1. r \in calls /\ calls' = calls \ {r} /\ UNCHANGED <<client, routed, foul>>
    BY DEF OnRouted
  <1>2. CASE phase["server"] # "open" /\ UNCHANGED <<socket, routing>>
    <2>1. Closed("server")
      BY <1>2 DEF RpcInv, SocketTypes, Closed, Ends
    <2>2. QED
      BY <1>1, <1>2, <2>1, CallEndsKeeps
  <1>3. CASE UNCHANGED socket /\ routing' = routing \ {r}
    BY <1>1, <1>3, CallEndsKeeps
  <1>4. CASE ServerBeginClose("LocalEncodeFailed") \/ ServerBeginClose("WriteQueueOverflow")
    BY <1>1, <1>4, ServerCloseKeeps
  <1>5. CASE /\ phase["server"] = "open" /\ outcome \in {"reply", "error"} /\ ~QueueFull
             /\ StartWrite("server", EnqueueWrite(Encode(r, outcome)), writing["server"])
             /\ routing' = routing \ {r} /\ UNCHANGED <<phase, wrote, wire, inbound, draining>>
    BY <1>1, <1>5, AnswerKeeps
  <1>6. QED
    BY <1>2, <1>3, <1>4, <1>5 DEF OnRouted

\* What no server may send joins the queue.
LEMMA BreaksKeeps ==
    ASSUME RpcInv, ServerBreaksProtocol
    PROVE  RpcInv'
  <1> DEFINE Q == writeQueue["server"]
             q == Append(Q, Tagged(0, Encode(0, "request")))
  <1>0. /\ SocketTypes /\ RequestTypes /\ Books /\ RequestsFresh /\ AnswersFresh
        /\ \A t \in Ends : WholeWay(t)
    BY DEF RpcInv
  <1>1. /\ UNCHANGED <<link, asked, inFlight, result, recalled, overflowed, routed, routing, calls>>
        /\ UNCHANGED <<phase, wrote, wire, inbound, draining>> /\ foul' = TRUE /\ ~QueueFull
        /\ StartWrite("server", q, writing["server"])
    BY DEF ServerBreaksProtocol, EnqueueWrite, client
  <1>2. 0 \in Numbers /\ "request" \in FrameKinds /\ 0 \notin Requests
    BY DEF FrameKinds, Requests, Numbers
  <1>3. /\ Q \in Seq(Entry) /\ Len(Q) \in Nat /\ link.queueCap["server"] \in Nat
        /\ Transit("server") \in Seq(Unit) /\ Len(Q) < link.queueCap["server"]
    <2>1. Q \in Seq(Entry) /\ link.queueCap["server"] \in Nat /\ Transit("server") \in Seq(Unit)
      BY <1>0, SocketParts DEF Ends
    <2>2. QED
      BY <1>1, <2>1 DEF QueueFull
  <1>4. Sendable \subseteq Sendable' /\ 0 \in Sendable'
    BY <1>1 DEF Sendable
  <1>5. /\ Tagged(0, Encode(0, "request")) \in Entry /\ Downstream(Transit("server"), q, Sendable')
        /\ Answering(Transit("server"), q) \subseteq Answering(Transit("server"), Q) \cup {0}
    <2>1. Downstream(Transit("server"), Q, Sendable')
      BY <1>0, <1>4, DownstreamSets DEF AnswersFresh
    <2>2. AnswerFrame(Encode(0, "request"), Sendable')
      BY <1>4 DEF AnswerFrame
    <2> HIDE DEF Q
    <2>3. QED
      BY <1>2, <1>3, <2>1, <2>2, DownstreamPush
  <1>6. q \in Seq(Entry) /\ Len(q) <= link.queueCap["server"]
    <2> HIDE DEF Q
    <2>1. q \in Seq(Entry) /\ Len(q) = Len(Q) + 1
      BY <1>3, <1>5
    <2>2. QED
      BY <1>3, <2>1
  <1> HIDE DEF q
  <1>7. SocketTypes' /\ Sends("server", q)
    <2>1. draining' \in [Ends -> BOOLEAN] /\ "server" \in Ends
      BY <1>0, <1>1 DEF SocketTypes, Ends
    <2>2. QED
      BY <1>0, <1>1, <1>6, <2>1, QueueSends
  <1>8. /\ SameClosed /\ writeQueue'["client"] = writeQueue["client"]
        /\ Transit("client")' = Transit("client")
    BY <1>7 DEF Sends, Peer
  <1>9. /\ Downstream(Transit("server")', writeQueue'["server"], Sendable')
        /\ Answered' \subseteq Answering(Transit("server"), q)
        /\ q # <<>> => \E t \in Numbers, j \in FrameKinds : Head(q).units = Encode(t, j)
    BY <1>0, <1>5, <1>6, <1>7, DownstreamSends
  <1>10. Answered' \subseteq Answered
    <2>1. Answered' \subseteq Answered \cup {0}
      BY <1>5, <1>9 DEF Answered
    <2>2. 0 \notin Answered'
      BY <1>2 DEF Answered, Answering
    <2>3. QED
      BY <2>1, <2>2
  <1>11. RequestTypes' /\ Books'
    <2>1. (Closed("client")' <=> Closed("client")) /\ (Closed("server")' <=> Closed("server"))
      BY <1>8 DEF SameClosed, Ends
    <2>2. RequestTypes'
      BY <1>0, <1>1 DEF RequestTypes
    <2>3. OneResult' /\ RoutedTruth' /\ QueueSuffices' /\ SlotsFreed'
      BY <1>0, <1>1, <2>1 DEF Books, OneResult, RoutedTruth, QueueSuffices, SlotsFreed
    <2>4. calls' \subseteq Sendable' /\ Answered' \subseteq 1 .. asked'
      BY <1>0, <1>1, <1>4, <1>10 DEF Books
    <2>5. QED
      BY <1>0, <1>1, <2>1, <2>2, <2>3, <2>4 DEF Books
  <1>12. RequestsFresh'
    <2>1. Kept \subseteq Kept'
      BY <1>1, <1>10 DEF Kept
    <2>2. Upstream(Transit("client"), writeQueue["client"], Kept', inFlight)
      BY <1>0, <2>1, UpstreamSets DEF RequestsFresh
    <2>3. QED
      BY <1>1, <1>8, <2>2 DEF RequestsFresh
  <1>13. AnswersFresh'
    BY <1>9 DEF AnswersFresh
  <1>14. \A t \in Ends : WholeWay(t)'
    <2>1. "server" \in Ends
      BY DEF Ends
    <2>2. QED
      BY <1>0, <1>7, <1>9, <2>1, WholeSends
  <1>15. QED
    BY <1>7, <1>11, <1>12, <1>13, <1>14 DEF RpcInv

-----------------------------------------------------------------------------
(* The invariant holds of every state.                                     *)

LEMMA RpcInvStarts == RpcInit => RpcInv
  <1> SUFFICES ASSUME RpcInit PROVE RpcInv
    OBVIOUS
  <1> USE RpcAssumption
  <1>1. /\ link \in LinkConfig /\ asked = 0 /\ inFlight = {} /\ recalled = {} /\ overflowed = FALSE
        /\ routing = {} /\ calls = {}
        /\ result = [r \in Requests |-> <<>>] /\ routed = [r \in Requests |-> 0]
    BY DEF RpcInit, SocketInit, ClientInit
  <1>2. /\ phase["client"] = "connecting" /\ phase["server"] = "open"
        /\ \A s \in Ends : /\ writeQueue[s] = <<>> /\ writing[s] = <<>> /\ wire[s] = <<>>
                           /\ inbound[s] = <<>> /\ wrote[s] = 0
        /\ draining \in [Ends -> BOOLEAN]
    BY DEF RpcInit, SocketInit, Ends
  <1>3. SocketTypes
    <2>1. \A s \in Ends : link.queueCap[s] \in Nat /\ link.wireCap \in Nat
      BY <1>1 DEF LinkConfig
    <2>2. /\ writeQueue \in [Ends -> Seq(Entry)] /\ writing \in [Ends -> Seq(Unit)]
          /\ wire \in [Ends -> Seq(Unit)] /\ inbound \in [Ends -> Seq(Unit)] /\ wrote \in [Ends -> Int]
      BY DEF RpcInit, SocketInit
    <2>3. phase \in [Ends -> {"connecting", "open", "closing", "stopped"}]
      BY DEF RpcInit, SocketInit
    <2>4. Len(<<>>) = 0
      OBVIOUS
    <2>5. \A s \in Ends : /\ wrote[s] <= Len(writing[s]) /\ -1 <= wrote[s]
                          /\ (writing[s] = <<>> => wrote[s] = 0)
                          /\ Len(writeQueue[s]) <= link.queueCap[s] /\ Len(wire[s]) <= link.wireCap
      BY <1>2, <2>1, <2>4
    <2>6. writing["client"] = <<>> /\ phase["server"] # "connecting"
      BY <1>2 DEF Ends
    <2>7. QED
      BY <1>1, <1>2, <2>2, <2>3, <2>5, <2>6 DEF SocketTypes
  <1>4. \A s \in Ends : Transit(s) = <<>>
    <2>1. Way(<<>>, <<>>, <<>>, 0) = <<>>
      <3>1. /\ <<>> \in Seq(Unit) /\ 0 \in Int /\ 0 <= Len(<<>>) /\ Len(<<>>) = 0
        OBVIOUS
      <3>2. Rest(<<>>, 0) = <<>>
        BY <3>1, RestIs
      <3>3. /\ Way(<<>>, <<>>, <<>>, 0) \in Seq(Unit)
            /\ Len(Way(<<>>, <<>>, <<>>, 0)) = Len(<<>>) + Len(<<>>) + Len(Rest(<<>>, 0))
        BY <3>1, WayIs
      <3>4. Len(Way(<<>>, <<>>, <<>>, 0)) = 0
        BY <3>1, <3>2, <3>3
      <3>5. QED
        BY <3>3, <3>4, EmptySeq
    <2>2. QED
      BY <1>2, <2>1, PeerIs DEF Transit
  <1>5. Transit("client") = <<>> /\ Transit("server") = <<>> /\ writeQueue["client"] = <<>>
        /\ writeQueue["server"] = <<>>
    BY <1>2, <1>4 DEF Ends
  <1>6. Len(<<>>) = 0 /\ 1 .. 0 = {}
    OBVIOUS
  <1>7. Answered = {}
    BY <1>5, <1>6 DEF Answered, Answering
  <1>8. RequestTypes
    <2>0. <<>> \in Seq(Words)
      OBVIOUS
    <2>1. <<>> \in Seq(Words) /\ overflowed \in BOOLEAN
      BY <1>1, <2>0, Zenon
    <2>2. result \in [Requests -> Seq(Words)] /\ routed \in [Requests -> Nat]
      BY <1>1, <2>1
    <2>3. asked \in 0 .. MaxRequests
      BY <1>1
    <2>4. QED
      BY <1>1, <2>1, <2>2, <2>3 DEF RequestTypes
  <1>9. Books
    <2>1. Cardinality({}) = 0
      BY FS_EmptySet
    <2>2. /\ Cardinality(inFlight) <= link.inFlightCap["client"]
          /\ Cardinality(routing) <= link.inFlightCap["server"]
      BY <1>1, <1>3, <2>1, CapsAre
    <2>3. OneResult /\ RoutedTruth /\ QueueSuffices /\ SlotsFreed
      BY <1>1, <1>6 DEF OneResult, RoutedTruth, QueueSuffices, SlotsFreed
    <2>4. \A r \in Requests : r > asked => routed[r] = 0 /\ result[r] = <<>>
      BY <1>1
    <2>5. QED
      BY <1>1, <1>7, <2>2, <2>3, <2>4 DEF Books
  <1>10. \A s \in Ends : WholeWay(s)
    <2>1. Aligned(<<>>) /\ Even(<<>>)
      BY <1>6 DEF Aligned, Even
    <2>2. QED
      BY <1>4, <2>1 DEF WholeWay
  <1>11. RequestsFresh /\ AnswersFresh
    BY <1>5, <1>6 DEF RequestsFresh, AnswersFresh, Upstream, OnTheWay, Queued, Downstream
  <1>12. QED
    BY <1>3, <1>8, <1>9, <1>10, <1>11 DEF RpcInv

LEMMA RpcInvStays ==
    ASSUME RpcInv, [RpcNext]_rpcVars
    PROVE  RpcInv'
  <1>0. /\ "client" \in Ends /\ "server" \in Ends
        /\ "IoError" \in {"IoError", "ConnectionClosed", "Idle"}
        /\ "ConnectionClosed" \in {"IoError", "ConnectionClosed", "Idle"}
        /\ "Idle" \in {"IoError", "ConnectionClosed", "Idle"}
    BY DEF Ends
  <1>1. CASE UNCHANGED rpcVars
    <2>1. UNCHANGED <<socket, link, asked, inFlight, result, recalled, overflowed>>
          /\ UNCHANGED <<routing, calls, routed, foul>>
      BY <1>1 DEF rpcVars, client, server
    <2>2. QED
      BY <2>1, StutterKeeps
  <1>2. CASE ClientLoop
    <2>1. CASE Loop("client")
      BY <1>0, <2>1, LoopKeeps
    <2>2. CASE OnFrame /\ UNCHANGED server
      BY <2>2, OnFrameKeeps
    <2>3. CASE EffectsRun /\ UNCHANGED server
      BY <1>0, <2>3, LoopKeeps
    <2>4. CASE ClientCloses /\ UNCHANGED server
      <3>1. UNCHANGED <<asked, recalled, overflowed, server>>
        BY <2>4 DEF ClientCloses
      <3>2. BeginClose("ConnectionClosed", {}) \/ BeginClose("IoError", {})
        BY <2>4 DEF ClientCloses
      <3>3. QED
        BY <1>0, <3>1, <3>2, ClientEndsKeeps
    <2>5. CASE (\E ok \in BOOLEAN : OnConnected(ok)) /\ UNCHANGED server
      BY <2>5, OnConnectedKeeps
    <2>6. QED
      BY <1>2, <2>1, <2>2, <2>3, <2>4, <2>5 DEF ClientLoop
  <1>3. CASE ServerLoop
    <2>1. CASE Loop("server")
      BY <1>0, <2>1, LoopKeeps
    <2>2. CASE \E fits \in BOOLEAN : OnRequestFrame(fits)
      BY <2>2, OnRequestFrameKeeps
    <2>3. CASE ServerCloses
      <3>1. (\E why : ServerBeginClose(why)) /\ calls' \subseteq calls /\ UNCHANGED <<client, routed, foul>>
        BY <2>3 DEF ServerCloses
      <3>2. QED
        BY <3>1, ServerCloseKeeps
    <2>4. QED
      BY <1>3, <2>1, <2>2, <2>3 DEF ServerLoop
  <1>4. CASE RequestsAndTimers
    <2>1. UNCHANGED server
      BY <1>4 DEF RequestsAndTimers
    <2>2. CASE \E fits \in BOOLEAN : OnRequest(fits)
      BY <2>1, <2>2, OnRequestKeeps
    <2>3. CASE \E r \in Requests : OnDeadline(r)
      BY <2>1, <2>3, OnDeadlineKeeps
    <2>4. CASE OnShutdown
      <3>1. UNCHANGED <<asked, recalled, overflowed, server>> /\ BeginClose("ConnectionClosed", {})
        BY <2>1, <2>4 DEF OnShutdown
      <3>2. QED
        BY <1>0, <3>1, ClientEndsKeeps
    <2>5. CASE ClientGivesUp
      <3>1. UNCHANGED <<asked, recalled, overflowed, server>>
        BY <2>1, <2>5 DEF ClientGivesUp
      <3>2. BeginClose("IoError", {}) \/ BeginClose("Idle", {})
        BY <2>5 DEF ClientGivesUp
      <3>3. QED
        BY <1>0, <3>1, <3>2, ClientEndsKeeps
    <2>6. QED
      BY <1>4, <2>2, <2>3, <2>4, <2>5 DEF RequestsAndTimers
  <1>5. CASE ServerShutdown \/ ServerGivesUp
    <2>1. (\E why : ServerBeginClose(why)) /\ calls' \subseteq calls /\ UNCHANGED <<client, routed, foul>>
      BY <1>5 DEF ServerShutdown, ServerGivesUp
    <2>2. QED
      BY <2>1, ServerCloseKeeps
  <1>6. CASE \E s \in Ends : RpcIdle(s)
    BY <1>6, LoopKeeps
  <1>7. CASE \E r \in Requests : \E outcome \in Outcomes : OnRouted(r, outcome)
    BY <1>7, OnRoutedKeeps
  <1>8. CASE ServerBreaksProtocol
    BY <1>8, BreaksKeeps
  <1>9. QED
    BY <1>1, <1>2, <1>3, <1>4, <1>5, <1>6, <1>7, <1>8 DEF RpcNext

-----------------------------------------------------------------------------
(* The results that wait for a drain to return.                            *)

\* A frame that ends a drain is one that no server may send.
LEMMA BadFrameFoul ==
    ASSUME RpcInv, HasFrame("client"), ~(Decodes("client") /\ Frame("client").kind # "request")
    PROVE  foul
  <1> DEFINE S == Transit("server")
             a == inbound["client"]
  <1>0. SocketTypes /\ AnswersFresh /\ WholeWay("server")
    BY DEF RpcInv, Ends
  <1>1. /\ "server" \in Ends /\ "client" \in Ends /\ Peer("server") = "client" /\ ~Closed("client")
    BY DEF Ends, Peer, HasFrame, Closed
  <1>2. /\ a \in Seq(Unit) /\ wire["server"] \in Seq(Unit) /\ writing["server"] \in Seq(Unit)
        /\ wrote["server"] \in Int /\ wrote["server"] <= Len(writing["server"])
        /\ Len(a) \in Nat /\ Len(a) >= 2 /\ S \in Seq(Unit)
    BY <1>0, <1>1, SocketParts DEF HasFrame
  <1>3. S = Way(a, wire["server"], writing["server"], wrote["server"])
    BY <1>1 DEF Transit
  <1> HIDE DEF a, S
  <1>4. /\ Len(S) = Len(a) + Len(wire["server"]) + Len(Rest(writing["server"], wrote["server"]))
        /\ \A i \in 1 .. Len(a) : S[i] = a[i]
    <2>1. /\ Len(Way(a, wire["server"], writing["server"], wrote["server"]))
             = Len(a) + Len(wire["server"]) + Len(Rest(writing["server"], wrote["server"]))
          /\ \A i \in 1 .. Len(a) : Way(a, wire["server"], writing["server"], wrote["server"])[i] = a[i]
      BY <1>2, WayIs, ZenonT(30)
    <2>2. QED
      BY <1>3, <2>1
  <1>5. Len(S) \in Nat /\ Len(S) >= 2 /\ S[1] = a[1] /\ S[2] = a[2]
    <2>1. Len(wire["server"]) \in Nat /\ Len(Rest(writing["server"], wrote["server"])) \in Nat
      BY <1>2, RestIs
    <2>2. 1 \in 1 .. Len(a) /\ 2 \in 1 .. Len(a)
      BY <1>2
    <2>3. S[1] = a[1] /\ S[2] = a[2]
      BY <1>4, <2>2
    <2>4. \A x, y, z \in Nat : x >= 2 => x + y + z >= 2 /\ x + y + z \in Nat
      OBVIOUS
    <2>5. Len(S) \in Nat /\ Len(S) >= 2
      BY <1>2, <1>4, <2>1, <2>4
    <2>6. QED
      BY <2>3, <2>5
  <1>6. Aligned(S)
    BY <1>0, <1>1 DEF WholeWay, S
  <1>7. /\ a[1].part = 1 /\ a[2].part = 2 /\ a[2].req = a[1].req /\ a[2].kind = a[1].kind
    <2>1. /\ 0 \in Nat /\ 2*0 + 1 = 1 /\ 2*0 + 2 = 2 /\ 1 <= Len(S) /\ 2 <= Len(S)
      BY <1>5
    <2>2. /\ 2*0 + 1 <= Len(S) => S[2*0 + 1].part = 1
          /\ 2*0 + 2 <= Len(S) => /\ S[2*0 + 2].part = 2 /\ S[2*0 + 2].req = S[2*0 + 1].req
                                  /\ S[2*0 + 2].kind = S[2*0 + 1].kind
      BY <2>1, <1>6 DEF Aligned
    <2>3. QED
      BY <1>5, <2>1, <2>2
  <1>8. a[1].kind = "request"
    BY <1>7 DEF Decodes, Frame, a
  <1>9. 0 \in Sendable
    <2>1. 1 \in 1 .. Len(S) /\ S[1].kind = "request"
      BY <1>5, <1>8
    <2>2. QED
      BY <1>0, <2>1 DEF AnswersFresh, Downstream, S
  <1>10. QED
    BY <1>9 DEF Sendable, Requests

LEMMA ResultsStaySent ==
    ASSUME RpcInv, ResultsSent, [RpcNext]_rpcVars
    PROVE  ResultsSent'
  <1> USE DEF ResultsSent
  <1>1. CASE OnFrame /\ UNCHANGED server
    <2>1. foul' = foul /\ HasFrame("client")
      BY <1>1 DEF OnFrame, server
    <2>2. CASE Decodes("client") /\ Frame("client").kind # "request"
      <3>1. lost' = lost /\ UNCHANGED <<phase, draining>>
        BY <1>1, <2>2 DEF OnFrame
      <3>2. phase["client"] = "open" /\ draining["client"]
        BY <2>1 DEF HasFrame
      <3>3. QED
        BY <2>1, <3>1, <3>2
    <2>3. CASE ~(Decodes("client") /\ Frame("client").kind # "request")
      <3>1. foul
        BY <2>1, <2>3, BadFrameFoul
      <3>2. built' = {}
        BY <1>1, <2>3 DEF OnFrame
      <3>3. QED
        BY <2>1, <3>1, <3>2
    <2>4. QED
      BY <2>2, <2>3
  <1>2. CASE EffectsRun /\ UNCHANGED server
    BY <1>2 DEF EffectsRun, server
  <1>3. CASE /\ UNCHANGED <<built, lost>> /\ (foul => foul')
             /\ (phase["client"] = "open" /\ draining["client"] => phase'["client"] = "open" /\ draining'["client"])
    BY <1>3
  <1>4. CASE /\ UNCHANGED <<built, lost>> /\ (foul => foul') /\ ~(phase["client"] = "open" /\ draining["client"])
    BY <1>4
  <1>5. CASE UNCHANGED rpcVars
    BY <1>3, <1>5 DEF rpcVars, client, server, notices, socket
  <1>6. CASE \E s \in Ends : Loop(s) \/ RpcIdle(s)
    <2>1. PICK s \in Ends : Loop(s) \/ RpcIdle(s)
      BY <1>6
    <2>2. UNCHANGED <<built, lost, foul>>
      BY <2>1 DEF Loop, RpcIdle, client, server, notices
    <2>3. phase \in [Ends -> {"connecting", "open", "closing", "stopped"}] /\ draining \in [Ends -> BOOLEAN]
      BY DEF RpcInv, SocketTypes
    <2>4. CASE DriverWrites(s) \/ DriverFails(s) \/ OnWrote(s) \/ IdleRearms(s)
      <3>1. UNCHANGED <<phase, draining>>
        BY <2>4 DEF DriverWrites, DriverFails, OnWrote, IdleRearms
      <3>2. QED
        BY <1>3, <2>2, <3>1
    <2>5. CASE OnRead(s)
      <3>1. phase' = phase /\ draining' = [draining EXCEPT ![s] = TRUE]
        BY <2>5 DEF OnRead
      <3>2. QED
        BY <1>3, <2>2, <2>3, <3>1 DEF Ends
    <2>6. CASE StreamClosed(s)
      <3>1. phase[s] = "closing" /\ phase' = [phase EXCEPT ![s] = "stopped"] /\ draining' = draining
        BY <2>6 DEF StreamClosed
      <3>2. QED
        BY <1>3, <2>2, <2>3, <3>1 DEF Ends
    <2>7. CASE s = "server" /\ EndDrain(s)
      <3>1. phase' = phase /\ draining' = [draining EXCEPT !["server"] = FALSE]
        BY <2>7 DEF EndDrain
      <3>2. QED
        BY <1>3, <2>2, <2>3, <3>1 DEF Ends
    <2>8. QED
      BY <2>1, <2>4, <2>5, <2>6, <2>7 DEF Loop, RpcIdle
  <1>7. CASE (ClientCloses \/ \E ok \in BOOLEAN : OnConnected(ok)) /\ UNCHANGED <<notices, server>>
    BY <1>4, <1>7 DEF ClientCloses, OnConnected, Eof, Ready, notices, server
  <1>8. CASE RequestsAndTimers
    <2>1. UNCHANGED <<built, lost, foul>>
      BY <1>8 DEF RequestsAndTimers, notices, server
    <2>2. ~draining["client"]
      BY <1>8 DEF RequestsAndTimers, OnRequest, OnDeadline, OnShutdown, ClientGivesUp, ReadFails,
                  IdleFires, Ready
    <2>3. QED
      BY <1>4, <2>1, <2>2
  <1>9. CASE \/ ServerCloses \/ ServerShutdown \/ ServerGivesUp \/ ServerBreaksProtocol
             \/ \E fits \in BOOLEAN : OnRequestFrame(fits)
             \/ \E r \in Requests : \E outcome \in Outcomes : OnRouted(r, outcome)
    <2>1. UNCHANGED <<built, lost>> /\ (foul => foul')
      <3>1. UNCHANGED client
        BY <1>9 DEF ServerCloses, ServerShutdown, ServerGivesUp, ServerBreaksProtocol, OnRequestFrame,
                    OnRouted
      <3>2. foul => foul'
        BY <1>9 DEF ServerCloses, ServerShutdown, ServerGivesUp, ServerBreaksProtocol, OnRequestFrame,
                    OnRouted
      <3>3. QED
        BY <3>1, <3>2 DEF client, notices
    <2>2. UNCHANGED <<phase, draining>> \/ \E why : ServerBeginClose(why)
      BY <1>9 DEF ServerCloses, ServerShutdown, ServerGivesUp, ServerBreaksProtocol, OnRequestFrame,
                  OnRouted, RouteRequest, AnswerError, socket
    <2>3. phase \in [Ends -> {"connecting", "open", "closing", "stopped"}] /\ draining \in [Ends -> BOOLEAN]
      BY DEF RpcInv, SocketTypes
    <2>4. phase'["client"] = phase["client"] /\ draining'["client"] = draining["client"]
      BY <2>2, <2>3 DEF ServerBeginClose, CloseSocket, Ends
    <2>5. QED
      BY <1>3, <2>1, <2>4
  <1>10. QED
    BY <1>1, <1>2, <1>5, <1>6, <1>7, <1>8, <1>9 DEF RpcNext, ClientLoop, ServerLoop, Ends

-----------------------------------------------------------------------------
(* What it says of the requests and of the stream.                         *)

LEMMA InvSettles == RpcInv /\ ResultsSent => RequestsSettle
  <1> SUFFICES ASSUME RpcInv, ResultsSent PROVE RequestsSettle
    OBVIOUS
  <1>1. SocketTypes /\ Books
    BY DEF RpcInv
  <1>2. \A s \in Ends : wrote[s] \in -1 .. Len(writing[s])
    BY <1>1 DEF SocketTypes
  <1>3. RpcTypeOK
    BY <1>1, <1>2 DEF RpcTypeOK, SocketTypes, Books
  <1>4. QED
    BY <1>1, <1>3 DEF RequestsSettle, Books

LEMMA AlignedWhole ==
    ASSUME NEW S \in Seq(Unit), Aligned(S), Even(S)
    PROVE  WholeFrames(S)
  <1>1. PICK n \in Nat : Len(S) = 2*n
    BY DEF Even
  <1>2. Len(S) % 2 = 0 /\ Len(S) \div 2 = n
    BY <1>1
  <1>3. ASSUME NEW i \in 1 .. n
        PROVE  /\ S[2*i - 1].part = 1 /\ S[2*i].part = 2
               /\ S[2*i - 1].req = S[2*i].req /\ S[2*i - 1].kind = S[2*i].kind
    <2>1. /\ i - 1 \in Nat /\ 2*(i - 1) + 1 = 2*i - 1 /\ 2*(i - 1) + 2 = 2*i
          /\ 2*i <= Len(S) /\ 2*i - 1 <= Len(S)
      BY <1>1
    <2>2. /\ 2*(i - 1) + 1 <= Len(S) => S[2*(i - 1) + 1].part = 1
          /\ 2*(i - 1) + 2 <= Len(S) =>
                /\ S[2*(i - 1) + 2].part = 2 /\ S[2*(i - 1) + 2].req = S[2*(i - 1) + 1].req
                /\ S[2*(i - 1) + 2].kind = S[2*(i - 1) + 1].kind
      BY <2>1 DEF Aligned
    <2>3. QED
      BY <2>1, <2>2
  <1>4. QED
    BY <1>2, <1>3 DEF WholeFrames

LEMMA InvIntact == RpcInv => StreamIntact
  <1> SUFFICES ASSUME RpcInv, NEW s \in Ends, phase[s] = "open", ~Closed(Peer(s)), wrote[s] >= 0
               PROVE  WholeFrames(inbound[Peer(s)] \o wire[s]
                                  \o SubSeq(writing[s], wrote[s] + 1, Len(writing[s])))
    BY DEF StreamIntact
  <1>1. ~Closed(s)
    BY DEF Closed
  <1>2. Aligned(Transit(s)) /\ Even(Transit(s)) /\ Transit(s) \in Seq(Unit)
    BY <1>1, SocketParts DEF RpcInv, WholeWay
  <1>3. WholeFrames(Transit(s))
    BY <1>2, AlignedWhole
  <1>4. Rest(writing[s], wrote[s]) = SubSeq(writing[s], wrote[s] + 1, Len(writing[s]))
    <2>1. (IF wrote[s] > 0 THEN wrote[s] ELSE 0) = wrote[s]
      BY SocketParts DEF RpcInv
    <2>2. QED
      BY <2>1 DEF Rest
  <1>5. QED
    BY <1>3, <1>4 DEF Transit, Way

\* Every request of the client has exactly one result or is in flight, whatever
\* closes, deadlines, refusals and late answers meet it; a result that was made is
\* sent to the requester, unless the server sends what no server may send behind
\* the answer in the same read (then on_read drops it); the router is given a
\* request at most once, only what it answered is reported Ok, and a request that
\* on_request refused or on_deadline took back from the queue never reaches it; a
\* write queue as long as the in-flight map never overflows; every slot of the
\* connection belongs to a call: in every behaviour, for every number of requests
\* and every configuration of the stream and its ends.
THEOREM RequestsAllSettle == RpcSpec => []RequestsSettle
  <1>1. RpcInit => RpcInv /\ ResultsSent
    BY RpcInvStarts DEF RpcInit, ClientInit, ResultsSent
  <1>2. RpcInv /\ ResultsSent /\ [RpcNext]_rpcVars => RpcInv' /\ ResultsSent'
    BY RpcInvStays, ResultsStaySent
  <1>3. RpcInv /\ ResultsSent => RequestsSettle
    BY InvSettles
  <1>4. QED
    BY <1>1, <1>2, <1>3, PTL DEF RpcSpec

\* However the driver cuts reads and writes, and whatever is queued, recalled or
\* put back at the front meanwhile, what is between the two ends is a sequence of
\* whole frames in every behaviour, for every chunk size and stream capacity.
THEOREM StreamsStayIntact == RpcSpec => []StreamIntact
  <1>1. RpcInit => RpcInv
    BY RpcInvStarts
  <1>2. RpcInv /\ [RpcNext]_rpcVars => RpcInv'
    BY RpcInvStays
  <1>3. RpcInv => StreamIntact
    BY InvIntact
  <1>4. QED
    BY <1>1, <1>2, <1>3, PTL DEF RpcSpec

=============================================================================
