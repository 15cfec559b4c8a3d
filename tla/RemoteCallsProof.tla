-------------------------- MODULE RemoteCallsProof --------------------------
(***************************************************************************)
(* Calls between two shards, for any number of calls, any channel, mailbox *)
(* and drain budget, and any faults of the two shards: CallsSettleOnce is  *)
(* inductive.                                                              *)
(*                                                                         *)
(* The first part is about the lanes: what a channel operation does to the *)
(* requests and replies on their way.  The second part forgets the lanes.  *)
(* A step then belongs to the transport, settles a call at home, or is a   *)
(* turn of the target; sending a call, routing it and receiving it are the *)
(* three steps that move a call from one stage to the next.                *)
(***************************************************************************)
EXTENDS RemoteCalls, TLAPS

-----------------------------------------------------------------------------
(* Sequences.                                                              *)

\* What Append does to the members.
LEMMA AppendFacts ==
    ASSUME NEW S, NEW q \in Seq(S), NEW e \in S
    PROVE  /\ Append(q, e) \in Seq(S) /\ Len(Append(q, e)) = Len(q) + 1
           /\ ToSet(Append(q, e)) = ToSet(q) \cup {e}
  <1>1. Append(q, e) \in Seq(S) /\ Len(Append(q, e)) = Len(q) + 1 /\ Len(q) \in Nat
    OBVIOUS
  <1>2. /\ DOMAIN q = 1 .. Len(q) /\ DOMAIN Append(q, e) = 1 .. Len(q) + 1
        /\ \A i \in 1 .. Len(q) : Append(q, e)[i] = q[i]
        /\ Append(q, e)[Len(q) + 1] = e
    OBVIOUS
  <1>3. ToSet(Append(q, e)) \subseteq ToSet(q) \cup {e}
    BY <1>1, <1>2 DEF ToSet
  <1>4. ToSet(q) \cup {e} \subseteq ToSet(Append(q, e))
    BY <1>1, <1>2 DEF ToSet
  <1>5. QED
    BY <1>1, <1>3, <1>4

\* What Tail does to them.
LEMMA TailFacts ==
    ASSUME NEW S, NEW q \in Seq(S), q # <<>>
    PROVE  /\ Tail(q) \in Seq(S) /\ Len(Tail(q)) = Len(q) - 1 /\ Len(q) \in Nat /\ Len(q) > 0
           /\ Head(q) \in S /\ Head(q) \in ToSet(q)
           /\ ToSet(q) = ToSet(Tail(q)) \cup {Head(q)}
  <1>1. Tail(q) \in Seq(S) /\ Len(Tail(q)) = Len(q) - 1 /\ Len(q) \in Nat /\ Len(q) > 0
    OBVIOUS
  <1>2. /\ DOMAIN q = 1 .. Len(q) /\ DOMAIN Tail(q) = 1 .. Len(q) - 1
        /\ \A i \in 1 .. Len(q) - 1 : Tail(q)[i] = q[i + 1]
        /\ Head(q) = q[1] /\ Head(q) \in S
    BY <1>1
  <1>3. ToSet(q) \subseteq ToSet(Tail(q)) \cup {Head(q)}
    <2>1. ASSUME NEW i \in 1 .. Len(q) PROVE q[i] \in ToSet(Tail(q)) \cup {Head(q)}
      <3>1. CASE i = 1
        BY <1>2, <3>1
      <3>2. CASE i # 1
        <4>1. i - 1 \in 1 .. Len(q) - 1 /\ Tail(q)[i - 1] = q[i]
          BY <1>1, <1>2, <3>2
        <4>2. QED
          BY <1>2, <4>1 DEF ToSet
      <3>3. QED
        BY <3>1, <3>2
    <2>2. QED
      BY <1>2, <2>1 DEF ToSet
  <1>4. ToSet(Tail(q)) \subseteq ToSet(q) /\ Head(q) \in ToSet(q)
    BY <1>1, <1>2 DEF ToSet
  <1>5. QED
    BY <1>1, <1>2, <1>3, <1>4

\* A sequence without members is empty.
LEMMA NoMembers ==
    ASSUME NEW S, NEW q \in Seq(S)
    PROVE  ToSet(q) = {} <=> q = <<>>
  <1>1. q # <<>> => ToSet(q) # {}
    BY TailFacts
  <1>2. q = <<>> => ToSet(q) = {}
    BY DEF ToSet
  <1>3. QED
    BY <1>1, <1>2

\* Nothing is left of a sequence of one.
LEMMA ShortTail ==
    ASSUME NEW S, NEW q \in Seq(S), q # <<>>, Len(q) <= 1
    PROVE  Tail(q) = <<>> /\ ToSet(q) = {Head(q)}
  <1>1. /\ Tail(q) \in Seq(S) /\ Len(Tail(q)) = Len(q) - 1 /\ Len(q) \in Nat /\ Len(q) > 0
        /\ ToSet(q) = ToSet(Tail(q)) \cup {Head(q)}
    BY TailFacts
  <1>2. Len(Tail(q)) = 0
    BY <1>1
  <1>3. Tail(q) = <<>>
    BY <1>1, <1>2
  <1>4. ToSet(Tail(q)) = {}
    BY <1>3 DEF ToSet
  <1>5. QED
    BY <1>1, <1>3, <1>4

\* A sequence of one member.
LEMMA OneMember ==
    ASSUME NEW S, NEW e \in S
    PROVE  <<e>> \in Seq(S) /\ Len(<<e>>) = 1 /\ ToSet(<<e>>) = {e}
  BY DEF ToSet

\* No two envelopes of a channel are for the same call.
Distinct(q) == \A i, j \in DOMAIN q : q[i].call = q[j].call => i = j

\* Appending another call keeps that.
LEMMA DistinctAppend ==
    ASSUME NEW S, NEW q \in Seq(S), NEW e \in S, Distinct(q), e.call \notin CallsIn(q)
    PROVE  Distinct(Append(q, e))
  <1>1. Len(q) \in Nat /\ DOMAIN q = 1 .. Len(q) /\ DOMAIN Append(q, e) = 1 .. Len(q) + 1
        /\ (\A i \in 1 .. Len(q) : Append(q, e)[i] = q[i])
        /\ Append(q, e)[Len(q) + 1] = e
    OBVIOUS
  <1>2. \A i \in 1 .. Len(q) : q[i].call # e.call
    BY <1>1 DEF CallsIn, ToSet
  <1>3. QED
    BY <1>1, <1>2 DEF Distinct

\* So does taking the first, whose call is then gone.
LEMMA DistinctTail ==
    ASSUME NEW S, NEW q \in Seq(S), q # <<>>, Distinct(q)
    PROVE  /\ Distinct(Tail(q)) /\ Head(q).call \in CallsIn(q)
           /\ CallsIn(Tail(q)) = CallsIn(q) \ {Head(q).call}
  <1>1. /\ Len(q) \in Nat /\ Len(q) > 0
        /\ DOMAIN q = 1 .. Len(q) /\ DOMAIN Tail(q) = 1 .. Len(q) - 1
        /\ \A i \in 1 .. Len(q) - 1 : Tail(q)[i] = q[i + 1]
        /\ Head(q) = q[1]
    OBVIOUS
  <1>2. \A i \in 1 .. Len(q) - 1 : i + 1 \in DOMAIN q /\ i + 1 # 1
    BY <1>1
  <1>3. Distinct(Tail(q))
    BY <1>1, <1>2 DEF Distinct
  <1>4. \A i \in 1 .. Len(q) - 1 : Tail(q)[i].call # q[1].call
    BY <1>1, <1>2 DEF Distinct
  <1>5. Head(q).call \notin CallsIn(Tail(q))
    BY <1>1, <1>4 DEF CallsIn, ToSet
  <1>6. ToSet(q) = ToSet(Tail(q)) \cup {Head(q)}
    BY TailFacts
  <1>7. QED
    BY <1>3, <1>5, <1>6 DEF CallsIn

\* The same for the mailbox.
LEMMA InjectiveAppend ==
    ASSUME NEW S, NEW q \in Seq(S), NEW e \in S, IsInjective(q), e \notin ToSet(q)
    PROVE  IsInjective(Append(q, e))
  <1>1. Len(q) \in Nat /\ DOMAIN q = 1 .. Len(q) /\ DOMAIN Append(q, e) = 1 .. Len(q) + 1
        /\ (\A i \in 1 .. Len(q) : Append(q, e)[i] = q[i])
        /\ Append(q, e)[Len(q) + 1] = e
    OBVIOUS
  <1>2. \A i \in 1 .. Len(q) : q[i] # e
    BY <1>1 DEF ToSet
  <1>3. QED
    BY <1>1, <1>2 DEF IsInjective

\* The first message of the mailbox is there once.
LEMMA InjectiveTail ==
    ASSUME NEW S, NEW q \in Seq(S), q # <<>>, IsInjective(q)
    PROVE  /\ IsInjective(Tail(q)) /\ Head(q) \in ToSet(q)
           /\ ToSet(Tail(q)) = ToSet(q) \ {Head(q)}
  <1>1. /\ Len(q) \in Nat /\ Len(q) > 0
        /\ DOMAIN q = 1 .. Len(q) /\ DOMAIN Tail(q) = 1 .. Len(q) - 1
        /\ \A i \in 1 .. Len(q) - 1 : Tail(q)[i] = q[i + 1]
        /\ Head(q) = q[1]
    OBVIOUS
  <1>2. \A i \in 1 .. Len(q) - 1 : i + 1 \in DOMAIN q /\ i + 1 # 1
    BY <1>1
  <1>3. IsInjective(Tail(q))
    BY <1>1, <1>2 DEF IsInjective
  <1>4. \A i \in 1 .. Len(q) - 1 : Tail(q)[i] # q[1]
    BY <1>1, <1>2 DEF IsInjective
  <1>5. Head(q) \notin ToSet(Tail(q))
    BY <1>1, <1>4 DEF ToSet
  <1>6. ToSet(q) = ToSet(Tail(q)) \cup {Head(q)}
    BY TailFacts
  <1>7. QED
    BY <1>3, <1>5, <1>6

-----------------------------------------------------------------------------
(* The lanes.                                                              *)

\* The two shards.
LEMMA TwoShards ==
    ASSUME CallAssumption
    PROVE  /\ Home \in Shards /\ Away \in Shards /\ Home # Away /\ Shards = {Home, Away}
           /\ Cap \in Nat \ {0} /\ Budget \in Nat \ {0} /\ MailCap \in Nat \ {0} /\ MaxCalls \in Nat
           /\ PeerSeq \in [Shards -> Seq(Shards)] /\ Faults \subseteq Shards
  BY DEF CallAssumption, TransportAssumption

\* The lane and the address of an envelope follow from its kind.
LEMMA Kinds ==
    ASSUME NEW e \in Envelope
    PROVE  /\ e.call \in Calls /\ Lane(e) \in Lanes
           /\ e \in Request => e.kind = "Send" /\ e.to = Away /\ Lane(e) = "ordinary"
           /\ e \in Reply => /\ e.kind = "CallReply" /\ e.to = Home /\ Lane(e) = "terminal"
                             /\ e.outcome \in Outcomes
           /\ e.to \in {Home, Away}
  BY DEF Envelope, Request, Reply, Lane, OrdinaryKinds, Lanes

\* The table of channels.
Channels == [Lanes -> [Shards -> [Shards -> Seq(Envelope)]]]

\* The parts of LanesKept.
QueuesKept ==
    /\ queue \in Channels
    /\ \A lane \in Lanes, s \in Shards, t \in Shards :
          \A e \in ToSet(queue[lane][s][t]) : s # t /\ e.to = t /\ Lane(e) = lane
OverflowKept ==
    /\ overflow \in [Shards -> Seq(Envelope)]
    /\ \A s \in Shards : \A e \in ToSet(overflow[s]) : e.to # s /\ Lane(e) = "terminal"
HandsKept ==
    /\ hand \in [Shards -> Seq(Envelope)]
    /\ \A s \in Shards : Len(hand[s]) <= 1 /\ \A e \in ToSet(hand[s]) : e.to # s

\* They are its parts.
LEMMA LanesSplit ==
    LanesKept <=> QueuesKept /\ OverflowKept /\ HandsKept
  BY DEF LanesKept, QueuesKept, OverflowKept, HandsKept, Channels

\* After a step too.
LEMMA LanesSplitNext ==
    ASSUME QueuesKept', OverflowKept', HandsKept'
    PROVE  LanesKept'
  BY DEF LanesKept, QueuesKept, OverflowKept, HandsKept, Channels

\* Requests travel away and replies travel home; all else is empty.
LEMMA Places ==
    ASSUME CallAssumption, LanesKept
    PROVE  /\ hand[Home] \in Seq(Envelope) /\ ToSet(hand[Home]) \subseteq Request
           /\ hand[Away] \in Seq(Envelope) /\ ToSet(hand[Away]) \subseteq Reply
           /\ overflow[Home] = <<>>
           /\ overflow[Away] \in Seq(Envelope) /\ ToSet(overflow[Away]) \subseteq Reply
           /\ Requests \in Seq(Envelope) /\ ToSet(Requests) \subseteq Request
           /\ queue["terminal"][Away][Home] \in Seq(Envelope)
           /\ ToSet(queue["terminal"][Away][Home]) \subseteq Reply
           /\ Replying \subseteq Reply
  <1>0. Home \in Shards /\ Away \in Shards /\ Home # Away /\ "terminal" \in Lanes /\ "ordinary" \in Lanes
    BY TwoShards DEF Lanes
  <1>1. /\ hand[Home] \in Seq(Envelope) /\ hand[Away] \in Seq(Envelope)
        /\ overflow[Home] \in Seq(Envelope) /\ overflow[Away] \in Seq(Envelope)
        /\ Requests \in Seq(Envelope) /\ queue["terminal"][Away][Home] \in Seq(Envelope)
    BY <1>0 DEF LanesKept, Requests
  <1>2. \A q \in Seq(Envelope) : ToSet(q) \subseteq Envelope
    BY DEF ToSet
  <1>3. \A e \in Envelope : /\ e.to # Home => e \in Request
                            /\ e.to # Away => e \in Reply
                            /\ Lane(e) = "terminal" => e.to = Home
    BY <1>0, Kinds DEF Envelope
  <1>4. ToSet(hand[Home]) \subseteq Request /\ ToSet(hand[Away]) \subseteq Reply
    BY <1>0, <1>1, <1>2, <1>3 DEF LanesKept
  <1>5. ToSet(overflow[Home]) = {} /\ ToSet(overflow[Away]) \subseteq Reply
    BY <1>0, <1>1, <1>2, <1>3 DEF LanesKept
  <1>6. \A e \in ToSet(Requests) : e.to = Away
    BY <1>0 DEF LanesKept, Requests
  <1>7. ToSet(Requests) \subseteq Request
    BY <1>0, <1>1, <1>2, <1>3, <1>6
  <1>8. \A e \in ToSet(queue["terminal"][Away][Home]) : e.to = Home
    BY <1>0 DEF LanesKept
  <1>9. ToSet(queue["terminal"][Away][Home]) \subseteq Reply
    BY <1>0, <1>1, <1>2, <1>3, <1>8
  <1>10. QED
    BY <1>1, <1>4, <1>5, <1>7, <1>9, NoMembers DEF Replying

\* One channel of the table is replaced.
Replaced(x, y, z, v) == queue' = [queue EXCEPT ![x][y][z] = v]

\* The others are as they were.
LEMMA OneChannel ==
    ASSUME queue \in Channels,
           NEW x \in Lanes, NEW y \in Shards, NEW z \in Shards, NEW v \in Seq(Envelope),
           Replaced(x, y, z, v)
    PROVE  /\ queue' \in Channels
           /\ \A lane \in Lanes, a \in Shards, b \in Shards :
                 queue'[lane][a][b] = IF lane = x /\ a = y /\ b = z THEN v ELSE queue[lane][a][b]
  <1> DEFINE V == Seq(Envelope)
             row == [queue[x][y] EXCEPT ![z] = v]
             plane == [queue[x] EXCEPT ![y] = row]
  <1>1. queue' = [queue EXCEPT ![x] = plane]
    BY DEF Replaced
  <1>0. queue \in [Lanes -> [Shards -> [Shards -> V]]] /\ v \in V
    BY DEF Channels
  <1> HIDE DEF V
  <1>2. row \in [Shards -> V] /\ \A c \in Shards : row[c] = IF c = z THEN v ELSE queue[x][y][c]
    BY <1>0
  <1> HIDE DEF row
  <1>3. plane \in [Shards -> [Shards -> V]] /\ \A b \in Shards : plane[b] = IF b = y THEN row ELSE queue[x][b]
    BY <1>0, <1>2
  <1> HIDE DEF plane
  <1>4. /\ queue' \in [Lanes -> [Shards -> [Shards -> V]]]
        /\ \A a \in Lanes : queue'[a] = IF a = x THEN plane ELSE queue[a]
    BY <1>0, <1>1, <1>3
  <1>5. \A lane \in Lanes, a \in Shards, b \in Shards :
           queue'[lane][a][b] = IF lane = x /\ a = y /\ b = z THEN v ELSE queue[lane][a][b]
    BY <1>2, <1>3, <1>4
  <1>6. QED
    BY <1>4, <1>5 DEF V, Channels

\* An envelope says where it is.
LEMMA Placed ==
    ASSUME QueuesKept, NEW lane \in Lanes, NEW a \in Shards, NEW b \in Shards,
           NEW e \in ToSet(queue[lane][a][b])
    PROVE  a # b /\ e.to = b /\ Lane(e) = lane
  BY DEF QueuesKept

\* A channel is longer by one envelope.
LEMMA QueueAppends ==
    ASSUME CallAssumption, QueuesKept, NEW s \in Shards, NEW e \in Envelope, e.to # s,
           Replaced(Lane(e), s, e.to, Append(queue[Lane(e)][s][e.to], e))
    PROVE  /\ QueuesKept'
           /\ \A lane \in Lanes, a \in Shards, b \in Shards :
                 queue'[lane][a][b] = IF lane = Lane(e) /\ a = s /\ b = e.to
                                      THEN Append(queue[lane][a][b], e) ELSE queue[lane][a][b]
  <1>1. e.to \in Shards /\ Lane(e) \in Lanes
    BY TwoShards, Kinds
  <1>2. \A lane \in Lanes, a \in Shards, b \in Shards : queue[lane][a][b] \in Seq(Envelope)
    BY DEF QueuesKept, Channels
  <1>4. Append(queue[Lane(e)][s][e.to], e) \in Seq(Envelope)
    BY <1>1, <1>2
  <1> DEFINE v == Append(queue[Lane(e)][s][e.to], e)
  <1>10. v \in Seq(Envelope) /\ Replaced(Lane(e), s, e.to, v)
    BY <1>4
  <1> HIDE DEF v
  <1>9. queue \in Channels
    BY DEF QueuesKept
  <1>5. /\ queue' \in Channels
        /\ \A lane \in Lanes, a \in Shards, b \in Shards :
              queue'[lane][a][b] = IF lane = Lane(e) /\ a = s /\ b = e.to
                                   THEN v ELSE queue[lane][a][b]
    BY <1>1, <1>9, <1>10, OneChannel
  <1>3. \A lane \in Lanes, a \in Shards, b \in Shards :
           queue'[lane][a][b] = IF lane = Lane(e) /\ a = s /\ b = e.to
                                THEN Append(queue[lane][a][b], e) ELSE queue[lane][a][b]
    BY <1>5 DEF v
  <1>6. ASSUME NEW lane \in Lanes, NEW a \in Shards, NEW b \in Shards,
               NEW x \in ToSet(queue'[lane][a][b])
        PROVE  a # b /\ x.to = b /\ Lane(x) = lane
    <2>1. CASE lane = Lane(e) /\ a = s /\ b = e.to
      <3>1. ToSet(queue'[lane][a][b]) = ToSet(queue[lane][a][b]) \cup {e}
        BY <1>2, <1>3, <2>1, AppendFacts
      <3>2. x \in ToSet(queue[lane][a][b]) \/ x = e
        BY <1>6, <3>1
      <3>3. QED
        BY <2>1, <3>2 DEF QueuesKept
    <2>2. CASE ~(lane = Lane(e) /\ a = s /\ b = e.to)
      <3>1. queue'[lane][a][b] = queue[lane][a][b]
        BY <1>3, <2>2
      <3>2. x \in ToSet(queue[lane][a][b])
        BY <1>6, <3>1
      <3>3. QED
        BY <3>2, Placed
    <2>3. QED
      BY <2>1, <2>2
  <1>7. QED
    BY <1>3, <1>5, <1>6 DEF QueuesKept, Lane

\* A channel has lost its first envelope.
LEMMA QueueTakes ==
    ASSUME QueuesKept, NEW l \in Lanes, NEW s \in Shards, NEW t \in Shards,
           queue[l][s][t] # <<>>,
           Replaced(l, s, t, Tail(queue[l][s][t]))
    PROVE  /\ QueuesKept'
           /\ \A lane \in Lanes, a \in Shards, b \in Shards :
                 queue'[lane][a][b] = IF lane = l /\ a = s /\ b = t
                                      THEN Tail(queue[lane][a][b]) ELSE queue[lane][a][b]
  <1>2. \A lane \in Lanes, a \in Shards, b \in Shards : queue[lane][a][b] \in Seq(Envelope)
    BY DEF QueuesKept, Channels
  <1>4. Tail(queue[l][s][t]) \in Seq(Envelope)
    BY <1>2, TailFacts
  <1> DEFINE v == Tail(queue[l][s][t])
  <1>10. v \in Seq(Envelope) /\ Replaced(l, s, t, v)
    BY <1>4
  <1> HIDE DEF v
  <1>9. queue \in Channels
    BY DEF QueuesKept
  <1>5. /\ queue' \in Channels
        /\ \A lane \in Lanes, a \in Shards, b \in Shards :
              queue'[lane][a][b] = IF lane = l /\ a = s /\ b = t
                                   THEN v ELSE queue[lane][a][b]
    BY <1>9, <1>10, OneChannel
  <1>3. \A lane \in Lanes, a \in Shards, b \in Shards :
           queue'[lane][a][b] = IF lane = l /\ a = s /\ b = t
                                THEN Tail(queue[lane][a][b]) ELSE queue[lane][a][b]
    BY <1>5 DEF v
  <1>6. ASSUME NEW lane \in Lanes, NEW a \in Shards, NEW b \in Shards,
               NEW x \in ToSet(queue'[lane][a][b])
        PROVE  a # b /\ x.to = b /\ Lane(x) = lane
    <2>1. CASE lane = l /\ a = s /\ b = t
      <3>1. ToSet(queue'[lane][a][b]) \subseteq ToSet(queue[lane][a][b])
        BY <1>2, <1>3, <2>1, TailFacts
      <3>2. x \in ToSet(queue[lane][a][b])
        BY <1>6, <3>1
      <3>3. QED
        BY <3>2, Placed
    <2>2. CASE ~(lane = l /\ a = s /\ b = t)
      <3>1. queue'[lane][a][b] = queue[lane][a][b]
        BY <1>3, <2>2
      <3>2. x \in ToSet(queue[lane][a][b])
        BY <1>6, <3>1
      <3>3. QED
        BY <3>2, Placed
    <2>3. QED
      BY <2>1, <2>2
  <1>7. QED
    BY <1>3, <1>5, <1>6 DEF QueuesKept, Lane

\* One attempt to put an envelope into its channel.
LEMMA Enqueued ==
    ASSUME CallAssumption, QueuesKept, NEW s \in Shards, NEW e \in Envelope, e.to # s,
           Enqueue(s, e)
    PROVE  /\ QueuesKept'
           /\ \A lane \in Lanes, a \in Shards, b \in Shards :
                 queue'[lane][a][b] = IF Lossless(s, e) = "Ok" /\ lane = Lane(e) /\ a = s /\ b = e.to
                                      THEN Append(queue[lane][a][b], e) ELSE queue[lane][a][b]
  <1>1. CASE Lossless(s, e) = "Ok"
    <2>1. Replaced(Lane(e), s, e.to, Append(queue[Lane(e)][s][e.to], e))
      BY <1>1 DEF Enqueue, Replaced
    <2>2. QED
      BY <1>1, <2>1, QueueAppends
  <1>2. CASE Lossless(s, e) # "Ok"
    <2>1. queue' = queue
      BY <1>2 DEF Enqueue
    <2>2. QED
      BY <1>2, <2>1 DEF QueuesKept, Lane
  <1>3. QED
    BY <1>1, <1>2

\* The replies in their channel.
Replies == queue["terminal"][Away][Home]

\* What it does to the requests, from Home, or to the replies, from Away.
LEMMA Posted ==
    ASSUME CallAssumption, QueuesKept, NEW s \in Shards, NEW e \in Envelope, e.to # s,
           Enqueue(s, e)
    PROVE  /\ s = Home => /\ e \in Request
                          /\ Requests' = IF Lossless(s, e) = "Ok" THEN Append(Requests, e) ELSE Requests
                          /\ Replies' = Replies
           /\ s = Away => /\ e \in Reply
                          /\ Requests' = Requests
                          /\ Replies' = IF Lossless(s, e) = "Ok" THEN Append(Replies, e) ELSE Replies
  <1>0. Home \in Shards /\ Away \in Shards /\ Home # Away /\ "terminal" \in Lanes /\ "ordinary" \in Lanes
    BY TwoShards DEF Lanes
  <1>1. \A lane \in Lanes, a \in Shards, b \in Shards :
           queue'[lane][a][b] = IF Lossless(s, e) = "Ok" /\ lane = Lane(e) /\ a = s /\ b = e.to
                                THEN Append(queue[lane][a][b], e) ELSE queue[lane][a][b]
    BY Enqueued
  <1>2. /\ s = Home => e \in Request /\ e.to = Away /\ Lane(e) = "ordinary"
        /\ s = Away => e \in Reply /\ e.to = Home /\ Lane(e) = "terminal"
    BY <1>0, Kinds DEF Envelope
  <1>3. /\ Requests' = queue'["ordinary"][Home][Away] /\ Replies' = queue'["terminal"][Away][Home]
        /\ Requests = queue["ordinary"][Home][Away] /\ Replies = queue["terminal"][Away][Home]
    BY DEF Requests, Replies
  <1>4. QED
    BY <1>0, <1>1, <1>2, <1>3

\* A worker is given an envelope to route.
LEMMA HandFilled ==
    ASSUME HandsKept, NEW s \in Shards, NEW e \in Envelope, e.to # s,
           hand' = [hand EXCEPT ![s] = <<e>>]
    PROVE  HandsKept' /\ hand'[s] = <<e>> /\ \A r \in Shards : r # s => hand'[r] = hand[r]
  <1>1. <<e>> \in Seq(Envelope) /\ Len(<<e>>) = 1 /\ ToSet(<<e>>) = {e}
    BY OneMember
  <1>2. hand' \in [Shards -> Seq(Envelope)] /\ hand'[s] = <<e>> /\ \A r \in Shards : r # s => hand'[r] = hand[r]
    BY <1>1 DEF HandsKept
  <1>3. QED
    BY <1>1, <1>2 DEF HandsKept

\* The envelope a worker holds is for the other shard, and the only one.
LEMMA HandHolds ==
    ASSUME CallAssumption, HandsKept, NEW s \in Shards, hand[s] # <<>>
    PROVE  /\ Head(hand[s]) \in Envelope /\ Head(hand[s]).to # s
           /\ ToSet(hand[s]) = {Head(hand[s])} /\ Tail(hand[s]) = <<>>
  <1>1. hand[s] \in Seq(Envelope) /\ Len(hand[s]) <= 1
    BY DEF HandsKept
  <1>2. Head(hand[s]) \in Envelope /\ Head(hand[s]) \in ToSet(hand[s])
    BY <1>1, TailFacts
  <1>3. Tail(hand[s]) = <<>> /\ ToSet(hand[s]) = {Head(hand[s])}
    BY <1>1, ShortTail
  <1>4. QED
    BY <1>2, <1>3 DEF HandsKept

\* A worker's hand is empty.
LEMMA HandEmptied ==
    ASSUME HandsKept, NEW s \in Shards, hand' = [hand EXCEPT ![s] = <<>>]
    PROVE  HandsKept' /\ hand'[s] = <<>> /\ \A r \in Shards : r # s => hand'[r] = hand[r]
  <1>1. <<>> \in Seq(Envelope) /\ Len(<<>>) = 0 /\ ToSet(<<>>) = {}
    BY DEF ToSet
  <1>2. hand' \in [Shards -> Seq(Envelope)] /\ hand'[s] = <<>> /\ \A r \in Shards : r # s => hand'[r] = hand[r]
    BY <1>1 DEF HandsKept
  <1>3. QED
    BY <1>1, <1>2 DEF HandsKept

\* A worker routes what it holds.
LEMMA Routes ==
    ASSUME CallAssumption, LanesKept, NEW s \in Shards, Route(s)
    PROVE  LET e == Head(hand[s]) IN
           /\ LanesKept' /\ e \in Envelope
           /\ s = Home =>
                 /\ e \in Request /\ Sending = {e.call} /\ Sending' = {}
                 /\ Routed(s, e) = Lossless(s, e)
                 /\ Requests' = IF Routed(s, e) = "Ok" THEN Append(Requests, e) ELSE Requests
                 /\ Replying' = Replying
           /\ s = Away =>
                 /\ e \in Reply /\ Sending' = Sending /\ Requests' = Requests
                 /\ Replying' \subseteq Replying
                 /\ state[Home] = "running" => Replying' = Replying
  <1> DEFINE e == Head(hand[s])
  <1>0. Home \in Shards /\ Away \in Shards /\ Home # Away /\ Shards = {Home, Away}
    BY TwoShards
  <1>1. QueuesKept /\ OverflowKept /\ HandsKept
    BY LanesSplit
  <1>2. e \in Envelope /\ e.to # s /\ ToSet(hand[s]) = {e} /\ Tail(hand[s]) = <<>>
    BY <1>1, HandHolds DEF Route
  <1>3. /\ Enqueue(s, e) /\ hand' = [hand EXCEPT ![s] = Tail(hand[s])]
        /\ overflow' = IF Overflowed(s, e) THEN [overflow EXCEPT ![s] = Append(@, e)] ELSE overflow
    BY DEF Route
  <1> HIDE DEF e
  <1>4. /\ <<>> \in Seq(Envelope) /\ Len(<<>>) = 0 /\ \A q : q \notin ToSet(<<>>)
    BY DEF ToSet
  <1>5. HandsKept' /\ hand'[s] = <<>> /\ \A r \in Shards : r # s => hand'[r] = hand[r]
    <2>1. hand' = [hand EXCEPT ![s] = <<>>]
      BY <1>2, <1>3
    <2>2. QED
      BY <1>1, <2>1, HandEmptied
  <1>6. QueuesKept'
    BY <1>1, <1>2, <1>3, Enqueued
  <1>7. /\ overflow \in [Shards -> Seq(Envelope)] /\ overflow[s] \in Seq(Envelope)
        /\ \A r \in Shards : overflow'[r] = IF r = s /\ Overflowed(s, e)
                                            THEN Append(overflow[r], e) ELSE overflow[r]
    BY <1>1, <1>3 DEF OverflowKept
  <1>8. Overflowed(s, e) => Lane(e) = "terminal"
    BY DEF Overflowed, Routed
  <1>9. OverflowKept'
    <2>1. overflow' \in [Shards -> Seq(Envelope)]
      BY <1>2, <1>3, <1>7
    <2>2. \A r \in Shards : ToSet(overflow'[r]) \subseteq ToSet(overflow[r]) \cup
                               (IF r = s /\ Overflowed(s, e) THEN {e} ELSE {})
      BY <1>2, <1>7, AppendFacts
    <2>3. QED
      BY <1>1, <1>2, <1>8, <2>1, <2>2 DEF OverflowKept, Lane
  <1>10. LanesKept'
    BY <1>5, <1>6, <1>9, LanesSplitNext
  <1>11. CASE s = Home
    <2>1. /\ e \in Request /\ Replies' = Replies
          /\ Requests' = IF Lossless(s, e) = "Ok" THEN Append(Requests, e) ELSE Requests
      BY <1>1, <1>2, <1>3, <1>11, Posted
    <2>2. Lane(e) = "ordinary"
      BY <1>2, <2>1, Kinds
    <2>3. Routed(s, e) = Lossless(s, e) /\ ~Overflowed(s, e)
      BY <2>2 DEF Routed, Overflowed
    <2>4. Sending = {e.call} /\ Sending' = {}
      BY <1>2, <1>4, <1>5, <1>11 DEF Sending, CallsIn
    <2>5. hand'[Away] = hand[Away] /\ overflow'[Away] = overflow[Away]
      BY <1>0, <1>5, <1>7, <1>11, <2>3
    <2>6. Replying' = Replying
      BY <2>1, <2>5 DEF Replying, Replies
    <2>7. QED
      BY <1>0, <1>2, <1>10, <1>11, <2>1, <2>3, <2>4, <2>6 DEF e
  <1>12. CASE s = Away
    <2>1. /\ e \in Reply /\ Requests' = Requests
          /\ Replies' = IF Lossless(s, e) = "Ok" THEN Append(Replies, e) ELSE Replies
      BY <1>1, <1>2, <1>3, <1>12, Posted
    <2>2. Sending' = Sending
      BY <1>0, <1>5, <1>12 DEF Sending
    <2>3. Replies \in Seq(Envelope)
      BY Places DEF Replies
    <2>4. ToSet(Replies') = ToSet(Replies) \cup (IF Lossless(s, e) = "Ok" THEN {e} ELSE {})
      BY <1>2, <2>1, <2>3, AppendFacts
    <2>5. ToSet(overflow'[Away]) = ToSet(overflow[Away]) \cup (IF Overflowed(s, e) THEN {e} ELSE {})
      BY <1>0, <1>2, <1>7, <1>12, AppendFacts
    <2>6. ToSet(hand[Away]) = {e} /\ ToSet(hand'[Away]) = {}
      BY <1>2, <1>4, <1>5, <1>12
    <2>7. /\ Replying = ToSet(hand[Away]) \cup ToSet(overflow[Away]) \cup ToSet(Replies)
          /\ Replying' = ToSet(hand'[Away]) \cup ToSet(overflow'[Away]) \cup ToSet(Replies')
      BY DEF Replying, Replies
    <2>8. state[Home] = "running" => Lossless(s, e) = "Ok" \/ Overflowed(s, e)
      <3>1. e.to = Home /\ Lane(e) = "terminal"
        BY <1>2, <2>1, Kinds
      <3>2. QED
        BY <3>1 DEF Lossless, Overflowed, Routed
    <2>9. Replying' \subseteq Replying /\ (state[Home] = "running" => Replying' = Replying)
      BY <2>4, <2>5, <2>6, <2>7, <2>8
    <2>10. QED
      BY <1>0, <1>2, <1>10, <1>12, <2>1, <2>2, <2>9 DEF e
  <1>13. QED
    BY <1>0, <1>11, <1>12

\* A worker retries the first envelope of its overflow lane.
LEMMA Retries ==
    ASSUME CallAssumption, LanesKept, NEW s \in Shards, RetryOverflow(s)
    PROVE  /\ LanesKept' /\ Sending' = Sending /\ Requests' = Requests
           /\ Replying' \subseteq Replying
           /\ state[Home] = "running" => Replying' = Replying
  <1> DEFINE e == Head(overflow[s])
  <1>0. Home \in Shards /\ Away \in Shards /\ Home # Away /\ Shards = {Home, Away}
    BY TwoShards
  <1>1. QueuesKept /\ OverflowKept /\ HandsKept
    BY LanesSplit
  <1>2. hand' = hand
    BY DEF RetryOverflow
  <1>3. HandsKept' /\ Sending' = Sending
    BY <1>1, <1>2 DEF HandsKept, Sending
  <1>4. CASE overflow[s] = <<>> \/ Lossless(s, e) = "Full"
    <2>1. queue' = queue /\ overflow' = overflow
      BY <1>4 DEF RetryOverflow
    <2>2. QueuesKept' /\ OverflowKept'
      BY <1>1, <2>1 DEF QueuesKept, OverflowKept, Lane
    <2>3. LanesKept'
      BY <1>3, <2>2, LanesSplitNext
    <2>4. QED
      BY <1>2, <1>3, <2>1, <2>3 DEF Requests, Replying
  <1>5. CASE ~(overflow[s] = <<>> \/ Lossless(s, e) = "Full")
    <2>1. Enqueue(s, e) /\ overflow' = [overflow EXCEPT ![s] = Tail(overflow[s])]
      BY <1>5 DEF RetryOverflow
    <2>2. /\ overflow \in [Shards -> Seq(Envelope)] /\ overflow[s] \in Seq(Envelope)
          /\ overflow[s] # <<>> /\ s = Away
      BY <1>0, <1>1, <1>5, Places DEF OverflowKept
    <2>3. /\ e \in Envelope /\ e \in ToSet(overflow[s]) /\ Tail(overflow[s]) \in Seq(Envelope)
          /\ ToSet(overflow[s]) = ToSet(Tail(overflow[s])) \cup {e}
      BY <2>2, TailFacts
    <2>4. e.to # s /\ Lane(e) = "terminal"
      BY <1>1, <2>3 DEF OverflowKept
    <2> HIDE DEF e
    <2>5. /\ QueuesKept' /\ e \in Reply /\ Requests' = Requests
          /\ Replies' = IF Lossless(s, e) = "Ok" THEN Append(Replies, e) ELSE Replies
      BY <1>1, <2>1, <2>2, <2>3, <2>4, Enqueued, Posted
    <2>6. /\ overflow' \in [Shards -> Seq(Envelope)] /\ overflow'[s] = Tail(overflow[s])
          /\ \A r \in Shards : r # s => overflow'[r] = overflow[r]
      BY <2>1, <2>2, <2>3
    <2>7. \A r \in Shards : ToSet(overflow'[r]) \subseteq ToSet(overflow[r])
      BY <2>3, <2>6
    <2>8. OverflowKept'
      BY <1>1, <2>6, <2>7 DEF OverflowKept, Lane
    <2>9. LanesKept'
      BY <1>3, <2>5, <2>8, LanesSplitNext
    <2>10. Replies \in Seq(Envelope)
      BY Places DEF Replies
    <2>11. ToSet(Replies') = ToSet(Replies) \cup (IF Lossless(s, e) = "Ok" THEN {e} ELSE {})
      BY <2>3, <2>5, <2>10, AppendFacts
    <2>12. /\ Replying = ToSet(hand[Away]) \cup ToSet(overflow[Away]) \cup ToSet(Replies)
           /\ Replying' = ToSet(hand'[Away]) \cup ToSet(overflow'[Away]) \cup ToSet(Replies')
      BY DEF Replying, Replies
    <2>13. state[Home] = "running" => Lossless(s, e) = "Ok"
      <3>1. e.to = Home /\ Lossless(s, e) # "Full"
        BY <1>5, <2>3, <2>5, Kinds DEF e
      <3>2. QED
        BY <3>1 DEF Lossless
    <2>14. Replying' \subseteq Replying /\ (state[Home] = "running" => Replying' = Replying)
      BY <1>2, <2>2, <2>3, <2>6, <2>11, <2>12, <2>13
    <2>15. QED
      BY <1>3, <2>5, <2>9, <2>14
  <1>6. QED
    BY <1>4, <1>5

\* The receiver a drain is at belongs to one of the shards.
LEMMA SourceKnown ==
    ASSUME CallAssumption, LoopKept, NEW s \in Shards, NEW lane \in Lanes,
           at[s].offset < Receivers(s)
    PROVE  Source(s, lane) \in Shards
  <1>1. PeerSeq[s] \in Seq(Shards)
    BY TwoShards
  <1>2. Receivers(s) \in Nat /\ at[s].offset \in Nat /\ start[s][lane] \in Nat
    BY <1>1 DEF LoopKept, Receivers
  <1>3. Receiver(s, lane) \in 0 .. Receivers(s) - 1
    BY <1>2 DEF Receiver
  <1>4. Receiver(s, lane) + 1 \in 1 .. Len(PeerSeq[s])
    BY <1>2, <1>3 DEF Receivers
  <1>5. QED
    BY <1>1, <1>4 DEF Source

\* A worker receives one envelope: at home a reply, away a request.
LEMMA Receives ==
    ASSUME CallAssumption, LanesKept, LoopKept, NEW s \in Shards, Receive(s)
    PROVE  /\ QueuesKept' /\ OverflowKept' /\ overflow' = overflow /\ hand[s] = <<>>
           /\ s = Home => /\ Replies # <<>> /\ Incoming(Home) = Head(Replies)
                          /\ Replies' = Tail(Replies) /\ Requests' = Requests
           /\ s = Away => /\ Requests # <<>> /\ Incoming(Away) = Head(Requests)
                          /\ Requests' = Tail(Requests) /\ Replies' = Replies
  <1> DEFINE lane == LaneOf(s, pc[s])
             from == Source(s, lane)
  <1>0. Home \in Shards /\ Away \in Shards /\ Home # Away /\ Shards = {Home, Away}
        /\ "terminal" \in Lanes /\ "ordinary" \in Lanes
    BY TwoShards DEF Lanes
  <1>1. QueuesKept /\ OverflowKept /\ HandsKept
    BY LanesSplit
  <1>2. lane \in Lanes
    BY DEF LaneOf, Lanes
  <1>3. from \in Shards
    BY <1>2, SourceKnown DEF Receive
  <1>4. /\ queue[lane][from][s] # <<>> /\ Replaced(lane, from, s, Tail(queue[lane][from][s]))
        /\ overflow' = overflow /\ hand[s] = <<>> /\ Incoming(s) = Head(queue[lane][from][s])
    BY DEF Receive, Draining, Idle, Incoming, Replaced
  <1> HIDE DEF lane, from
  <1>5. QueuesKept' /\ \A l \in Lanes, a \in Shards, b \in Shards :
           queue'[l][a][b] = IF l = lane /\ a = from /\ b = s
                             THEN Tail(queue[l][a][b]) ELSE queue[l][a][b]
    BY <1>1, <1>2, <1>3, <1>4, QueueTakes
  <1>6. OverflowKept'
    BY <1>1, <1>4 DEF OverflowKept, Lane
  <1>7. queue[lane][from][s] \in Seq(Envelope)
    BY <1>1, <1>2, <1>3 DEF QueuesKept, Channels
  <1>8. /\ Incoming(s) \in Envelope /\ from # s
        /\ Incoming(s).to = s /\ Lane(Incoming(s)) = lane
    BY <1>1, <1>2, <1>3, <1>4, <1>7, TailFacts, Placed
  <1>9. /\ s = Home => lane = "terminal" /\ from = Away
        /\ s = Away => lane = "ordinary" /\ from = Home
    BY <1>0, <1>3, <1>8, Kinds DEF Envelope
  <1>10. /\ Requests' = queue'["ordinary"][Home][Away] /\ Replies' = queue'["terminal"][Away][Home]
         /\ Requests = queue["ordinary"][Home][Away] /\ Replies = queue["terminal"][Away][Home]
    BY DEF Requests, Replies
  <1>11. QED
    BY <1>0, <1>4, <1>5, <1>6, <1>9, <1>10

\* A shard that exits takes along what was addressed to it.
LEMMA Exits ==
    ASSUME CallAssumption, LanesKept, NEW s \in Shards, Exit(s)
    PROVE  /\ LanesKept' /\ Sending' = Sending /\ (Requests' = Requests \/ Requests' = <<>>)
           /\ Replying' \subseteq Replying
  <1>0. Home \in Shards /\ Away \in Shards /\ Home # Away /\ Shards = {Home, Away}
        /\ "terminal" \in Lanes /\ "ordinary" \in Lanes
    BY TwoShards DEF Lanes
  <1>1. QueuesKept /\ OverflowKept /\ HandsKept
    BY LanesSplit
  <1>2. /\ hand' = hand /\ overflow' = [overflow EXCEPT ![s] = <<>>]
        /\ queue' = [lane \in Lanes |-> [p \in Shards |-> [queue[lane][p] EXCEPT ![s] = <<>>]]]
    BY DEF Exit
  <1>3. <<>> \in Seq(Envelope) /\ ToSet(<<>>) = {}
    BY DEF ToSet
  <1>4. HandsKept' /\ Sending' = Sending
    BY <1>1, <1>2 DEF HandsKept, Sending
  <1>5. /\ overflow' \in [Shards -> Seq(Envelope)]
        /\ \A r \in Shards : overflow'[r] = IF r = s THEN <<>> ELSE overflow[r]
    BY <1>1, <1>2, <1>3 DEF OverflowKept
  <1>6. OverflowKept'
    BY <1>1, <1>3, <1>5 DEF OverflowKept, Lane
  <1>7. \A lane \in Lanes, p \in Shards :
           queue[lane][p] \in [Shards -> Seq(Envelope)]
    BY <1>1 DEF QueuesKept, Channels
  <1>8. \A lane \in Lanes, p \in Shards :
           /\ queue'[lane][p] \in [Shards -> Seq(Envelope)]
           /\ \A b \in Shards : queue'[lane][p][b] = IF b = s THEN <<>> ELSE queue[lane][p][b]
    <2> SUFFICES ASSUME NEW lane \in Lanes, NEW p \in Shards
                 PROVE  /\ queue'[lane][p] \in [Shards -> Seq(Envelope)]
                        /\ \A b \in Shards : queue'[lane][p][b] = IF b = s THEN <<>> ELSE queue[lane][p][b]
      OBVIOUS
    <2>1. queue'[lane][p] = [queue[lane][p] EXCEPT ![s] = <<>>]
      BY <1>2
    <2>2. queue[lane][p] \in [Shards -> Seq(Envelope)]
      BY <1>7
    <2>3. QED
      BY <1>3, <2>1, <2>2
  <1>9. queue' \in Channels
    BY <1>2, <1>8 DEF Channels
  <1>10. QueuesKept'
    <2>1. ASSUME NEW lane \in Lanes, NEW a \in Shards, NEW b \in Shards,
                 NEW e \in ToSet(queue'[lane][a][b])
          PROVE  a # b /\ e.to = b /\ Lane(e) = lane
      <3>1. queue'[lane][a][b] = IF b = s THEN <<>> ELSE queue[lane][a][b]
        BY <1>8
      <3>2. e \in ToSet(queue[lane][a][b])
        BY <1>3, <2>1, <3>1
      <3>3. QED
        BY <1>1, <3>2, Placed
    <2>2. QED
      BY <1>9, <2>1 DEF QueuesKept, Lane
  <1>11. LanesKept'
    BY <1>4, <1>6, <1>10, LanesSplitNext
  <1>12. /\ Requests' = queue'["ordinary"][Home][Away] /\ Requests = queue["ordinary"][Home][Away]
         /\ Replies' = queue'["terminal"][Away][Home] /\ Replies = queue["terminal"][Away][Home]
    BY DEF Requests, Replies
  <1>13. (Requests' = Requests \/ Requests' = <<>>) /\ (Replies' = Replies \/ Replies' = <<>>)
    BY <1>0, <1>8, <1>12
  <1>14. Replying' \subseteq Replying
    <2>1. /\ Replying = ToSet(hand[Away]) \cup ToSet(overflow[Away]) \cup ToSet(Replies)
          /\ Replying' = ToSet(hand'[Away]) \cup ToSet(overflow'[Away]) \cup ToSet(Replies')
      BY DEF Replying, Replies
    <2>2. QED
      BY <1>0, <1>2, <1>3, <1>5, <1>13, <2>1
  <1>15. QED
    BY <1>4, <1>11, <1>13, <1>14

\* The loop stays inside its receivers.
LEMMA LoopMoves ==
    ASSUME CallAssumption, LoopKept, NEW s \in Shards,
           \/ RetryOverflow(s) \/ Receive(s) \/ SkipEmpty(s) \/ EndLane(s) \/ EndStep(s)
           \/ MarkFailed(s) \/ Exit(s)
    PROVE  LoopKept'
  <1>0. Budget \in Nat /\ PeerSeq[s] \in Seq(Shards) /\ Receivers(s) \in Nat
    BY TwoShards DEF Receivers
  <1>1. \A lane : LaneOf(s, lane) \in Lanes
    BY DEF LaneOf, Lanes
  <1>2. /\ [offset |-> 0, last |-> -1] \in [offset : Nat, last : Nat \cup {-1}]
        /\ at[s] \in [offset : Nat, last : Nat \cup {-1}] /\ left[s] \in Nat
        /\ \A lane \in Lanes : start[s][lane] \in Nat
    BY DEF LoopKept
  <1>3. CASE RetryOverflow(s)
    <2>1. CASE UNCHANGED <<pc, at, left>>
      BY <1>3, <2>1 DEF RetryOverflow, LoopKept
    <2>2. CASE Enter(s, "first") /\ left' = [left EXCEPT ![s] = Budget]
      <3>1. pc' \in [Shards -> {"overflow", "first", "second", "step"}]
        BY <2>2 DEF Enter, LoopKept
      <3>2. at' \in [Shards -> [offset : Nat, last : Nat \cup {-1}]]
        BY <1>2, <2>2 DEF Enter, LoopKept
      <3>3. left' \in [Shards -> Nat]
        BY <1>0, <2>2 DEF LoopKept
      <3>4. QED
        BY <1>3, <3>1, <3>2, <3>3 DEF RetryOverflow, LoopKept
    <2>3. QED
      BY <1>3, <2>1, <2>2 DEF RetryOverflow
  <1>4. CASE Receive(s)
    <2>1. \A lane \in Lanes : Receiver(s, lane) \in Nat
      <3>1. Receivers(s) > 0
        BY <1>0, <1>2, <1>4 DEF Receive
      <3>2. QED
        BY <1>0, <1>2, <3>1 DEF Receiver
    <2>2. /\ at' = [at EXCEPT ![s].last = Receiver(s, LaneOf(s, pc[s]))]
          /\ left' = [left EXCEPT ![s] = left[s] - 1] /\ left[s] - 1 \in Nat
          /\ UNCHANGED <<pc, lead, start, state>>
      BY <1>2, <1>4 DEF Receive
    <2>3. at' \in [Shards -> [offset : Nat, last : Nat \cup {-1}]]
      BY <1>1, <2>1, <2>2 DEF LoopKept
    <2>4. QED
      BY <2>2, <2>3 DEF LoopKept
  <1>5. CASE SkipEmpty(s)
    <2>1. at' = [at EXCEPT ![s].offset = @ + 1] /\ UNCHANGED <<pc, lead, left, start, state>>
      BY <1>5 DEF SkipEmpty
    <2>2. at' \in [Shards -> [offset : Nat, last : Nat \cup {-1}]]
      BY <1>2, <2>1 DEF LoopKept
    <2>3. QED
      BY <2>1, <2>2 DEF LoopKept
  <1>6. CASE EndLane(s)
    <2> DEFINE lane == LaneOf(s, pc[s])
    <2>1. lane \in Lanes
      BY <1>1
    <2> HIDE DEF lane
    <2>2. NextStart(s, lane) \in Nat
      <3>1. CASE Receivers(s) = 0
        BY <1>2, <2>1, <3>1 DEF NextStart
      <3>2. CASE Receivers(s) > 0
        <4>1. Receiver(s, lane) \in Nat /\ at[s].last \in Nat \cup {-1} /\ start[s][lane] \in Nat
          <5>1. start[s][lane] \in Nat /\ at[s].offset \in Nat /\ at[s].last \in Nat \cup {-1}
            BY <1>2, <2>1
          <5>2. Receiver(s, lane) \in Nat
            BY <1>0, <3>2, <5>1 DEF Receiver
          <5>3. QED
            BY <5>1, <5>2
        <4>2. /\ (Receiver(s, lane) + 1) % Receivers(s) \in Nat
              /\ at[s].last >= 0 => (at[s].last + 1) % Receivers(s) \in Nat
              /\ (start[s][lane] + 1) % Receivers(s) \in Nat
          BY <1>0, <3>2, <4>1
        <4>3. QED
          BY <4>1, <4>2 DEF NextStart
      <3>3. QED
        BY <1>0, <3>1, <3>2
    <2>3. start' = [start EXCEPT ![s][lane] = NextStart(s, lane)] /\ UNCHANGED <<left, state>>
      BY <1>6 DEF EndLane, lane
    <2>4. start' \in [Shards -> [Lanes -> Nat]]
      BY <2>1, <2>2, <2>3 DEF LoopKept
    <2>5. /\ pc' \in [Shards -> {"overflow", "first", "second", "step"}]
          /\ at' \in [Shards -> [offset : Nat, last : Nat \cup {-1}]]
          /\ lead' \in [Shards -> BOOLEAN]
      <3>1. PICK half \in {"second", "step"} :
               Enter(s, half) /\ (lead' = lead \/ lead' = [lead EXCEPT ![s] = ~@])
        BY <1>6 DEF EndLane
      <3>2. pc' \in [Shards -> {"overflow", "first", "second", "step"}]
        BY <3>1 DEF Enter, LoopKept
      <3>3. at' \in [Shards -> [offset : Nat, last : Nat \cup {-1}]]
        BY <1>2, <3>1 DEF Enter, LoopKept
      <3>4. lead' \in [Shards -> BOOLEAN]
        BY <3>1 DEF LoopKept
      <3>5. QED
        BY <3>2, <3>3, <3>4
    <2>6. QED
      BY <2>3, <2>4, <2>5 DEF LoopKept
  <1>7. CASE EndStep(s)
    BY <1>7 DEF EndStep, LoopKept
  <1>8. CASE MarkFailed(s)
    BY <1>8 DEF MarkFailed, LoopKept, looping
  <1>9. CASE Exit(s)
    BY <1>9 DEF Exit, LoopKept, looping
  <1>10. QED
    BY <1>3, <1>4, <1>5, <1>6, <1>7, <1>8, <1>9

-----------------------------------------------------------------------------
(* Steps, without the lanes.                                               *)

\* What the requester was told is true.
Told == \A c \in Calls : heard[c] = <<"Replied">> => c \in answered

\* The inductive part of CallsSettleOnce that is not about the lanes.
Core == TypeOK /\ OneStage /\ CallsTraced /\ HeardOnce /\ Told

\* A channel operation: envelopes move or, when a shard is not running, vanish.
TransportStep ==
    /\ UNCHANGED <<home, away, ghosts>>
    /\ Sending' = Sending
    /\ (Requests' = Requests \/ (Requests' = <<>> /\ ~AllRunning'))
    /\ Replying' \subseteq Replying
    /\ AllRunning' => AllRunning /\ Replying' = Replying

\* It keeps everything.
LEMMA TransportKeeps ==
    ASSUME Core, TransportStep
    PROVE  Core'
  <1>1. /\ requester' = requester /\ asked' = asked /\ waiting' = waiting /\ heard' = heard
        /\ target' = target /\ mailbox' = mailbox /\ slots' = slots
        /\ given' = given /\ answered' = answered /\ lapsed' = lapsed
    BY DEF TransportStep, home, away, ghosts
  <1>2. TypeOK' /\ HeardOnce' /\ Told'
    BY <1>1 DEF Core, TypeOK, HeardOnce, Told
  <1>3. Sent' \subseteq Sent /\ (AllRunning' => Sent' = Sent) /\ Delivered' = Delivered
    BY <1>1 DEF TransportStep, Sent, Delivered, CallsIn, ToSet
  <1>4. Distinct(Requests)'
    BY DEF Core, OneStage, TransportStep, Distinct
  <1>5. OneStage'
    BY <1>1, <1>3, <1>4 DEF Core, OneStage, TransportStep, Distinct
  <1>6. CallsTraced'
    BY <1>1, <1>3 DEF Core, CallsTraced, TransportStep
  <1>7. QED
    BY <1>2, <1>5, <1>6 DEF Core

\* The requester's shard lets calls go, telling the requester of at most one.
HomeStep ==
    /\ UNCHANGED <<asked, away, ghosts>>
    /\ Sending' = Sending /\ Requests' = Requests
    /\ Replying' \subseteq Replying /\ AllRunning' = AllRunning
    /\ requester' \in BOOLEAN /\ waiting' \subseteq waiting
    /\ \A e \in Replying \ Replying' : e.call \notin waiting'
    /\ heard' \in [Calls -> Seq(Outcomes)]
    /\ \A c \in Calls :
          \/ heard'[c] = heard[c]
          \/ /\ c \in waiting \ waiting'
             /\ \E o \in Outcomes :
                   /\ heard'[c] = <<o>>
                   /\ o = "Replied" => c \in answered
                   /\ o \in {"Full", "Closed"} =>
                         c \notin Sending \cup Sent \cup Delivered \cup given

\* It keeps everything.
LEMMA HomeKeeps ==
    ASSUME Core, HomeStep
    PROVE  Core'
  <1>1. /\ asked' = asked /\ target' = target /\ mailbox' = mailbox /\ slots' = slots
        /\ given' = given /\ answered' = answered /\ lapsed' = lapsed
    BY DEF HomeStep, away, ghosts
  <1>2. Sent' = Sent /\ Delivered' = Delivered
    BY <1>1 DEF HomeStep, Sent, Delivered
  <1>3. TypeOK'
    BY <1>1 DEF Core, TypeOK, HomeStep
  <1>4. OneStage'
    BY <1>1, <1>2 DEF Core, OneStage, HomeStep
  <1>5. \A c \in Calls : heard[c] \in Seq(Outcomes)
    BY DEF Core, TypeOK
  <1>6. HeardOnce'
    <2> SUFFICES ASSUME NEW c \in Calls
                 PROVE  Len(heard'[c]) <= 1 /\ (c \in waiting' => heard'[c] = <<>>)
      BY DEF HeardOnce
    <2>1. Len(heard[c]) <= 1 /\ (c \in waiting => heard[c] = <<>>)
      BY DEF Core, HeardOnce
    <2>2. CASE heard'[c] = heard[c]
      BY <2>1, <2>2 DEF HomeStep
    <2>3. CASE c \in waiting \ waiting' /\ \E o \in Outcomes : heard'[c] = <<o>>
      BY <2>3
    <2>4. QED
      BY <2>2, <2>3 DEF HomeStep
  <1>7. Told'
    BY <1>1 DEF Core, Told, HomeStep
  <1>8. CallsTraced'
    <2>1. ASSUME NEW c \in Calls, c > asked \/ c \in Sending
          PROVE  c \notin waiting' /\ heard'[c] = <<>>
      <3>1. c \notin waiting /\ heard[c] = <<>>
        BY <2>1 DEF Core, CallsTraced
      <3>2. QED
        BY <3>1 DEF HomeStep
    <2>2. ASSUME NEW c \in Calls, heard'[c] \in {<<"Full">>, <<"Closed">>}
          PROVE  c \notin Sending \cup Sent \cup Delivered \cup given
      <3>1. CASE heard'[c] = heard[c]
        BY <2>2, <3>1 DEF Core, CallsTraced
      <3>2. CASE heard'[c] # heard[c]
        <4>1. PICK o \in Outcomes : heard'[c] = <<o>> /\ (o \in {"Full", "Closed"} =>
                         c \notin Sending \cup Sent \cup Delivered \cup given)
          BY <3>2 DEF HomeStep
        <4>2. o \in {"Full", "Closed"}
          BY <2>2, <4>1
        <4>3. QED
          BY <4>1, <4>2
      <3>3. QED
        BY <3>1, <3>2
    <2>3. ASSUME NEW e \in Replying'
          PROVE  /\ e.call \in answered
                 /\ e.outcome \in {"Full", "Closed"} =>
                       e.call \notin Sending \cup Sent \cup Delivered \cup given
      BY <2>3 DEF Core, CallsTraced, HomeStep
    <2>4. AllRunning' => waiting' \subseteq Sent \cup Delivered \cup slots \cup lapsed
                                               \cup {e.call : e \in Replying'}
      <3>1. AllRunning => waiting \subseteq Sent \cup Delivered \cup slots \cup lapsed
                                               \cup {e.call : e \in Replying}
        BY DEF Core, CallsTraced
      <3>2. QED
        BY <3>1 DEF HomeStep
    <2>5. Sending' = Sending
      BY DEF HomeStep
    <2>6. QED
      BY <1>1, <1>2, <2>1, <2>2, <2>3, <2>4, <2>5 DEF CallsTraced
  <1>9. QED
    BY <1>3, <1>4, <1>6, <1>7, <1>8 DEF Core

\* A turn of the target, or its end: it takes messages from its mailbox and
\* answers, keeps or lets go each call that it no longer has.
TurnStep(A) ==
    /\ UNCHANGED home
    /\ Sending' = Sending /\ Requests' = Requests
    /\ Replying' = Replying \cup A /\ AllRunning' = AllRunning
    /\ target' \in BOOLEAN
    /\ mailbox' \in Seq(Calls) /\ Len(mailbox') <= MailCap /\ IsInjective(mailbox')
    /\ Delivered' \subseteq Delivered
    /\ given \subseteq given' /\ given' \subseteq given \cup (Delivered \ Delivered')
    /\ answered \subseteq answered' /\ answered' \subseteq 1 .. asked /\ lapsed \subseteq lapsed'
    /\ \A e \in A : e.call \in answered' /\ e.outcome \notin {"Full", "Closed"}
    /\ Delivered \cup slots \subseteq Delivered' \cup slots' \cup lapsed' \cup {e.call : e \in A}
    /\ slots' \subseteq given' /\ (~target' => mailbox' = <<>> /\ slots' = {})

\* It keeps everything.
LEMMA TurnKeeps ==
    ASSUME Core, NEW A, TurnStep(A)
    PROVE  Core'
  <1>1. requester' = requester /\ asked' = asked /\ waiting' = waiting /\ heard' = heard
    BY DEF TurnStep, home
  <1>2. Sent' = Sent
    BY DEF TurnStep, Sent
  <1>3. TypeOK'
    BY <1>1 DEF Core, TypeOK, TurnStep
  <1>4. HeardOnce' /\ Told'
    BY <1>1 DEF Core, HeardOnce, Told, TurnStep
  <1>5. Delivered' \cup given' \subseteq Delivered \cup given /\ Delivered' \cap given' = {}
    BY DEF Core, OneStage, TurnStep
  <1>6. OneStage'
    BY <1>1, <1>2, <1>5 DEF Core, OneStage, TurnStep
  <1>7. CallsTraced'
    <2>1. \A c \in Calls : c > asked \/ c \in Sending => c \notin waiting /\ heard[c] = <<>>
      BY DEF Core, CallsTraced
    <2>2. \A c \in Calls : heard[c] \in {<<"Full">>, <<"Closed">>} =>
                              c \notin Sending \cup Sent \cup Delivered' \cup given'
      BY <1>5 DEF Core, CallsTraced
    <2>3. ASSUME NEW e \in Replying \cup A
          PROVE  /\ e.call \in answered'
                 /\ e.outcome \in {"Full", "Closed"} =>
                       e.call \notin Sending \cup Sent \cup Delivered' \cup given'
      <3>1. CASE e \in Replying
        BY <1>5, <3>1 DEF Core, CallsTraced, TurnStep
      <3>2. CASE e \in A
        BY <3>2 DEF TurnStep
      <3>3. QED
        BY <2>3, <3>1, <3>2
    <2>4. AllRunning => waiting \subseteq Sent \cup Delivered' \cup slots' \cup lapsed'
                                             \cup {e.call : e \in Replying \cup A}
      <3>1. AllRunning => waiting \subseteq Sent \cup Delivered \cup slots \cup lapsed
                                               \cup {e.call : e \in Replying}
        BY DEF Core, CallsTraced
      <3>2. QED
        BY <3>1 DEF TurnStep
    <2>5. Sending' = Sending /\ Replying' = Replying \cup A /\ AllRunning' = AllRunning
      BY DEF TurnStep
    <2>6. QED
      BY <1>1, <1>2, <2>1, <2>2, <2>3, <2>4, <2>5 DEF CallsTraced
  <1>8. QED
    BY <1>3, <1>4, <1>6, <1>7 DEF Core

-----------------------------------------------------------------------------
(* The three steps on the way to a handler.                                *)

\* An envelope that was not touched keeps its place.
LEMMA QueuesSame ==
    ASSUME QueuesKept, queue' = queue
    PROVE  QueuesKept' /\ Requests' = Requests /\ Replies' = Replies
  BY DEF QueuesKept, Lane, Requests, Replies

\* The same for the overflow lanes.
LEMMA OverflowSame ==
    ASSUME OverflowKept, overflow' = overflow
    PROVE  OverflowKept'
  BY DEF OverflowKept, Lane

\* The requester calls: its worker holds a request for a new call.
LEMMA CallKeeps ==
    ASSUME CallAssumption, LanesKept, LoopKept, Core, Call
    PROVE  LanesKept' /\ LoopKept' /\ Core'
  <1> DEFINE e == [kind |-> "Send", to |-> Away, call |-> asked + 1]
  <1>0. Home \in Shards /\ Away \in Shards /\ Home # Away /\ Shards = {Home, Away} /\ MaxCalls \in Nat
    BY TwoShards
  <1>1. QueuesKept /\ OverflowKept /\ HandsKept
    BY LanesSplit
  <1>2. /\ hand[Home] = <<>> /\ asked < MaxCalls /\ asked' = asked + 1
        /\ hand' = [hand EXCEPT ![Home] = <<e>>]
        /\ UNCHANGED <<queue, overflow, pc, lead, left, at, start, state>>
        /\ UNCHANGED <<requester, waiting, heard, target, mailbox, slots, given, answered, lapsed>>
    BY DEF Call, HandlesOn, Idle, looping, away, ghosts
  <1>3. asked \in 0 .. MaxCalls /\ asked + 1 \in Calls /\ asked + 1 \in 1 .. asked + 1
    BY <1>0, <1>2 DEF Core, TypeOK, Calls
  <1>4. e \in Request /\ e \in Envelope /\ e.to # Home /\ e.call = asked + 1
    BY <1>0, <1>3 DEF Request, Envelope
  <1> HIDE DEF e
  <1>5. <<e>> \in Seq(Envelope) /\ Len(<<e>>) = 1 /\ ToSet(<<e>>) = {e}
    BY <1>4, OneMember
  <1>6. HandsKept' /\ hand'[Home] = <<e>> /\ hand'[Away] = hand[Away]
    BY <1>0, <1>1, <1>2, <1>4, HandFilled
  <1>7. QueuesKept' /\ OverflowKept' /\ Requests' = Requests /\ Replies' = Replies
    BY <1>1, <1>2, QueuesSame, OverflowSame
  <1>8. LanesKept'
    BY <1>6, <1>7, LanesSplitNext
  <1>9. LoopKept'
    BY <1>2 DEF LoopKept
  <1>10. Sending = {} /\ Sending' = {asked + 1}
    BY <1>2, <1>4, <1>5, <1>6 DEF Sending, CallsIn, ToSet
  <1>11. Sent' = Sent /\ Delivered' = Delivered /\ Replying' = Replying /\ AllRunning' = AllRunning
    BY <1>2, <1>6, <1>7 DEF Sent, Delivered, Replying, Replies, AllRunning
  <1>12. TypeOK' /\ HeardOnce' /\ Told'
    <2>1. 1 .. asked \subseteq 1 .. asked + 1 /\ asked + 1 \in 0 .. MaxCalls
      BY <1>0, <1>2, <1>3
    <2>2. QED
      BY <1>2, <2>1 DEF Core, TypeOK, HeardOnce, Told
  <1>13. asked + 1 \notin 1 .. asked /\ 1 .. asked \subseteq 1 .. asked + 1
    BY <1>3
  <1>14. OneStage'
    BY <1>2, <1>3, <1>7, <1>10, <1>11, <1>13 DEF Core, OneStage
  <1>15. CallsTraced'
    <2>1. asked + 1 \notin waiting /\ heard[asked + 1] = <<>>
      BY <1>3 DEF Core, CallsTraced
    <2>2. asked + 1 \notin Sent \cup Delivered \cup given
      BY <1>13 DEF Core, OneStage
    <2>3. \A c \in Calls : c > asked + 1 => c > asked
      BY <1>3 DEF Calls
    <2>4. ASSUME NEW c \in Calls, c > asked + 1 \/ c = asked + 1
          PROVE  c \notin waiting /\ heard[c] = <<>>
      BY <2>1, <2>3, <2>4 DEF Core, CallsTraced
    <2>5. ASSUME NEW c \in Calls, heard[c] \in {<<"Full">>, <<"Closed">>}
          PROVE  c \notin {asked + 1} \cup Sent \cup Delivered \cup given
      BY <2>1, <2>5 DEF Core, CallsTraced
    <2>6. ASSUME NEW x \in Replying
          PROVE  /\ x.call \in answered
                 /\ x.outcome \in {"Full", "Closed"} =>
                       x.call \notin {asked + 1} \cup Sent \cup Delivered \cup given
      <3>1. x.call \in answered /\ answered \subseteq 1 .. asked
        BY <2>6 DEF Core, CallsTraced, TypeOK
      <3>2. QED
        BY <1>13, <2>6, <3>1 DEF Core, CallsTraced
    <2>7. AllRunning => waiting \subseteq Sent \cup Delivered \cup slots \cup lapsed
                                             \cup {x.call : x \in Replying}
      BY DEF Core, CallsTraced
    <2>8. QED
      BY <1>2, <1>10, <1>11, <2>4, <2>5, <2>6, <2>7 DEF CallsTraced
  <1>16. QED
    BY <1>8, <1>9, <1>12, <1>14, <1>15 DEF Core

\* The request is routed: the call is in the table exactly if the channel took
\* it, and the requester is told otherwise.
LEMMA RouteHomeKeeps ==
    ASSUME CallAssumption, LanesKept, LoopKept, Core, RouteOne(Home)
    PROVE  LanesKept' /\ LoopKept' /\ Core'
  <1> DEFINE e == Head(hand[Home])
             c == e.call
             o == Routed(Home, e)
  <1>0. Home \in Shards /\ Away \in Shards /\ Home # Away
    BY TwoShards
  <1>1. Route(Home) /\ UNCHANGED <<requester, asked, away, ghosts, looping, state>>
    BY DEF RouteOne, Route
  <1>2. /\ LanesKept' /\ e \in Envelope /\ e \in Request /\ Sending = {c} /\ Sending' = {}
        /\ Requests' = IF o = "Ok" THEN Append(Requests, e) ELSE Requests
        /\ Replying' = Replying
    BY <1>0, <1>1, Routes
  <1>3. e.kind = "Send" /\ c \in Calls
    BY <1>2, Kinds
  <1>4. /\ o = "Ok" => waiting' = waiting \cup {c} /\ heard' = heard
        /\ o # "Ok" => waiting' = waiting /\ Tell(c, o)
    BY <1>3 DEF RouteOne
  <1>5. o \in {"Ok", "Full", "Closed"}
    BY DEF Routed, Lossless
  <1> HIDE DEF e, c, o
  <1>6. /\ requester' = requester /\ asked' = asked /\ target' = target /\ mailbox' = mailbox
        /\ slots' = slots /\ given' = given /\ answered' = answered /\ lapsed' = lapsed
    BY <1>1 DEF away, ghosts
  <1>7. LoopKept' /\ AllRunning' = AllRunning /\ Delivered' = Delivered
    BY <1>1, <1>6 DEF LoopKept, looping, AllRunning, Delivered
  <1>8. /\ c \in 1 .. asked /\ c \notin Sent \cup Delivered \cup given
        /\ c \notin waiting /\ heard[c] = <<>>
    BY <1>2, <1>3 DEF Core, OneStage, CallsTraced
  <1>9. Requests \in Seq(Envelope)
    BY Places
  <1>10. CASE o = "Ok"
    <2>1. Distinct(Requests') /\ Sent' = Sent \cup {c}
      <3>1. Distinct(Requests) /\ e.call \notin CallsIn(Requests) /\ e.call = c
        BY <1>8 DEF Core, OneStage, Distinct, Sent, c
      <3>2. Distinct(Append(Requests, e)) /\ ToSet(Append(Requests, e)) = ToSet(Requests) \cup {e}
        BY <1>2, <1>9, <3>1, DistinctAppend, AppendFacts
      <3>3. Sent' = CallsIn(Requests') /\ Sent = CallsIn(Requests)
        BY DEF Sent, CallsIn
      <3>4. QED
        BY <1>2, <1>10, <3>1, <3>2, <3>3 DEF CallsIn
    <2>2. TypeOK' /\ HeardOnce' /\ Told'
      BY <1>4, <1>6, <1>8, <1>10 DEF Core, TypeOK, HeardOnce, Told
    <2>3. OneStage'
      BY <1>2, <1>6, <1>7, <1>8, <2>1 DEF Core, OneStage, Distinct
    <2>4. CallsTraced'
      <3>1. ~(c > asked)
        BY <1>8 DEF Core, TypeOK
      <3>2. ASSUME NEW x \in Calls, x > asked PROVE x \notin waiting' /\ heard'[x] = <<>>
        BY <1>4, <1>10, <3>1, <3>2 DEF Core, CallsTraced
      <3>3. ASSUME NEW x \in Calls, heard'[x] \in {<<"Full">>, <<"Closed">>}
            PROVE  x \notin Sent' \cup Delivered \cup given
        BY <1>2, <1>4, <1>10, <2>1, <3>3 DEF Core, CallsTraced
      <3>4. ASSUME NEW x \in Replying
            PROVE  /\ x.call \in answered
                   /\ x.outcome \in {"Full", "Closed"} => x.call \notin Sent' \cup Delivered \cup given
        BY <1>2, <2>1, <3>4 DEF Core, CallsTraced
      <3>5. AllRunning => waiting' \subseteq Sent' \cup Delivered \cup slots \cup lapsed
                                                \cup {x.call : x \in Replying}
        BY <1>4, <1>10, <2>1 DEF Core, CallsTraced
      <3>6. QED
        BY <1>2, <1>6, <1>7, <3>2, <3>3, <3>4, <3>5 DEF CallsTraced
    <2>5. QED
      BY <1>2, <1>7, <2>2, <2>3, <2>4 DEF Core
  <1>11. CASE o # "Ok"
    <2>1. Requests' = Requests /\ waiting' = waiting /\ o \in {"Full", "Closed"} /\ o \in Outcomes
      BY <1>2, <1>4, <1>5, <1>11 DEF Outcomes
    <2>2. Sent' = Sent
      BY <2>1 DEF Sent
    <2>3. heard \in [Calls -> Seq(Outcomes)] /\ Append(heard[c], o) = <<o>> /\ <<o>> \in Seq(Outcomes)
      BY <1>8, <2>1 DEF Core, TypeOK
    <2>4. /\ heard' \in [Calls -> Seq(Outcomes)] /\ heard'[c] \in {<<>>, <<o>>}
          /\ \A x \in Calls : x # c => heard'[x] = heard[x]
      BY <1>3, <1>4, <1>8, <1>11, <2>3 DEF Tell
    <2>5. TypeOK'
      BY <1>6, <2>1, <2>4 DEF Core, TypeOK
    <2>6. HeardOnce'
      <3>1. Len(<<o>>) = 1 /\ Len(<<>>) = 0
        OBVIOUS
      <3>2. ASSUME NEW x \in Calls
            PROVE  Len(heard'[x]) <= 1 /\ (x \in waiting => heard'[x] = <<>>)
        <4>1. CASE x = c
          BY <1>8, <2>4, <3>1, <4>1
        <4>2. CASE x # c
          <5>1. heard'[x] = heard[x]
            BY <2>4, <4>2
          <5>2. QED
            BY <5>1 DEF Core, HeardOnce
        <4>3. QED
          BY <4>1, <4>2
      <3>3. QED
        BY <2>1, <3>2 DEF HeardOnce
    <2>7. Told'
      <3>1. <<o>> # <<"Replied">> /\ <<>> # <<"Replied">>
        BY <2>1
      <3>2. QED
        BY <1>6, <2>4, <3>1 DEF Core, Told
    <2>8. OneStage'
      BY <1>2, <1>6, <1>7, <2>1, <2>2 DEF Core, OneStage
    <2>9. CallsTraced'
      <3>1. ~(c > asked)
        BY <1>8 DEF Core, TypeOK
      <3>2. ASSUME NEW x \in Calls, x > asked PROVE x \notin waiting' /\ heard'[x] = <<>>
        BY <2>1, <2>4, <3>1, <3>2 DEF Core, CallsTraced
      <3>3. ASSUME NEW x \in Calls, heard'[x] \in {<<"Full">>, <<"Closed">>}
            PROVE  x \notin Sent \cup Delivered \cup given
        BY <1>8, <2>4, <3>3 DEF Core, CallsTraced
      <3>4. ASSUME NEW x \in Replying
            PROVE  /\ x.call \in answered
                   /\ x.outcome \in {"Full", "Closed"} => x.call \notin Sent \cup Delivered \cup given
        BY <3>4 DEF Core, CallsTraced
      <3>5. AllRunning => waiting \subseteq Sent \cup Delivered \cup slots \cup lapsed
                                                \cup {x.call : x \in Replying}
        BY DEF Core, CallsTraced
      <3>6. QED
        BY <1>2, <1>6, <1>7, <2>1, <2>2, <3>2, <3>3, <3>4, <3>5 DEF CallsTraced
    <2>10. QED
      BY <1>2, <1>7, <2>5, <2>6, <2>7, <2>8, <2>9 DEF Core
  <1>12. QED
    BY <1>10, <1>11

\* The target's shard answers: its worker holds one reply more.
LEMMA Answers ==
    ASSUME CallAssumption, LanesKept, QueuesKept', overflow' = overflow, Replies' = Replies,
           hand[Away] = <<>>, NEW c \in Calls, NEW o \in Outcomes, Answer(c, o)
    PROVE  LET e == [kind |-> "CallReply", to |-> Home, call |-> c, outcome |-> o] IN
           /\ LanesKept' /\ Sending' = Sending /\ Replying' = Replying \cup {e}
           /\ e \in Reply /\ e.call = c /\ e.outcome = o /\ answered' = answered \cup {c}
  <1> DEFINE e == [kind |-> "CallReply", to |-> Home, call |-> c, outcome |-> o]
  <1>0. Home \in Shards /\ Away \in Shards /\ Home # Away
    BY TwoShards
  <1>1. QueuesKept /\ OverflowKept /\ HandsKept
    BY LanesSplit
  <1>2. /\ e \in Reply /\ e \in Envelope /\ e.to # Away /\ e.call = c /\ e.outcome = o
    BY <1>0 DEF Reply, Envelope
  <1>3. hand' = [hand EXCEPT ![Away] = <<e>>] /\ answered' = answered \cup {c}
    BY DEF Answer
  <1> HIDE DEF e
  <1>4. HandsKept' /\ hand'[Away] = <<e>> /\ hand'[Home] = hand[Home]
    BY <1>0, <1>1, <1>2, <1>3, HandFilled
  <1>5. LanesKept'
    BY <1>1, <1>4, OverflowSame, LanesSplitNext
  <1>6. Sending' = Sending
    BY <1>4 DEF Sending
  <1>7. ToSet(hand[Away]) = {} /\ ToSet(hand'[Away]) = {e}
    BY <1>2, <1>4, OneMember DEF ToSet
  <1>8. /\ Replying = ToSet(hand[Away]) \cup ToSet(overflow[Away]) \cup ToSet(Replies)
        /\ Replying' = ToSet(hand'[Away]) \cup ToSet(overflow'[Away]) \cup ToSet(Replies')
    BY DEF Replying, Replies
  <1>9. Replying' = Replying \cup {e}
    BY <1>7, <1>8
  <1>10. QED
    BY <1>2, <1>3, <1>5, <1>6, <1>9 DEF e

\* The target's shard receives a call: into the mailbox, or back as a refusal.
LEMMA HarvestSendKeeps ==
    ASSUME CallAssumption, LanesKept, LoopKept, Core, HarvestSend
    PROVE  LanesKept' /\ LoopKept' /\ Core'
  <1> DEFINE c == Incoming(Away).call
  <1>0. Home \in Shards /\ Away \in Shards /\ Home # Away /\ MailCap \in Nat
    BY TwoShards
  <1>1. QueuesKept /\ OverflowKept /\ HandsKept
    BY LanesSplit
  <1>2. Receive(Away) /\ UNCHANGED <<home, target, slots, given, lapsed>>
    BY DEF HarvestSend
  <1>3. /\ QueuesKept' /\ OverflowKept' /\ overflow' = overflow /\ hand[Away] = <<>>
        /\ Requests # <<>> /\ c = Head(Requests).call
        /\ Requests' = Tail(Requests) /\ Replies' = Replies
    BY <1>0, <1>2, Receives
  <1>4. LoopKept' /\ AllRunning' = AllRunning
    BY <1>0, <1>2, LoopMoves DEF AllRunning, Receive
  <1>5. Requests \in Seq(Envelope)
    BY Places
  <1>6. Distinct(Requests') /\ c \in Sent /\ Sent' = Sent \ {c}
    <2>1. Distinct(Requests)
      BY DEF Core, OneStage, Distinct
    <2>2. /\ Distinct(Tail(Requests)) /\ c \in CallsIn(Requests)
          /\ CallsIn(Tail(Requests)) = CallsIn(Requests) \ {c}
      BY <1>3, <1>5, <2>1, DistinctTail
    <2>3. Sent = CallsIn(Requests) /\ Sent' = CallsIn(Requests')
      BY DEF Sent, CallsIn
    <2>4. QED
      BY <1>3, <2>2, <2>3
  <1>7. /\ requester' = requester /\ asked' = asked /\ waiting' = waiting /\ heard' = heard
        /\ target' = target /\ slots' = slots /\ given' = given /\ lapsed' = lapsed
    BY <1>2 DEF home
  <1>8. c \in 1 .. asked /\ c \in Calls /\ c \notin Sending \cup Delivered \cup given
    <2>1. asked \in 0 .. MaxCalls /\ MaxCalls \in Nat
      BY TwoShards DEF Core, TypeOK
    <2>2. QED
      BY <1>6, <2>1 DEF Core, OneStage, Calls
  <1>9. /\ target /\ Len(mailbox) < MailCap =>
              mailbox' = Append(mailbox, c) /\ hand' = hand /\ answered' = answered
        /\ ~(target /\ Len(mailbox) < MailCap) =>
              mailbox' = mailbox /\ Answer(c, IF target THEN "Full" ELSE "Closed")
    BY DEF HarvestSend
  <1> HIDE DEF c
  <1>10. HeardOnce'
    BY <1>7 DEF Core, HeardOnce
  <1>11. CASE target /\ Len(mailbox) < MailCap
    <2>1. mailbox' = Append(mailbox, c) /\ hand' = hand /\ answered' = answered
      BY <1>9, <1>11
    <2>2. /\ mailbox \in Seq(Calls) /\ Append(mailbox, c) \in Seq(Calls)
          /\ Len(Append(mailbox, c)) = Len(mailbox) + 1 /\ Len(mailbox) \in Nat
          /\ ToSet(Append(mailbox, c)) = ToSet(mailbox) \cup {c}
      BY <1>8, AppendFacts DEF Core, TypeOK
    <2>3. Delivered' = Delivered \cup {c} /\ IsInjective(mailbox')
      <3>1. IsInjective(mailbox) /\ c \notin ToSet(mailbox)
        BY <1>8 DEF Core, OneStage, Delivered
      <3>2. IsInjective(Append(mailbox, c))
        BY <1>8, <2>2, <3>1, InjectiveAppend
      <3>3. Delivered' = ToSet(mailbox') /\ Delivered = ToSet(mailbox)
        BY DEF Delivered
      <3>4. QED
        BY <2>1, <2>2, <3>2, <3>3
    <2>4. HandsKept' /\ Sending' = Sending /\ Replying' = Replying
      BY <1>1, <1>3, <2>1 DEF HandsKept, Sending, Replying, Replies
    <2>5. LanesKept'
      BY <1>3, <2>4, LanesSplitNext
    <2>6. TypeOK' /\ Told'
      <3>1. Len(mailbox') <= MailCap /\ mailbox' \in Seq(Calls)
        BY <1>0, <1>11, <2>1, <2>2
      <3>2. QED
        BY <1>7, <1>11, <2>1, <3>1 DEF Core, TypeOK, Told
    <2>7. OneStage'
      BY <1>6, <1>7, <1>8, <2>3, <2>4 DEF Core, OneStage, Distinct
    <2>8. CallsTraced'
      BY <1>4, <1>6, <1>7, <2>1, <2>3, <2>4 DEF Core, CallsTraced
    <2>9. QED
      BY <1>4, <1>10, <2>5, <2>6, <2>7, <2>8 DEF Core
  <1>12. CASE ~(target /\ Len(mailbox) < MailCap)
    <2> DEFINE o == IF target THEN "Full" ELSE "Closed"
               e == [kind |-> "CallReply", to |-> Home, call |-> c, outcome |-> o]
    <2>1. mailbox' = mailbox /\ Answer(c, o) /\ o \in Outcomes
      BY <1>9, <1>12 DEF Outcomes
    <2> HIDE DEF o
    <2>2. /\ LanesKept' /\ Sending' = Sending /\ Replying' = Replying \cup {e}
          /\ e.call = c /\ answered' = answered \cup {c}
      BY <1>3, <1>8, <2>1, Answers
    <2> HIDE DEF e
    <2>3. Delivered' = Delivered
      BY <2>1 DEF Delivered
    <2>4. TypeOK' /\ Told'
      BY <1>7, <1>8, <2>1, <2>2 DEF Core, TypeOK, Told
    <2>5. OneStage'
      BY <1>6, <1>7, <2>1, <2>2, <2>3 DEF Core, OneStage, Distinct
    <2>6. CallsTraced'
      <3>1. \A x \in Calls : x > asked \/ x \in Sending => x \notin waiting /\ heard[x] = <<>>
        BY DEF Core, CallsTraced
      <3>2. \A x \in Calls : heard[x] \in {<<"Full">>, <<"Closed">>} =>
                                x \notin Sending \cup Sent' \cup Delivered \cup given
        BY <1>6 DEF Core, CallsTraced
      <3>3. ASSUME NEW x \in Replying \cup {e}
            PROVE  /\ x.call \in answered'
                   /\ x.outcome \in {"Full", "Closed"} =>
                         x.call \notin Sending \cup Sent' \cup Delivered \cup given
        <4>1. CASE x \in Replying
          BY <1>6, <2>2, <4>1 DEF Core, CallsTraced
        <4>2. CASE x = e
          BY <1>6, <1>8, <2>2, <4>2
        <4>3. QED
          BY <3>3, <4>1, <4>2
      <3>4. AllRunning => waiting \subseteq Sent' \cup Delivered \cup slots \cup lapsed
                                               \cup {x.call : x \in Replying \cup {e}}
        BY <1>6, <2>2 DEF Core, CallsTraced
      <3>5. QED
        BY <1>4, <1>7, <2>2, <2>3, <3>1, <3>2, <3>3, <3>4 DEF CallsTraced
    <2>7. QED
      BY <1>4, <1>10, <2>2, <2>4, <2>5, <2>6 DEF Core
  <1>13. QED
    BY <1>11, <1>12

-----------------------------------------------------------------------------
(* The transport.                                                          *)

\* A step that leaves the lanes alone.
LEMMA LanesSame ==
    ASSUME LanesKept, queue' = queue, overflow' = overflow, hand' = hand
    PROVE  LanesKept' /\ Sending' = Sending /\ Requests' = Requests /\ Replying' = Replying
  <1>1. QueuesKept /\ OverflowKept /\ HandsKept
    BY LanesSplit
  <1>2. QueuesKept' /\ OverflowKept' /\ HandsKept'
    BY <1>1, QueuesSame, OverflowSame DEF HandsKept
  <1>3. QED
    BY <1>2, LanesSplitNext DEF Sending, Requests, Replying

\* The workers' loops, what they route home, and the faults.
LEMMA TransportMoves ==
    ASSUME CallAssumption, LanesKept, LoopKept, NEW s \in Shards,
           \/ RouteOne(s) /\ s = Away
           \/ Loop(s) \/ Fault(s)
    PROVE  LanesKept' /\ LoopKept' /\ TransportStep
  <1>0. Home \in Shards /\ Away \in Shards /\ Home # Away
    BY TwoShards
  <1>1. CASE RouteOne(s) /\ s = Away
    <2>1. Route(s) /\ UNCHANGED <<looping, state>>
      BY <1>1 DEF RouteOne, Route
    <2>2. /\ LanesKept' /\ Head(hand[s]) \in Envelope /\ Head(hand[s]) \in Reply
          /\ Sending' = Sending /\ Requests' = Requests
          /\ Replying' \subseteq Replying /\ (state[Home] = "running" => Replying' = Replying)
      BY <1>1, <2>1, Routes
    <2>3. UNCHANGED <<home, away, ghosts>>
      <3>1. Head(hand[s]).kind # "Send"
        BY <2>2, Kinds
      <3>2. UNCHANGED <<waiting, heard>>
        BY <1>1, <3>1 DEF RouteOne
      <3>3. QED
        BY <1>1, <3>2 DEF RouteOne, home
    <2>4. LoopKept' /\ AllRunning' = AllRunning
      BY <2>1 DEF LoopKept, looping, AllRunning
    <2>5. QED
      BY <1>0, <2>2, <2>3, <2>4 DEF TransportStep, AllRunning
  <1>2. CASE Loop(s) /\ RetryOverflow(s)
    <2>1. /\ LanesKept' /\ Sending' = Sending /\ Requests' = Requests
          /\ Replying' \subseteq Replying /\ (state[Home] = "running" => Replying' = Replying)
      BY <1>2, Retries
    <2>2. LoopKept' /\ state' = state
      BY <1>2, LoopMoves DEF RetryOverflow
    <2>3. QED
      BY <1>0, <1>2, <2>1, <2>2 DEF TransportStep, AllRunning, Loop
  <1>3. CASE Loop(s) /\ ~RetryOverflow(s)
    <2>1. queue' = queue /\ overflow' = overflow /\ hand' = hand /\ state' = state
      BY <1>3 DEF Loop, SkipEmpty, EndLane, EndStep
    <2>2. LoopKept'
      BY <1>3, LoopMoves DEF Loop
    <2>3. QED
      BY <1>3, <2>1, <2>2, LanesSame DEF TransportStep, AllRunning, Loop
  <1>4. CASE Fault(s) /\ MarkFailed(s)
    <2>1. /\ queue' = queue /\ overflow' = overflow /\ hand' = hand
          /\ state' = [state EXCEPT ![s] = "failed"]
      BY <1>4 DEF MarkFailed
    <2>2. LoopKept' /\ ~AllRunning'
      BY <1>4, <2>1, LoopMoves DEF AllRunning, LoopKept
    <2>3. QED
      BY <1>4, <2>1, <2>2, LanesSame DEF TransportStep, Fault
  <1>5. CASE Fault(s) /\ Exit(s)
    <2>1. /\ LanesKept' /\ Sending' = Sending /\ (Requests' = Requests \/ Requests' = <<>>)
          /\ Replying' \subseteq Replying
      BY <1>5, Exits
    <2>2. LoopKept' /\ state' = [state EXCEPT ![s] = "gone"]
      BY <1>5, LoopMoves DEF Exit
    <2>3. ~AllRunning'
      BY <2>2 DEF AllRunning, LoopKept
    <2>4. QED
      BY <1>5, <2>1, <2>2, <2>3 DEF TransportStep, Fault
  <1>6. QED
    BY <1>1, <1>2, <1>3, <1>4, <1>5 DEF Fault

-----------------------------------------------------------------------------
(* Home.                                                                   *)

\* A call is taken from the table, if it is there, and the requester told.
LEMMA Settles ==
    ASSUME Core, NEW c \in Calls, NEW o \in Outcomes, Complete(c, o)
    PROVE  /\ waiting' \subseteq waiting /\ c \notin waiting'
           /\ heard' \in [Calls -> Seq(Outcomes)]
           /\ \A x \in Calls :
                 \/ heard'[x] = heard[x]
                 \/ x = c /\ c \in waiting /\ heard'[x] = <<o>>
  <1>1. /\ heard \in [Calls -> Seq(Outcomes)] /\ (c \in waiting => heard[c] = <<>>)
    BY DEF Core, TypeOK, HeardOnce
  <1>2. CASE c \in waiting /\ requester
    <2>1. waiting' = waiting \ {c} /\ heard' = [heard EXCEPT ![c] = Append(heard[c], o)]
      BY <1>2 DEF Complete, Tell
    <2>2. Append(heard[c], o) = <<o>> /\ <<o>> \in Seq(Outcomes)
      BY <1>1, <1>2
    <2>3. heard' = [heard EXCEPT ![c] = <<o>>]
      BY <2>1, <2>2
    <2>4. QED
      BY <1>1, <1>2, <2>1, <2>2, <2>3
  <1>3. CASE c \in waiting /\ ~requester
    <2>1. waiting' = waiting \ {c} /\ heard' = heard
      BY <1>3 DEF Complete, Tell
    <2>2. QED
      BY <1>1, <2>1
  <1>4. CASE c \notin waiting
    <2>1. waiting' = waiting /\ heard' = heard
      BY <1>4 DEF Complete
    <2>2. QED
      BY <1>1, <1>4, <2>1
  <1>5. QED
    BY <1>2, <1>3, <1>4

\* A deadline, a cancel and the end of the requester leave the lanes alone.
LEMMA TableMoves ==
    ASSUME CallAssumption, LanesKept, LoopKept, Core,
           \/ \E c \in waiting : Timeout(c) \/ Cancel(c)
           \/ StopRequester
    PROVE  LanesKept' /\ LoopKept' /\ HomeStep
  <1>1. UNCHANGED <<queue, overflow, hand, pc, lead, left, at, start, state>>
    BY DEF Timeout, Cancel, StopRequester, transport, looping
  <1>2. /\ LanesKept' /\ Sending' = Sending /\ Requests' = Requests /\ Replying' = Replying
    BY <1>1, LanesSame
  <1>3. LoopKept' /\ AllRunning' = AllRunning
    BY <1>1 DEF LoopKept, AllRunning
  <1>4. UNCHANGED <<asked, away, ghosts>>
    BY DEF Timeout, Cancel, StopRequester
  <1>5. heard \in [Calls -> Seq(Outcomes)] /\ requester \in BOOLEAN /\ waiting \subseteq Calls
    <2>1. waiting \subseteq 1 .. asked /\ asked \in 0 .. MaxCalls /\ MaxCalls \in Nat
      BY TwoShards DEF Core, TypeOK
    <2>2. QED
      BY <2>1 DEF Core, TypeOK, Calls
  <1>6. CASE StopRequester \/ \E c \in waiting : Cancel(c)
    <2>1. heard' = heard /\ waiting' \subseteq waiting /\ requester' \in BOOLEAN
      BY <1>5, <1>6 DEF StopRequester, Cancel
    <2>2. QED
      BY <1>2, <1>3, <1>4, <1>5, <2>1 DEF HomeStep
  <1>7. CASE \E c \in waiting : Timeout(c)
    <2>1. PICK c \in waiting : Timeout(c)
      BY <1>7
    <2>2. Complete(c, "Timeout") /\ requester' = requester /\ c \in Calls /\ "Timeout" \in Outcomes
      BY <1>5, <2>1 DEF Timeout, Outcomes
    <2>3. /\ waiting' \subseteq waiting /\ c \notin waiting'
          /\ heard' \in [Calls -> Seq(Outcomes)]
          /\ \A x \in Calls :
                \/ heard'[x] = heard[x]
                \/ x = c /\ c \in waiting /\ heard'[x] = <<"Timeout">>
      BY <2>2, Settles
    <2>4. ASSUME NEW x \in Calls, heard'[x] # heard[x]
          PROVE  /\ x \in waiting \ waiting'
                 /\ \E o \in Outcomes :
                       /\ heard'[x] = <<o>>
                       /\ o = "Replied" => x \in answered
                       /\ o \in {"Full", "Closed"} =>
                             x \notin Sending \cup Sent \cup Delivered \cup given
      <3>1. x \in waiting \ waiting' /\ heard'[x] = <<"Timeout">>
        BY <2>3, <2>4
      <3>2. QED
        BY <2>2, <3>1
    <2>5. QED
      BY <1>2, <1>3, <1>4, <1>5, <2>2, <2>3, <2>4 DEF HomeStep
  <1>8. QED
    BY <1>6, <1>7

\* A reply comes home.
LEMMA ReplyMoves ==
    ASSUME CallAssumption, LanesKept, LoopKept, Core, HarvestCallReply
    PROVE  LanesKept' /\ LoopKept' /\ HomeStep
  <1> DEFINE e == Incoming(Home)
  <1>0. Home \in Shards /\ Away \in Shards /\ Home # Away
    BY TwoShards
  <1>1. QueuesKept /\ OverflowKept /\ HandsKept
    BY LanesSplit
  <1>2. /\ Receive(Home) /\ hand' = hand /\ Complete(e.call, e.outcome)
        /\ UNCHANGED <<requester, asked, away, ghosts>>
    BY DEF HarvestCallReply
  <1>3. /\ QueuesKept' /\ OverflowKept' /\ overflow' = overflow
        /\ Replies # <<>> /\ e = Head(Replies)
        /\ Replies' = Tail(Replies) /\ Requests' = Requests
    BY <1>0, <1>2, Receives
  <1>4. LoopKept' /\ AllRunning' = AllRunning
    BY <1>0, <1>2, LoopMoves DEF AllRunning, Receive
  <1> HIDE DEF e
  <1>5. HandsKept' /\ Sending' = Sending
    BY <1>1, <1>2 DEF HandsKept, Sending
  <1>6. LanesKept'
    BY <1>3, <1>5, LanesSplitNext
  <1>7. Replies \in Seq(Envelope) /\ Replying \subseteq Reply
    BY Places DEF Replies
  <1>8. ToSet(Replies) = ToSet(Replies') \cup {e}
    BY <1>3, <1>7, TailFacts
  <1>9. Replying = Replying' \cup {e}
    <2>1. /\ Replying = ToSet(hand[Away]) \cup ToSet(overflow[Away]) \cup ToSet(Replies)
          /\ Replying' = ToSet(hand'[Away]) \cup ToSet(overflow'[Away]) \cup ToSet(Replies')
      BY DEF Replying, Replies
    <2>2. QED
      BY <1>2, <1>3, <1>8, <2>1
  <1>10. e \in Reply /\ e.call \in Calls /\ e.outcome \in Outcomes
    BY <1>7, <1>9 DEF Reply
  <1>11. /\ e.call \in answered
         /\ e.outcome \in {"Full", "Closed"} =>
               e.call \notin Sending \cup Sent \cup Delivered \cup given
    BY <1>9 DEF Core, CallsTraced
  <1>12. /\ waiting' \subseteq waiting /\ e.call \notin waiting'
         /\ heard' \in [Calls -> Seq(Outcomes)]
         /\ \A x \in Calls :
               \/ heard'[x] = heard[x]
               \/ x = e.call /\ e.call \in waiting /\ heard'[x] = <<e.outcome>>
    BY <1>2, <1>10, Settles
  <1>13. ASSUME NEW x \in Calls, heard'[x] # heard[x]
         PROVE  /\ x \in waiting \ waiting'
                /\ \E o \in Outcomes :
                      /\ heard'[x] = <<o>>
                      /\ o = "Replied" => x \in answered
                      /\ o \in {"Full", "Closed"} =>
                            x \notin Sending \cup Sent \cup Delivered \cup given
    <2>1. x = e.call /\ x \in waiting \ waiting' /\ heard'[x] = <<e.outcome>>
      BY <1>12, <1>13
    <2>2. QED
      BY <1>10, <1>11, <2>1
  <1>14. requester' \in BOOLEAN /\ \A r \in Replying \ Replying' : r.call \notin waiting'
    BY <1>2, <1>9, <1>12 DEF Core, TypeOK
  <1>15. QED
    BY <1>2, <1>3, <1>4, <1>5, <1>6, <1>9, <1>12, <1>13, <1>14 DEF HomeStep

-----------------------------------------------------------------------------
(* The target's turns.                                                     *)

\* A handler or the end of the target, seen from the lanes: a call in hand was
\* answered, or nothing was.
LEMMA TurnLanes ==
    ASSUME CallAssumption, LanesKept, LoopKept, HandlesOn(Away),
           UNCHANGED <<queue, overflow, looping, state>>
    PROVE  /\ LoopKept' /\ AllRunning' = AllRunning
           /\ hand' = hand => /\ LanesKept' /\ Sending' = Sending
                              /\ Requests' = Requests /\ Replying' = Replying
           /\ \A c \in Calls, o \in Outcomes : Answer(c, o) =>
                 \E e \in Reply :
                    /\ e.call = c /\ e.outcome = o /\ answered' = answered \cup {c}
                    /\ LanesKept' /\ Sending' = Sending
                    /\ Requests' = Requests /\ Replying' = Replying \cup {e}
  <1>1. UNCHANGED <<queue, overflow, pc, lead, left, at, start, state>>
    BY DEF looping
  <1>2. LoopKept' /\ AllRunning' = AllRunning
    BY <1>1 DEF LoopKept, AllRunning
  <1>3. hand' = hand => /\ LanesKept' /\ Sending' = Sending
                        /\ Requests' = Requests /\ Replying' = Replying
    BY <1>1, LanesSame
  <1>4. ASSUME NEW c \in Calls, NEW o \in Outcomes, Answer(c, o)
        PROVE  \E e \in Reply :
                  /\ e.call = c /\ e.outcome = o /\ answered' = answered \cup {c}
                  /\ LanesKept' /\ Sending' = Sending
                  /\ Requests' = Requests /\ Replying' = Replying \cup {e}
    <2> DEFINE e == [kind |-> "CallReply", to |-> Home, call |-> c, outcome |-> o]
    <2>1. QueuesKept
      BY LanesSplit
    <2>2. QueuesKept' /\ Requests' = Requests /\ Replies' = Replies
      BY <1>1, <2>1, QueuesSame
    <2>3. hand[Away] = <<>>
      BY DEF HandlesOn, Idle
    <2>4. /\ LanesKept' /\ Sending' = Sending /\ Replying' = Replying \cup {e}
          /\ e \in Reply /\ e.call = c /\ e.outcome = o /\ answered' = answered \cup {c}
      BY <1>1, <1>4, <2>2, <2>3, Answers
    <2> HIDE DEF e
    <2>5. QED
      BY <2>2, <2>4
  <1>5. QED
    BY <1>2, <1>3, <1>4

\* What holds of a message that the target is given.
LEMMA Taken ==
    ASSUME CallAssumption, Core, NEW c, Takes(c)
    PROVE  /\ HandlesOn(Away) /\ UNCHANGED <<queue, overflow, looping, state>> /\ UNCHANGED home
           /\ c \in Calls /\ c \in 1 .. asked /\ c \in Delivered /\ given' = given \cup {c}
           /\ Tail(mailbox) \in Seq(Calls) /\ Len(Tail(mailbox)) <= MailCap
           /\ IsInjective(Tail(mailbox)) /\ ToSet(Tail(mailbox)) = Delivered \ {c}
           /\ target /\ target \in BOOLEAN /\ slots \subseteq given
  <1>1. /\ HandlesOn(Away) /\ UNCHANGED <<queue, overflow, looping, state>> /\ UNCHANGED home
        /\ mailbox # <<>> /\ c = Head(mailbox) /\ given' = given \cup {c}
    BY DEF Takes
  <1>2. /\ mailbox \in Seq(Calls) /\ Len(mailbox) <= MailCap /\ IsInjective(mailbox)
        /\ Delivered = ToSet(mailbox) /\ MailCap \in Nat
    BY TwoShards DEF Core, TypeOK, OneStage, Delivered
  <1>3. /\ Tail(mailbox) \in Seq(Calls) /\ Len(Tail(mailbox)) = Len(mailbox) - 1
        /\ Len(mailbox) \in Nat /\ c \in Calls /\ c \in Delivered
    BY <1>1, <1>2, TailFacts
  <1>4. IsInjective(Tail(mailbox)) /\ ToSet(Tail(mailbox)) = Delivered \ {c}
    BY <1>1, <1>2, InjectiveTail
  <1>5. Len(Tail(mailbox)) <= MailCap
    BY <1>2, <1>3
  <1>6. c \in 1 .. asked
    BY <1>3 DEF Core, OneStage
  <1>7. target /\ target \in BOOLEAN /\ slots \subseteq given
    BY <1>1 DEF Core, TypeOK
  <1>8. QED
    BY <1>1, <1>3, <1>4, <1>5, <1>6, <1>7

\* The mailbox of a target that stopped.
LEMMA Emptied ==
    ASSUME CallAssumption, mailbox' = <<>>
    PROVE  /\ mailbox' \in Seq(Calls) /\ Len(mailbox') <= MailCap
           /\ IsInjective(mailbox') /\ Delivered' = {}
  <1>1. MailCap \in Nat /\ Len(<<>>) = 0
    BY TwoShards
  <1>2. Delivered' = {}
    BY DEF Delivered, ToSet
  <1>3. IsInjective(mailbox')
    BY DEF IsInjective
  <1>4. QED
    BY <1>1, <1>2, <1>3

\* A handler replies or rejects, and the target goes on or stops.
LEMMA AnswerMoves ==
    ASSUME CallAssumption, LanesKept, LoopKept, Core,
           NEW c, NEW outcome \in {"Replied", "Rejected"},
           \/ HandlerAnswers(c, outcome)
           \/ HandlerStops(c, outcome)
           \/ HandlerPanics(c, FALSE) /\ outcome = "Rejected"
    PROVE  LanesKept' /\ LoopKept' /\ \E A : TurnStep(A)
  <1>1. Takes(c) /\ Answer(c, outcome)
    BY DEF HandlerAnswers, HandlerStops, HandlerPanics
  <1>2. /\ HandlesOn(Away) /\ UNCHANGED <<queue, overflow, looping, state>> /\ UNCHANGED home
        /\ c \in Calls /\ c \in 1 .. asked /\ c \in Delivered /\ given' = given \cup {c}
        /\ Tail(mailbox) \in Seq(Calls) /\ Len(Tail(mailbox)) <= MailCap
        /\ IsInjective(Tail(mailbox)) /\ ToSet(Tail(mailbox)) = Delivered \ {c}
        /\ target /\ target \in BOOLEAN /\ slots \subseteq given
    BY <1>1, Taken
  <1>3. outcome \in Outcomes /\ outcome \notin {"Full", "Closed"}
    BY DEF Outcomes
  <1>4. /\ LoopKept' /\ AllRunning' = AllRunning
        /\ \E e \in Reply :
              /\ e.call = c /\ e.outcome = outcome /\ answered' = answered \cup {c}
              /\ LanesKept' /\ Sending' = Sending
              /\ Requests' = Requests /\ Replying' = Replying \cup {e}
    BY <1>1, <1>2, <1>3, TurnLanes
  <1>5. PICK e \in Reply :
              /\ e.call = c /\ e.outcome = outcome /\ answered' = answered \cup {c}
              /\ LanesKept' /\ Sending' = Sending
              /\ Requests' = Requests /\ Replying' = Replying \cup {e}
    BY <1>4
  <1>6. answered \subseteq answered' /\ answered' \subseteq 1 .. asked
    BY <1>2, <1>5 DEF Core, TypeOK
  <1>7. CASE HandlerAnswers(c, outcome)
    <2>1. mailbox' = Tail(mailbox) /\ target' = target /\ slots' = slots /\ lapsed' = lapsed
      BY <1>7 DEF HandlerAnswers
    <2>2. Delivered' = Delivered \ {c}
      BY <1>2, <2>1 DEF Delivered
    <2>3. TurnStep({e})
      BY <1>2, <1>3, <1>4, <1>5, <1>6, <2>1, <2>2 DEF TurnStep
    <2>4. QED
      BY <1>4, <1>5, <2>3
  <1>8. CASE StopTarget(ToSet(Tail(mailbox)))
    <2>1. /\ target' = FALSE /\ mailbox' = <<>> /\ slots' = {}
          /\ lapsed' = lapsed \cup slots \cup (Delivered \ {c})
      BY <1>2, <1>8 DEF StopTarget
    <2>2. /\ mailbox' \in Seq(Calls) /\ Len(mailbox') <= MailCap
          /\ IsInjective(mailbox') /\ Delivered' = {}
      BY <2>1, Emptied
    <2>3. TurnStep({e})
      BY <1>2, <1>3, <1>4, <1>5, <1>6, <2>1, <2>2 DEF TurnStep
    <2>4. QED
      BY <1>4, <1>5, <2>3
  <1>9. HandlerPanics(c, FALSE) => StopTarget(ToSet(Tail(mailbox)))
    <2>1. ToSet(Tail(mailbox)) \cup {} = ToSet(Tail(mailbox))
      OBVIOUS
    <2>2. QED
      BY <2>1 DEF HandlerPanics
  <1>10. QED
    BY <1>7, <1>8, <1>9 DEF HandlerStops

\* The target keeps the caller or lets callers go.
LEMMA SilentMoves ==
    ASSUME CallAssumption, LanesKept, LoopKept, Core,
           \/ \E c \in ToSet(mailbox) : HandlerCaptures(c) \/ HandlerPanics(c, TRUE)
           \/ StopOther
           \/ \E c \in slots : DropSlot(c)
    PROVE  LanesKept' /\ LoopKept' /\ TurnStep({})
  <1>1. /\ HandlesOn(Away) /\ UNCHANGED <<queue, overflow, looping, state>> /\ UNCHANGED home
        /\ hand' = hand /\ answered' = answered
    <2>1. ASSUME NEW c, HandlerCaptures(c) \/ HandlerPanics(c, TRUE)
          PROVE  Takes(c) /\ hand' = hand /\ answered' = answered
      BY <2>1 DEF HandlerCaptures, HandlerPanics
    <2>2. CASE \E c \in ToSet(mailbox) : HandlerCaptures(c) \/ HandlerPanics(c, TRUE)
      BY <2>1, <2>2 DEF Takes
    <2>3. CASE StopOther \/ \E c \in slots : DropSlot(c)
      BY <2>3 DEF StopOther, DropSlot, transport
    <2>4. QED
      BY <2>2, <2>3
  <1>2. /\ LanesKept' /\ LoopKept' /\ AllRunning' = AllRunning /\ Sending' = Sending
        /\ Requests' = Requests /\ Replying' = Replying \cup {}
    BY <1>1, TurnLanes
  <1>3. /\ answered' \subseteq 1 .. asked /\ slots \subseteq given /\ target \in BOOLEAN
        /\ mailbox \in Seq(Calls) /\ Len(mailbox) <= MailCap /\ IsInjective(mailbox)
        /\ Delivered = ToSet(mailbox) /\ (~target => mailbox = <<>> /\ slots = {})
    BY <1>1 DEF Core, TypeOK, OneStage, Delivered
  <1>4. ASSUME NEW c \in ToSet(mailbox), HandlerCaptures(c) PROVE TurnStep({})
    <2>1. /\ Takes(c) /\ mailbox' = Tail(mailbox) /\ slots' = slots \cup {c}
          /\ target' = target /\ lapsed' = lapsed
      BY <1>4 DEF HandlerCaptures
    <2>2. /\ c \in Delivered /\ given' = given \cup {c} /\ target
          /\ Tail(mailbox) \in Seq(Calls) /\ Len(Tail(mailbox)) <= MailCap
          /\ IsInjective(Tail(mailbox)) /\ ToSet(Tail(mailbox)) = Delivered \ {c}
      BY <2>1, Taken
    <2>3. Delivered' = Delivered \ {c}
      BY <2>1, <2>2 DEF Delivered
    <2>4. QED
      BY <1>1, <1>2, <1>3, <2>1, <2>2, <2>3 DEF TurnStep
  <1>5. ASSUME NEW c \in ToSet(mailbox), HandlerPanics(c, TRUE) PROVE TurnStep({})
    <2>1. Takes(c) /\ StopTarget(ToSet(Tail(mailbox)) \cup {c})
      BY <1>5 DEF HandlerPanics
    <2>2. c \in Delivered /\ given' = given \cup {c} /\ ToSet(Tail(mailbox)) = Delivered \ {c}
      BY <2>1, Taken
    <2>3. /\ target' = FALSE /\ mailbox' = <<>> /\ slots' = {}
          /\ lapsed' = lapsed \cup slots \cup ((Delivered \ {c}) \cup {c})
      BY <2>1, <2>2 DEF StopTarget
    <2>4. /\ mailbox' \in Seq(Calls) /\ Len(mailbox') <= MailCap
          /\ IsInjective(mailbox') /\ Delivered' = {}
      BY <2>3, Emptied
    <2>5. QED
      BY <1>1, <1>2, <1>3, <2>2, <2>3, <2>4 DEF TurnStep
  <1>6. ASSUME StopOther PROVE TurnStep({})
    <2>1. /\ target' = FALSE /\ mailbox' = <<>> /\ slots' = {} /\ given' = given
          /\ lapsed' = lapsed \cup slots \cup Delivered
      BY <1>3, <1>6 DEF StopOther, StopTarget
    <2>2. /\ mailbox' \in Seq(Calls) /\ Len(mailbox') <= MailCap
          /\ IsInjective(mailbox') /\ Delivered' = {}
      BY <2>1, Emptied
    <2>3. QED
      BY <1>1, <1>2, <1>3, <2>1, <2>2 DEF TurnStep
  <1>7. ASSUME NEW c \in slots, DropSlot(c) PROVE TurnStep({})
    <2>1. /\ slots' = slots \ {c} /\ lapsed' = lapsed \cup {c}
          /\ target' = target /\ mailbox' = mailbox /\ given' = given
      BY <1>7 DEF DropSlot
    <2>2. Delivered' = Delivered
      BY <2>1 DEF Delivered
    <2>3. QED
      BY <1>1, <1>2, <1>3, <2>1, <2>2 DEF TurnStep
  <1>8. QED
    BY <1>2, <1>4, <1>5, <1>6, <1>7

\* The target answers a caller it kept.
LEMMA LateMoves ==
    ASSUME CallAssumption, LanesKept, LoopKept, Core, NEW c \in slots, ReplyTo(c)
    PROVE  LanesKept' /\ LoopKept' /\ \E A : TurnStep(A)
  <1>1. /\ HandlesOn(Away) /\ UNCHANGED <<queue, overflow, looping, state>> /\ UNCHANGED home
        /\ slots' = slots \ {c} /\ Answer(c, "Replied")
        /\ target' = target /\ mailbox' = mailbox /\ given' = given /\ lapsed' = lapsed
    BY DEF ReplyTo
  <1>2. /\ slots \subseteq given /\ target \in BOOLEAN /\ asked \in 0 .. MaxCalls /\ MaxCalls \in Nat
        /\ mailbox \in Seq(Calls) /\ Len(mailbox) <= MailCap /\ IsInjective(mailbox)
        /\ given \subseteq 1 .. asked /\ (~target => mailbox = <<>> /\ slots = {})
    BY TwoShards DEF Core, TypeOK, OneStage
  <1>3. c \in 1 .. asked /\ c \in Calls /\ "Replied" \in Outcomes
    BY <1>2 DEF Calls, Outcomes
  <1>4. /\ LoopKept' /\ AllRunning' = AllRunning
        /\ \E e \in Reply :
              /\ e.call = c /\ e.outcome = "Replied" /\ answered' = answered \cup {c}
              /\ LanesKept' /\ Sending' = Sending
              /\ Requests' = Requests /\ Replying' = Replying \cup {e}
    BY <1>1, <1>3, TurnLanes
  <1>5. PICK e \in Reply :
              /\ e.call = c /\ e.outcome = "Replied" /\ answered' = answered \cup {c}
              /\ LanesKept' /\ Sending' = Sending
              /\ Requests' = Requests /\ Replying' = Replying \cup {e}
    BY <1>4
  <1>6. answered \subseteq answered' /\ answered' \subseteq 1 .. asked
    BY <1>3, <1>5 DEF Core, TypeOK
  <1>7. Delivered' = Delivered
    BY <1>1 DEF Delivered
  <1>8. TurnStep({e})
    BY <1>1, <1>2, <1>4, <1>5, <1>6, <1>7 DEF TurnStep
  <1>9. QED
    BY <1>4, <1>5, <1>8

-----------------------------------------------------------------------------
(* The invariant.                                                          *)

\* CallsSettleOnce is what the steps keep.
LEMMA CoreSuffices ==
    ASSUME CallAssumption, LanesKept, LoopKept, Core
    PROVE  CallsSettleOnce
  <1>1. RefusedNeverRun
    BY DEF Core, CallsTraced, RefusedNeverRun, Delivered
  <1>2. NoAnswerLost
    <2>1. ASSUME Quiet PROVE Sent = {} /\ Replying = {}
      <3>1. Home \in Shards /\ Away \in Shards /\ "terminal" \in Lanes /\ "ordinary" \in Lanes
        BY TwoShards DEF Lanes
      <3>2. /\ hand[Away] = <<>> /\ overflow[Away] = <<>>
            /\ queue["terminal"][Away][Home] = <<>> /\ Requests = <<>>
        BY <2>1, <3>1 DEF Quiet, Requests
      <3>3. ToSet(<<>>) = {}
        BY DEF ToSet
      <3>4. QED
        BY <3>2, <3>3 DEF Sent, CallsIn, Replying
    <2>2. ASSUME Quiet, AllRunning PROVE waiting \subseteq ToSet(mailbox) \cup slots \cup lapsed
      <3>1. Sent = {} /\ {e.call : e \in Replying} = {}
        BY <2>1, <2>2
      <3>2. waiting \subseteq Sent \cup Delivered \cup slots \cup lapsed
                                   \cup {e.call : e \in Replying}
        BY <2>2 DEF Core, CallsTraced
      <3>3. QED
        BY <3>1, <3>2 DEF Delivered
    <2>3. QED
      BY <2>2 DEF NoAnswerLost, Core, Told
  <1>3. QED
    BY <1>1, <1>2 DEF CallsSettleOnce, Core

\* The initial state.
LEMMA CallInit ==
    ASSUME CallAssumption, Init
    PROVE  LanesKept /\ LoopKept /\ Core
  <1>0. /\ Home \in Shards /\ Away \in Shards /\ "terminal" \in Lanes /\ "ordinary" \in Lanes
        /\ MaxCalls \in Nat /\ MailCap \in Nat /\ Budget \in Nat
    BY TwoShards DEF Lanes
  <1>1. \A S : <<>> \in Seq(S) /\ Len(<<>>) = 0 /\ ToSet(<<>>) = {}
    BY DEF ToSet
  <1>2. /\ queue = [lane \in Lanes |-> [s \in Shards |-> [t \in Shards |-> <<>>]]]
        /\ overflow = [s \in Shards |-> <<>>] /\ hand = [s \in Shards |-> <<>>]
    BY DEF Init, TransportInit
  <1>3. QueuesKept
    <2>1. queue \in Channels
      BY <1>1, <1>2 DEF Channels
    <2>2. \A lane \in Lanes, s \in Shards, t \in Shards : ToSet(queue[lane][s][t]) = {}
      BY <1>1, <1>2
    <2>3. QED
      BY <2>1, <2>2 DEF QueuesKept
  <1>4. OverflowKept /\ HandsKept
    BY <1>1, <1>2 DEF OverflowKept, HandsKept
  <1>5. LanesKept
    BY <1>3, <1>4, LanesSplit
  <1>6. LoopKept
    BY <1>0 DEF Init, TransportInit, LoopKept
  <1>7. Sending = {} /\ Sent = {} /\ Delivered = {} /\ Replying = {} /\ Requests = <<>>
    <2>1. /\ hand[Home] = <<>> /\ hand[Away] = <<>> /\ overflow[Away] = <<>>
          /\ queue["terminal"][Away][Home] = <<>> /\ Requests = <<>> /\ mailbox = <<>>
      BY <1>0, <1>2 DEF Init, Requests
    <2>2. QED
      BY <1>1, <2>1 DEF Sending, Sent, Delivered, Replying, CallsIn
  <1>8. /\ requester = TRUE /\ target = TRUE /\ asked = 0 /\ waiting = {} /\ mailbox = <<>>
        /\ heard = [c \in Calls |-> <<>>]
        /\ slots = {} /\ given = {} /\ answered = {} /\ lapsed = {}
    BY DEF Init
  <1>9. TypeOK
    BY <1>0, <1>1, <1>8 DEF TypeOK
  <1>10. OneStage
    BY <1>7, <1>8 DEF OneStage, IsInjective
  <1>11. \A c \in Calls : heard[c] = <<>>
    BY <1>8
  <1>12. CallsTraced /\ HeardOnce /\ Told
    BY <1>7, <1>8, <1>11 DEF CallsTraced, HeardOnce, Told
  <1>13. QED
    BY <1>5, <1>6, <1>9, <1>10, <1>12 DEF Core

\* Every step keeps it.
LEMMA CallStep ==
    ASSUME CallAssumption, LanesKept, LoopKept, Core, Next
    PROVE  LanesKept' /\ LoopKept' /\ Core'
  <1>0. Shards = {Home, Away} /\ Home \in Shards /\ Away \in Shards /\ Faults \subseteq Shards
    BY TwoShards
  <1>1. CASE Call
    BY <1>1, CallKeeps
  <1>2. CASE RouteOne(Home)
    BY <1>2, RouteHomeKeeps
  <1>3. CASE HarvestSend
    BY <1>3, HarvestSendKeeps
  <1>4. ASSUME NEW s \in Shards, (RouteOne(s) /\ s = Away) \/ Loop(s) \/ Fault(s)
        PROVE  LanesKept' /\ LoopKept' /\ Core'
    <2>1. LanesKept' /\ LoopKept' /\ TransportStep
      BY <1>4, TransportMoves
    <2>2. QED
      BY <2>1, TransportKeeps
  <1>5. CASE HarvestCallReply
    BY <1>5, ReplyMoves, HomeKeeps
  <1>6. CASE StopRequester \/ \E c \in waiting : Timeout(c) \/ Cancel(c)
    BY <1>6, TableMoves, HomeKeeps
  <1>7. ASSUME NEW c, NEW outcome \in {"Replied", "Rejected"},
               \/ HandlerAnswers(c, outcome)
               \/ HandlerStops(c, outcome)
               \/ HandlerPanics(c, FALSE) /\ outcome = "Rejected"
        PROVE  LanesKept' /\ LoopKept' /\ Core'
    <2>1. LanesKept' /\ LoopKept' /\ \E A : TurnStep(A)
      BY <1>7, AnswerMoves
    <2>2. QED
      BY <2>1, TurnKeeps
  <1>8. CASE \/ \E c \in ToSet(mailbox) : HandlerCaptures(c) \/ HandlerPanics(c, TRUE)
             \/ StopOther
             \/ \E c \in slots : DropSlot(c)
    BY <1>8, SilentMoves, TurnKeeps
  <1>9. ASSUME NEW c \in slots, ReplyTo(c)
        PROVE  LanesKept' /\ LoopKept' /\ Core'
    <2>1. LanesKept' /\ LoopKept' /\ \E A : TurnStep(A)
      BY <1>9, LateMoves
    <2>2. QED
      BY <2>1, TurnKeeps
  <1>10. CASE \E s \in Shards : Worker(s)
    BY <1>0, <1>2, <1>3, <1>4, <1>5, <1>10 DEF Worker
  <1>11. CASE \E s \in Faults : Fault(s)
    BY <1>0, <1>4, <1>11
  <1>12. CASE Handlers
    <2>1. CASE \E c \in ToSet(mailbox) : \E captured \in BOOLEAN : HandlerPanics(c, captured)
      <3>1. PICK c \in ToSet(mailbox) : HandlerPanics(c, TRUE) \/ HandlerPanics(c, FALSE)
        BY <2>1
      <3>2. CASE HandlerPanics(c, TRUE)
        BY <1>8, <3>2
      <3>3. CASE HandlerPanics(c, FALSE)
        BY <1>7, <3>3
      <3>4. QED
        BY <3>1, <3>2, <3>3
    <2>2. QED
      BY <1>1, <1>6, <1>7, <1>8, <1>9, <1>12, <2>1 DEF Handlers
  <1>13. QED
    BY <1>10, <1>11, <1>12 DEF Next

\* A step that changes nothing.
LEMMA CallStutter ==
    ASSUME LanesKept, LoopKept, Core, UNCHANGED vars
    PROVE  LanesKept' /\ LoopKept' /\ Core'
  <1>1. /\ UNCHANGED <<queue, overflow, hand, pc, lead, left, at, start, state>>
        /\ UNCHANGED <<home, away, ghosts>>
    BY DEF vars, transport, looping
  <1>2. LanesKept' /\ Sending' = Sending /\ Requests' = Requests /\ Replying' = Replying
    BY <1>1, LanesSame
  <1>3. LoopKept' /\ AllRunning' = AllRunning
    BY <1>1 DEF LoopKept, AllRunning
  <1>4. TransportStep
    BY <1>1, <1>2, <1>3 DEF TransportStep
  <1>5. QED
    BY <1>2, <1>3, <1>4, TransportKeeps

\* For any number of calls and any capacities, and whatever order the two shards'
\* steps, deadlines, cancels, stops and faults come in, a remote call is heard of
\* once and truly (complete_isolate_call, harvest_remote_send,
\* harvest_remote_call_reply).
THEOREM RemoteCallsSettle == CallAssumption => (Spec => []CallsSettleOnce)
  <1> SUFFICES ASSUME CallAssumption PROVE Spec => []CallsSettleOnce
    OBVIOUS
  <1> DEFINE Inv == LanesKept /\ LoopKept /\ Core
  <1>1. Init => Inv
    BY CallInit
  <1>2. Inv /\ [Next]_vars => Inv'
    BY CallStep, CallStutter
  <1>3. Inv => CallsSettleOnce
    BY CoreSuffices
  <1>4. QED
    BY <1>1, <1>2, <1>3, PTL DEF Spec
=============================================================================
