----------------------------- MODULE BusProofs ------------------------------
(***************************************************************************)
(* What TLAPS proves of the message bus for any agents, tenants, workflows *)
(* and messages: of the broker alone (Spec of MessageBus), with callbacks  *)
(* that suspend its publications, and of the server in front of it         *)
(* (ServerSpec of BusServer).  The history of an agent is what it has      *)
(* taken and what waits in its queue.  The broker's invariant says what a  *)
(* suspended publication may rely on: the agents it has still to serve     *)
(* are of the message's tenant and have not got it, and it is the last     *)
(* publication of its sender.  Last comes the client (ClientSpec of        *)
(* BusClient), a system of its own.                                        *)
(***************************************************************************)
EXTENDS BusServer, BusClient, SequenceTheorems, TLAPS

Published(m) == mail[m] # None
History(a)   == got[a] \o box[a]

\* Agents have their own tenant, and workflows to come have no members.
Seated ==
    /\ \A a \in subscribed : tenant[a] = TenantOf[a]
    /\ \A w \in Workflows : w > counter => members[w] = {}

\* A message is published once.
SentOnce ==
    /\ \A i, j \in 1..Len(sent) : sent[i] = sent[j] => i = j
    /\ \A m \in Msgs : Published(m) <=> InSeq(sent, m)

Known == \A a \in Agents : \A i \in 1..Len(History(a)) : Published(History(a)[i])

InWorkflow(m, a) == mail[m].to = None /\ mail[m].wf # None
                        => mail[m].wf \in subs[a] \/ a \in left[m]

\* A suspended publication.
Awaited ==
    \A m \in Msgs : todo[m] # {} =>
        /\ Published(m)
        /\ \A a \in todo[m] : /\ TenantOf[a] = mail[m].tenant
                              /\ InWorkflow(m, a)
                              /\ ~InSeq(History(a), m)
        /\ \A k \in Msgs : Published(k) /\ mail[k].from = mail[m].from /\ k # m
                              => Rank(k) < Rank(m)

IInv ==
    /\ BrokerSound
    /\ Seated /\ SentOnce /\ Known /\ Awaited
-----------------------------------------------------------------------------
(* Sequences *)

\* What a sequence holds after Append, Tail and \o.
LEMMA AppendHolds ==
    ASSUME NEW S, NEW s \in Seq(S), NEW e \in S, NEW x
    PROVE  InSeq(Append(s, e), x) <=> InSeq(s, x) \/ x = e
<1>1. /\ Len(Append(s, e)) = Len(s) + 1 /\ Len(s) \in Nat
      /\ \A i \in 1..Len(s) : Append(s, e)[i] = s[i]
      /\ Append(s, e)[Len(s) + 1] = e
  BY AppendProperties, LenProperties
<1> QED BY <1>1 DEF InSeq

\* What a concatenation holds.
LEMMA ConcatHolds ==
    ASSUME NEW S, NEW s \in Seq(S), NEW t \in Seq(S), NEW x
    PROVE  InSeq(s \o t, x) <=> InSeq(s, x) \/ InSeq(t, x)
<1>1. /\ Len(s) \in Nat /\ Len(t) \in Nat /\ Len(s \o t) = Len(s) + Len(t)
      /\ \A i \in 1..Len(s) + Len(t) :
            (s \o t)[i] = IF i <= Len(s) THEN s[i] ELSE t[i - Len(s)]
  BY ConcatProperties, LenProperties
<1>2. ASSUME NEW i \in 1..Len(s \o t), (s \o t)[i] = x PROVE InSeq(s, x) \/ InSeq(t, x)
  <2>1. CASE i <= Len(s)
    BY <1>1, <1>2, <2>1 DEF InSeq
  <2>2. CASE i > Len(s)
    <3>1. i - Len(s) \in 1..Len(t) /\ t[i - Len(s)] = x
      BY <1>1, <1>2, <2>2
    <3> QED BY <3>1 DEF InSeq
  <2> QED BY <1>1, <2>1, <2>2
<1>3. ASSUME NEW i \in 1..Len(s), s[i] = x PROVE InSeq(s \o t, x)
  BY <1>1, <1>3 DEF InSeq
<1>4. ASSUME NEW i \in 1..Len(t), t[i] = x PROVE InSeq(s \o t, x)
  <2>1. i + Len(s) \in 1..Len(s \o t) /\ (s \o t)[i + Len(s)] = x
    BY <1>1, <1>4
  <2> QED BY <2>1 DEF InSeq
<1> QED BY <1>2, <1>3, <1>4 DEF InSeq

\* What the head and the tail of a sequence hold.
LEMMA HeadHolds ==
    ASSUME NEW S, NEW s \in Seq(S), s # <<>>
    PROVE  /\ InSeq(s, Head(s)) /\ Head(s) \in S /\ Tail(s) \in Seq(S)
           /\ \A x : InSeq(Tail(s), x) => InSeq(s, x)
<1>1. /\ Head(s) \in S /\ Tail(s) \in Seq(S) /\ Len(Tail(s)) = Len(s) - 1
      /\ \A i \in 1..Len(Tail(s)) : Tail(s)[i] = s[i + 1]
      /\ Len(s) \in Nat \ {0}
  BY HeadTailProperties, EmptySeq
<1>2. Head(s) = s[1]
  BY <1>1
<1> QED BY <1>1, <1>2 DEF InSeq

\* A queue and what was taken from it, end to end.
LEMMA TakeKeeps ==
    ASSUME NEW S, NEW s \in Seq(S), NEW t \in Seq(S), t # <<>>
    PROVE  Append(s, Head(t)) \o Tail(t) = s \o t
<1>1. /\ Head(t) \in S /\ Tail(t) \in Seq(S) /\ Len(Tail(t)) = Len(t) - 1
      /\ \A i \in 1..Len(Tail(t)) : Tail(t)[i] = t[i + 1]
      /\ Len(t) \in Nat \ {0} /\ Len(s) \in Nat /\ Head(t) = t[1]
  BY HeadTailProperties, EmptySeq, LenProperties
<1>2. /\ Append(s, Head(t)) \in Seq(S) /\ Len(Append(s, Head(t))) = Len(s) + 1
      /\ \A i \in 1..Len(s) : Append(s, Head(t))[i] = s[i]
      /\ Append(s, Head(t))[Len(s) + 1] = t[1]
  BY <1>1, AppendProperties
<1> DEFINE u == Append(s, Head(t))
<1> HIDE DEF u
<1>3. /\ u \in Seq(S) /\ Len(u) = Len(s) + 1 /\ u[Len(s) + 1] = t[1]
      /\ \A i \in 1..Len(s) : u[i] = s[i]
  BY <1>2 DEF u
<1>4. /\ u \o Tail(t) \in Seq(S) /\ Len(u \o Tail(t)) = Len(s) + Len(t)
      /\ \A i \in 1..Len(s) + Len(t) :
            (u \o Tail(t))[i] = IF i <= Len(s) + 1 THEN u[i] ELSE Tail(t)[i - (Len(s) + 1)]
  <2>1. /\ u \o Tail(t) \in Seq(S) /\ Len(u \o Tail(t)) = Len(u) + Len(Tail(t))
        /\ \A i \in 1..Len(u) + Len(Tail(t)) :
              (u \o Tail(t))[i] = IF i <= Len(u) THEN u[i] ELSE Tail(t)[i - Len(u)]
    BY <1>1, <1>3, ConcatProperties
  <2>2. Len(u) + Len(Tail(t)) = Len(s) + Len(t)
    BY <1>1, <1>3
  <2> QED BY <1>3, <2>1, <2>2
<1>5. /\ s \o t \in Seq(S) /\ Len(s \o t) = Len(s) + Len(t)
      /\ \A i \in 1..Len(s) + Len(t) :
            (s \o t)[i] = IF i <= Len(s) THEN s[i] ELSE t[i - Len(s)]
  BY ConcatProperties
<1>6. ASSUME NEW i \in 1..Len(s) + Len(t) PROVE (u \o Tail(t))[i] = (s \o t)[i]
  <2>1. CASE i <= Len(s)
    BY <1>1, <1>3, <1>4, <1>5, <2>1
  <2>2. CASE i = Len(s) + 1
    BY <1>1, <1>3, <1>4, <1>5, <2>2
  <2>3. CASE i > Len(s) + 1
    <3>1. i - (Len(s) + 1) \in 1..Len(Tail(t)) /\ i - (Len(s) + 1) + 1 = i - Len(s)
      BY <1>1, <2>3
    <3> QED BY <1>1, <1>4, <1>5, <2>3, <3>1
  <2>4. i <= Len(s) \/ i = Len(s) + 1 \/ i > Len(s) + 1
    BY <1>1
  <2> QED BY <2>1, <2>2, <2>3, <2>4
<1> QED BY <1>4, <1>5, <1>6, SeqEqual DEF u

\* Appending to the second part appends to the whole.
LEMMA AppendToConcat ==
    ASSUME NEW S, NEW s \in Seq(S), NEW t \in Seq(S), NEW e \in S
    PROVE  s \o Append(t, e) = Append(s \o t, e)
<1>1. <<e>> \in Seq(S) /\ Append(t, e) = t \o <<e>>
  BY AppendIsConcat
<1>2. s \o t \in Seq(S) /\ Append(s \o t, e) = (s \o t) \o <<e>>
  BY ConcatProperties, AppendIsConcat
<1> QED BY <1>1, <1>2, ConcatAssociative

\* When nothing occurs twice in a concatenation, nothing is in both parts.
LEMMA ConcatDistinct ==
    ASSUME NEW S, NEW s \in Seq(S), NEW t \in Seq(S), NEW m, InSeq(s, m), InSeq(t, m),
           \A i, j \in 1..Len(s \o t) : i < j => (s \o t)[i] # (s \o t)[j]
    PROVE  FALSE
<1>1. PICK i \in 1..Len(s), j \in 1..Len(t) : s[i] = m /\ t[j] = m
  BY DEF InSeq
<1>2. /\ Len(s) \in Nat /\ Len(t) \in Nat /\ Len(s \o t) = Len(s) + Len(t)
      /\ \A l \in 1..Len(s) + Len(t) : (s \o t)[l] = IF l <= Len(s) THEN s[l] ELSE t[l - Len(s)]
  BY ConcatProperties, LenProperties
<1> DEFINE n == Len(s) + j
<1>3. /\ i \in 1..Len(s) + Len(t) /\ n \in 1..Len(s) + Len(t) /\ i < n /\ n - Len(s) = j
      /\ ~(n <= Len(s)) /\ i <= Len(s)
  BY <1>1, <1>2
<1>4. (s \o t)[i] = m /\ (s \o t)[n] = m
  BY <1>1, <1>2, <1>3
<1> QED BY <1>2, <1>3, <1>4
-----------------------------------------------------------------------------
(* Histories and deliveries *)

\* The history of an agent holds what it got and what waits for it.
LEMMA HistoryHolds ==
    ASSUME TypeOK, NEW a \in Agents
    PROVE  /\ History(a) \in Seq(Msgs) /\ got[a] \in Seq(Msgs) /\ box[a] \in Seq(Msgs)
           /\ \A x : InSeq(History(a), x) <=> InSeq(got[a], x) \/ InSeq(box[a], x)
<1>1. got[a] \in Seq(Msgs) /\ box[a] \in Seq(Msgs)
  BY DEF TypeOK
<1>2. History(a) \in Seq(Msgs)
  BY <1>1, ConcatProperties DEF History
<1> QED BY <1>1, <1>2, ConcatHolds DEF History

\* What Deliver does to the queues.
LEMMA Delivers ==
    ASSUME TypeOK, NEW m \in Msgs, NEW S \in SUBSET Agents, Deliver(m, S)
    PROVE  /\ box' \in [Agents -> Seq(Msgs)] /\ acks' \subseteq Msgs \X Agents
           /\ UNCHANGED <<subscribed, subs, members, tenant, counter, observed>>
           /\ \A a \in Agents :
                 /\ a \in S \cap subscribed => box'[a] = Append(box[a], m)
                 /\ a \notin S \cap subscribed => box'[a] = box[a]
           /\ \A k \in Msgs, a \in Agents :
                 <<k, a>> \in acks' <=> \/ <<k, a>> \in acks
                                        \/ k = m /\ m \in AckMsgs /\ a \in S \cap subscribed
<1>1. box \in [Agents -> Seq(Msgs)] /\ acks \subseteq Msgs \X Agents
  BY DEF TypeOK
<1>2. \A a \in Agents : Append(box[a], m) \in Seq(Msgs)
  BY <1>1, AppendProperties
<1> QED BY <1>1, <1>2 DEF Deliver

\* The targets served before a suspension are targets; a message to one
\* agent is not suspended half-way.
LEMMA StretchesServe ==
    ASSUME NEW targets, NEW S \in Stretches(targets)
    PROVE  S \subseteq targets /\ \A x : targets \subseteq {x} => targets \ S = {}
BY DEF Stretches

\* The position of a message among the publications.
LEMMA Ranked ==
    ASSUME TypeOK, SentOnce, NEW i \in 1..Len(sent)
    PROVE  Rank(sent[i]) = i
BY DEF SentOnce, Rank

\* A published message has a rank, at which it was sent.
LEMMA RankOf ==
    ASSUME TypeOK, SentOnce, NEW m \in Msgs, Published(m)
    PROVE  Rank(m) \in 1..Len(sent) /\ sent[Rank(m)] = m
<1>1. PICK i \in 1..Len(sent) : sent[i] = m
  BY DEF SentOnce, InSeq
<1> QED BY <1>1, Ranked

\* A publication is the last one, and the others keep their places.
LEMMA PublishedLast ==
    ASSUME TypeOK, SentOnce, NEW m \in Msgs, ~Published(m), NEW msg \in Envelopes,
           mail' = [mail EXCEPT ![m] = msg], sent' = Append(sent, m)
    PROVE  /\ SentOnce' /\ sent' \in Seq(Msgs)
           /\ \A k \in Msgs : Published(k) => /\ mail'[k] = mail[k]
                                              /\ Rank(k)' = Rank(k) /\ Rank(k) < Rank(m)'
           /\ \A k \in Msgs : Published(k)' => Published(k) \/ k = m
           /\ mail'[m] = msg /\ Published(m)'
<1>1. /\ sent \in Seq(Msgs) /\ Len(sent) \in Nat
      /\ sent' \in Seq(Msgs) /\ Len(sent') = Len(sent) + 1
      /\ \A i \in 1..Len(sent) : sent'[i] = sent[i]
      /\ sent'[Len(sent) + 1] = m
  BY AppendProperties, LenProperties DEF TypeOK
<1>2. ~InSeq(sent, m)
  BY DEF SentOnce
<1>3. mail \in [Msgs -> Envelopes \cup {None}] /\ msg # None
  BY BusAssumption DEF TypeOK
<1>4. ASSUME NEW i \in 1..Len(sent'), NEW j \in 1..Len(sent'), sent'[i] = sent'[j] PROVE i = j
  BY <1>1, <1>2, <1>4 DEF SentOnce, InSeq
<1>5. ASSUME NEW k \in Msgs PROVE Published(k)' <=> InSeq(sent, k) \/ k = m
  BY <1>3 DEF Published, SentOnce
<1>6. \A k \in Msgs : InSeq(sent, k) \/ k = m <=> InSeq(sent', k)
  BY <1>1, AppendHolds
<1>7. SentOnce'
  BY <1>4, <1>5, <1>6 DEF SentOnce
<1>8. ASSUME NEW k \in Msgs, NEW i \in 1..Len(sent'), sent'[i] = k PROVE Rank(k)' = i
  BY <1>4, <1>8 DEF Rank
<1>9. Rank(m)' = Len(sent) + 1
  <2>1. Len(sent) + 1 \in 1..Len(sent') /\ sent'[Len(sent) + 1] = m
    BY <1>1
  <2> QED BY <1>8, <2>1
<1>10. ASSUME NEW k \in Msgs, Published(k)
       PROVE  Rank(k)' = Rank(k) /\ Rank(k) < Rank(m)' /\ mail'[k] = mail[k]
  <2>1. Rank(k) \in 1..Len(sent) /\ sent[Rank(k)] = k
    BY <1>10, RankOf
  <2>2. sent'[Rank(k)] = k /\ Rank(k) \in 1..Len(sent')
    BY <1>1, <2>1
  <2>3. Rank(k)' = Rank(k)
    BY <1>8, <2>2
  <2>4. k # m
    BY <1>10
  <2> QED BY <1>1, <1>3, <1>9, <2>1, <2>3, <2>4
<1> QED BY <1>1, <1>3, <1>5, <1>7, <1>10 DEF SentOnce, Published

\* The histories after a delivery.
LEMMA DeliveryHistory ==
    ASSUME TypeOK, Known, NEW m \in Msgs, NEW S \in SUBSET Agents, Deliver(m, S),
           UNCHANGED got, Published(m)', \A k \in Msgs : Published(k) => Published(k)'
    PROVE  /\ \A a \in Agents :
                 /\ a \in S \cap subscribed => History(a)' = Append(History(a), m)
                 /\ a \notin S \cap subscribed => History(a)' = History(a)
           /\ \A a \in Agents : \A x : /\ InSeq(box'[a], x) => InSeq(box[a], x)
                                                  \/ (x = m /\ a \in S \cap subscribed)
                                       /\ InSeq(History(a), x)' => InSeq(History(a), x)
                                                  \/ (x = m /\ a \in S \cap subscribed)
           /\ Known'
<1>1. ASSUME NEW a \in Agents, a \in S \cap subscribed
      PROVE  /\ History(a)' = Append(History(a), m)
             /\ \A x : /\ InSeq(box'[a], x) <=> InSeq(box[a], x) \/ x = m
                       /\ InSeq(History(a), x)' <=> InSeq(History(a), x) \/ x = m
             /\ \A i \in 1..Len(History(a)') : Published(History(a)[i])'
  <2>1. /\ got[a] \in Seq(Msgs) /\ box[a] \in Seq(Msgs) /\ History(a) \in Seq(Msgs)
    BY HistoryHolds
  <2>2. box'[a] = Append(box[a], m) /\ got'[a] = got[a]
    BY <1>1, Delivers
  <2>3. History(a)' = Append(History(a), m)
    <3>1. \A s, t \in Seq(Msgs) : s \o Append(t, m) = Append(s \o t, m)
      BY AppendToConcat
    <3> QED BY <2>1, <2>2, <3>1 DEF History
  <2>4. \A x : /\ InSeq(Append(box[a], m), x) <=> InSeq(box[a], x) \/ x = m
               /\ InSeq(Append(History(a), m), x) <=> InSeq(History(a), x) \/ x = m
    BY <2>1, AppendHolds
  <2>5. \A x : /\ InSeq(box'[a], x) <=> InSeq(box[a], x) \/ x = m
               /\ InSeq(History(a)', x) <=> InSeq(History(a), x) \/ x = m
    BY <2>2, <2>3, <2>4
  <2>6. /\ Len(History(a)') = Len(History(a)) + 1 /\ Len(History(a)) \in Nat
        /\ \A i \in 1..Len(History(a)) : History(a)'[i] = History(a)[i] /\ History(a)[i] \in Msgs
        /\ History(a)'[Len(History(a)) + 1] = m
    BY <2>1, <2>3, AppendProperties, LenProperties, ElementOfSeq
  <2>7. \A i \in 1..Len(History(a)') : Published(History(a)[i])'
    BY <2>6 DEF Known
  <2> QED BY <2>3, <2>5, <2>7 DEF InSeq
<1>2. ASSUME NEW a \in Agents, a \notin S \cap subscribed
      PROVE  /\ box'[a] = box[a] /\ History(a)' = History(a)
             /\ \A i \in 1..Len(History(a)') : Published(History(a)[i])'
  <2>1. box'[a] = box[a] /\ got'[a] = got[a]
    BY <1>2, Delivers
  <2>2. \A i \in 1..Len(History(a)) : History(a)[i] \in Msgs
    BY HistoryHolds, ElementOfSeq
  <2> QED BY <2>1, <2>2 DEF History, Known
<1>3. ASSUME NEW a \in Agents, NEW x
      PROVE  /\ InSeq(box'[a], x) => InSeq(box[a], x) \/ (x = m /\ a \in S \cap subscribed)
             /\ InSeq(History(a), x)' => InSeq(History(a), x) \/ (x = m /\ a \in S \cap subscribed)
  <2>1. CASE a \in S \cap subscribed
    BY <1>1, <2>1
  <2>2. CASE a \notin S \cap subscribed
    BY <1>2, <2>2 DEF InSeq
  <2> QED BY <2>1, <2>2
<1>4. Known'
  BY <1>1, <1>2 DEF Known
<1> QED BY <1>1, <1>2, <1>3, <1>4

\* Two messages of one history: not the same, and in their sender's order.
InOrder(x, y) == x # y /\ (mail[x].from = mail[y].from => Rank(x) < Rank(y))

\* SenderOrder, for two places of a history.
LEMMA OrderOfHistory ==
    ASSUME SenderOrder, NEW a \in Agents,
           NEW i \in 1..Len(History(a)), NEW j \in 1..Len(History(a)), i < j
    PROVE  InOrder(History(a)[i], History(a)[j])
BY DEF SenderOrder, History, InOrder

\* A delivery to agents that have not got the message, when it is the last
\* of its sender, keeps what the broker promises of its queues.
LEMMA DeliveryKeeps ==
    ASSUME BrokerSound, Known, NEW m \in Msgs, NEW S \in SUBSET Agents, Deliver(m, S),
           UNCHANGED <<got, left>>, Published(m)',
           \A k \in Msgs : Published(k) => mail'[k] = mail[k] /\ Rank(k)' = Rank(k),
           \A a \in S \cap subscribed : /\ TenantOf[a] = mail'[m].tenant
                                        /\ InWorkflow(m, a)'
                                        /\ ~InSeq(History(a), m),
           \A k \in Msgs : Published(k) /\ k # m /\ mail[k].from = mail'[m].from
                              => Rank(k) < Rank(m)'
    PROVE  SenderOrder' /\ AckTracked' /\ TenantIsolation' /\ BroadcastStaysInWorkflow'
<1>0. /\ TypeOK /\ SenderOrder /\ AckTracked /\ TenantIsolation /\ BroadcastStaysInWorkflow
      /\ UNCHANGED subs
  BY Delivers DEF BrokerSound
<1>1. \A k \in Msgs : Published(k) => Published(k)'
  BY DEF Published
<1>2. \A a \in Agents : \A x : InSeq(box'[a], x) => InSeq(box[a], x)
                                         \/ (x = m /\ a \in S \cap subscribed)
  BY <1>0, <1>1, DeliveryHistory
<1>3. ASSUME NEW a \in Agents, NEW k, InSeq(box[a], k) PROVE k \in Msgs /\ Published(k)
  <2>1. InSeq(History(a), k) /\ History(a) \in Seq(Msgs)
    BY <1>0, <1>3, HistoryHolds
  <2>2. PICK i \in 1..Len(History(a)) : History(a)[i] = k
    BY <2>1 DEF InSeq
  <2>3. History(a)[i] \in Msgs
    BY <2>1, ElementOfSeq
  <2> QED BY <2>2, <2>3 DEF Known
<1>4. ASSUME NEW a \in Agents, NEW i \in 1..Len(box'[a])
      PROVE  /\ box'[a][i] \in AckMsgs => <<box'[a][i], a>> \in acks'
             /\ mail'[box'[a][i]].tenant = TenantOf[a]
             /\ mail'[box'[a][i]].to = None /\ mail'[box'[a][i]].wf # None
                   => mail'[box'[a][i]].wf \in subs[a] \/ a \in left[box'[a][i]]
  <2> DEFINE k == box'[a][i]
  <2>1. InSeq(box'[a], k)
    BY DEF InSeq
  <2>2. CASE InSeq(box[a], k)
    <3>1. k \in Msgs /\ mail'[k] = mail[k] /\ a \in Agents
      BY <1>3, <2>2
    <3>2. PICK j \in 1..Len(box[a]) : box[a][j] = k
      BY <2>2 DEF InSeq
    <3> HIDE DEF k
    <3>3. k \in AckMsgs => <<k, a>> \in acks
      BY <1>0, <3>2 DEF AckTracked
    <3>4. mail[k].tenant = TenantOf[a]
      BY <1>0, <3>2 DEF TenantIsolation
    <3>5. mail[k].to = None /\ mail[k].wf # None => mail[k].wf \in subs[a] \/ a \in left[k]
      BY <1>0, <3>2 DEF BroadcastStaysInWorkflow
    <3>6. k \in AckMsgs => <<k, a>> \in acks'
      BY <1>0, <3>1, <3>3, Delivers
    <3> QED BY <3>1, <3>4, <3>5, <3>6 DEF k
  <2>3. CASE k = m /\ a \in S \cap subscribed
    <3> HIDE DEF k
    <3>1. k \in AckMsgs => <<k, a>> \in acks'
      BY <1>0, <2>3, Delivers
    <3> QED BY <1>0, <2>3, <3>1 DEF InWorkflow, k
  <2> QED BY <1>2, <2>1, <2>2, <2>3
<1>5. AckTracked' /\ TenantIsolation' /\ BroadcastStaysInWorkflow'
  BY <1>0, <1>4 DEF AckTracked, TenantIsolation, BroadcastStaysInWorkflow
<1>6. SenderOrder'
  <2>1. ASSUME NEW a \in Agents, NEW i \in 1..Len(History(a)'), NEW j \in 1..Len(History(a)'), i < j
        PROVE  InOrder(History(a)[i], History(a)[j])'
    <3>0. /\ History(a) \in Seq(Msgs) /\ Len(History(a)) \in Nat
          /\ \A l \in 1..Len(History(a)) :
                 History(a)[l] \in Msgs /\ Published(History(a)[l]) /\ InSeq(History(a), History(a)[l])
      BY <1>0, HistoryHolds, LenProperties, ElementOfSeq DEF Known, InSeq
    <3>1. ASSUME j <= Len(History(a)), i <= Len(History(a)),
                 History(a)'[i] = History(a)[i], History(a)'[j] = History(a)[j]
          PROVE  InOrder(History(a)[i], History(a)[j])'
      <4>1. i \in 1..Len(History(a)) /\ j \in 1..Len(History(a))
        BY <3>0, <3>1
      <4>2. InOrder(History(a)[i], History(a)[j])
        BY <1>0, <2>1, <4>1, OrderOfHistory
      <4> QED BY <3>0, <3>1, <4>1, <4>2 DEF InOrder
    <3>2. CASE a \notin S \cap subscribed
      <4>1. History(a)' = History(a)
        BY <1>0, <1>1, <3>2, DeliveryHistory
      <4> QED BY <3>0, <3>1, <4>1
    <3>3. CASE a \in S \cap subscribed
      <4>1. /\ History(a)' = Append(History(a), m) /\ ~InSeq(History(a), m)
        BY <1>0, <1>1, <3>3, DeliveryHistory
      <4>2. /\ Len(History(a)') = Len(History(a)) + 1 /\ History(a)'[Len(History(a)) + 1] = m
            /\ \A l \in 1..Len(History(a)) : History(a)'[l] = History(a)[l]
        BY <3>0, <4>1, AppendProperties
      <4>3. i \in 1..Len(History(a))
        BY <2>1, <3>0, <4>2
      <4>4. CASE j \in 1..Len(History(a))
        BY <3>0, <3>1, <4>2, <4>3, <4>4
      <4>5. CASE j = Len(History(a)) + 1
        BY <3>0, <4>1, <4>2, <4>3, <4>5 DEF InOrder
      <4> QED BY <3>0, <4>2, <4>4, <4>5
    <3> QED BY <3>2, <3>3
  <2> QED BY <2>1 DEF SenderOrder, History, InOrder
<1> QED BY <1>5, <1>6

\* Histories that only lose what waits at their end.
LEMMA HistoriesShrink ==
    ASSUME TypeOK, Known, SenderOrder, UNCHANGED <<mail, sent>>,
           \A a \in Agents : History(a)' = History(a) \/ History(a)' = got[a]
    PROVE  /\ Known' /\ SenderOrder'
           /\ \A a \in Agents : \A x : InSeq(History(a), x)' => InSeq(History(a), x)
<1>1. ASSUME NEW a \in Agents
      PROVE  /\ \A i \in 1..Len(History(a)') : /\ i \in 1..Len(History(a))
                                               /\ History(a)'[i] = History(a)[i]
             /\ Len(History(a)') \in Nat
  <2>1. got[a] \in Seq(Msgs) /\ box[a] \in Seq(Msgs)
    BY HistoryHolds
  <2>2. /\ Len(got[a]) \in Nat /\ Len(History(a)) \in Nat /\ Len(got[a]) <= Len(History(a))
        /\ \A i \in 1..Len(got[a]) : History(a)[i] = got[a][i]
    <3>1. \A s, t \in Seq(Msgs) :
              /\ Len(s) \in Nat /\ Len(s \o t) \in Nat /\ Len(s) <= Len(s \o t)
              /\ \A i \in 1..Len(s) : (s \o t)[i] = s[i]
      BY ConcatProperties, LenProperties
    <3> QED BY <2>1, <3>1 DEF History
  <2> DEFINE h == History(a)
  <2> HIDE DEF h
  <2>3. CASE History(a)' = History(a)
    <3>1. h' = h
      BY <2>3 DEF h
    <3>2. Len(h) \in Nat
      BY <2>2 DEF h
    <3>3. (\A i \in 1..Len(h') : i \in 1..Len(h) /\ h'[i] = h[i]) /\ Len(h') \in Nat
      BY <3>1, <3>2
    <3> QED BY <3>3 DEF h
  <2>4. CASE History(a)' = got[a]
    <3>1. h' = got[a]
      BY <2>4 DEF h
    <3>2. /\ Len(got[a]) \in Nat /\ Len(h) \in Nat /\ Len(got[a]) <= Len(h)
          /\ \A i \in 1..Len(got[a]) : h[i] = got[a][i]
      BY <2>2 DEF h
    <3>3. (\A i \in 1..Len(h') : i \in 1..Len(h) /\ h'[i] = h[i]) /\ Len(h') \in Nat
      BY <3>1, <3>2
    <3> QED BY <3>3 DEF h
  <2> QED BY <2>3, <2>4
<1>2. Known'
  BY <1>1 DEF Known, Published
<1>3. ASSUME NEW a \in Agents, NEW i \in 1..Len(History(a)'), NEW j \in 1..Len(History(a)'), i < j
      PROVE  InOrder(History(a)[i], History(a)[j])'
  <2>1. InOrder(History(a)[i], History(a)[j])
    BY <1>1, <1>3, OrderOfHistory
  <2> QED BY <1>1, <2>1 DEF InOrder, Rank
<1>4. SenderOrder'
  BY <1>3 DEF SenderOrder, History, InOrder
<1> QED BY <1>1, <1>2, <1>4 DEF InSeq

\* What holds of a message an agent has still to get when histories shrink
\* and no new message comes.
LEMMA AwaitedKept ==
    ASSUME Awaited, UNCHANGED <<mail, sent, todo>>,
           \A m \in Msgs : left[m] \subseteq left'[m],
           \A m \in Msgs, a \in Agents : a \in todo[m] => subs[a] \subseteq subs'[a] \/ a \in left'[m],
           TypeOK,
           \A a \in Agents : \A x : InSeq(History(a), x)' => InSeq(History(a), x)
    PROVE  Awaited'
<1>1. ASSUME NEW m \in Msgs, todo'[m] # {}
      PROVE  /\ Published(m)'
             /\ \A k \in Msgs : Published(k)' /\ mail'[k].from = mail'[m].from /\ k # m
                                  => Rank(k)' < Rank(m)'
  BY <1>1 DEF Awaited, Published, Rank
<1>2. ASSUME NEW m \in Msgs, NEW a \in todo'[m]
      PROVE  TenantOf[a] = mail'[m].tenant /\ InWorkflow(m, a)' /\ ~InSeq(History(a), m)'
  <2>1. a \in Agents /\ a \in todo[m] /\ mail' = mail
    BY DEF TypeOK
  <2>2. TenantOf[a] = mail[m].tenant /\ InWorkflow(m, a) /\ ~InSeq(History(a), m)
    BY <2>1 DEF Awaited
  <2>3. InWorkflow(m, a)'
    BY <2>1, <2>2 DEF InWorkflow
  <2> QED BY <2>1, <2>2, <2>3
<1> QED BY <1>1, <1>2 DEF Awaited
-----------------------------------------------------------------------------
(* Registration keeps the broker's invariant *)

\* subscribe, create_workflow and on_message touch no queue.
LEMMA QueuesAlone ==
    ASSUME IInv, UNCHANGED <<box, got, acks, mail, todo, left, sent>>,
           TypeOK', MembershipAgrees', Seated', \A a \in Agents : subs[a] \subseteq subs'[a]
    PROVE  IInv'
<1>0. /\ TypeOK /\ SenderOrder /\ AckTracked /\ TenantIsolation /\ BroadcastStaysInWorkflow
      /\ Seated /\ SentOnce /\ Known /\ Awaited
  BY DEF IInv, BrokerSound
<1>1. \A a \in Agents : History(a)' = History(a)
  BY DEF History
<1>2. /\ Known' /\ SenderOrder'
      /\ \A a \in Agents : \A x : InSeq(History(a), x)' => InSeq(History(a), x)
  BY <1>0, <1>1, HistoriesShrink
<1>3. SentOnce' /\ AckTracked' /\ TenantIsolation' /\ BroadcastStaysInWorkflow'
  BY <1>0 DEF SentOnce, Published, InSeq, AckTracked, TenantIsolation, BroadcastStaysInWorkflow
<1>4. Awaited'
  BY <1>0, <1>2, AwaitedKept
<1> QED BY <1>2, <1>3, <1>4 DEF IInv, BrokerSound

\* The tables after a subscription, for any tenant.
LEMMA TablesSubscribe ==
    ASSUME TypeOK, MembershipAgrees, NEW a \in Agents, NEW w \in Workflows \cup {None},
           NEW n \in Tenants, DoSubscribe(a, w, n), UNCHANGED <<pubVars, got>>
    PROVE  TypeOK' /\ MembershipAgrees'
<1>1. TypeOK'
  BY DEF DoSubscribe, pubVars, TypeOK
<1>2. MembershipAgrees'
  BY BusAssumption DEF DoSubscribe, pubVars, TypeOK, MembershipAgrees
<1> QED BY <1>1, <1>2

\* ... and after an agent has left, or all have.
LEMMA TablesLeave ==
    ASSUME TypeOK, MembershipAgrees, NEW a, (a \in Agents /\ DoUnsubscribe(a)) \/ DoClose,
           UNCHANGED <<mail, todo, sent, got>>, left' \in [Msgs -> SUBSET Agents]
    PROVE  TypeOK' /\ MembershipAgrees'
<1>0. <<>> \in Seq(Msgs)
  BY EmptySeq
<1>1. CASE a \in Agents /\ DoUnsubscribe(a)
  <2>1. TypeOK'
    BY <1>0, <1>1, BusAssumption DEF DoUnsubscribe, TypeOK
  <2>2. MembershipAgrees'
    BY <1>1 DEF DoUnsubscribe, TypeOK, MembershipAgrees
  <2> QED BY <2>1, <2>2
<1>2. CASE DoClose
  <2>1. TypeOK'
    BY <1>0, <1>2, BusAssumption DEF DoClose, TypeOK
  <2>2. MembershipAgrees'
    BY <1>2 DEF DoClose, MembershipAgrees
  <2> QED BY <2>1, <2>2
<1> QED BY <1>1, <1>2

\* subscribe(): a queue, perhaps a workflow and its tenant.
LEMMA SubscribeKeeps ==
    ASSUME IInv, NEW a \in Agents, NEW w \in Workflows \cup {None}, Subscribe(a, w)
    PROVE  IInv'
<1>0. TypeOK /\ MembershipAgrees /\ Seated
  BY DEF IInv, BrokerSound
<1>1. TypeOK' /\ MembershipAgrees'
  <2>1. TenantOf[a] \in Tenants /\ DoSubscribe(a, w, TenantOf[a]) /\ UNCHANGED <<pubVars, got>>
    BY BusAssumption DEF Subscribe
  <2> QED BY <1>0, <2>1, TablesSubscribe
<1>3. Seated'
  BY <1>0, BusAssumption DEF Subscribe, DoSubscribe, pubVars, TypeOK, Seated, Workflows
<1>4. \A b \in Agents : subs[b] \subseteq subs'[b]
  BY <1>0 DEF Subscribe, DoSubscribe, TypeOK
<1> QED BY <1>1, <1>3, <1>4, QueuesAlone DEF Subscribe, DoSubscribe, pubVars

\* create_workflow() touches the counter and the member table.
LEMMA CreateWorkflowKeeps == ASSUME IInv, CreateWorkflow PROVE IInv'
<1>0. TypeOK /\ MembershipAgrees /\ Seated
  BY DEF IInv, BrokerSound
<1>1. counter + 1 \in Workflows /\ counter' = counter + 1 /\ counter \in Nat
  BY <1>0, BusAssumption DEF CreateWorkflow, TypeOK, Workflows
<1>2. members[counter + 1] = {}
  BY <1>0, <1>1 DEF Seated, Workflows
<1>3. members' = members
  BY <1>0, <1>1, <1>2 DEF CreateWorkflow, TypeOK
<1>4. TypeOK'
  <2>1. counter' \in 0..MaxWorkflows
    BY <1>1 DEF Workflows
  <2> QED BY <1>0, <1>3, <2>1 DEF CreateWorkflow, pubVars, TypeOK
<1>5. MembershipAgrees'
  BY <1>0, <1>3 DEF CreateWorkflow, MembershipAgrees
<1>6. Seated'
  BY <1>0, <1>1, <1>3 DEF CreateWorkflow, Seated, Workflows
<1> QED BY <1>4, <1>5, <1>6, QueuesAlone DEF CreateWorkflow, pubVars

\* on_message() registers a callback.
LEMMA OnMessageKeeps == ASSUME IInv, NEW a \in Agents, OnMessage(a) PROVE IInv'
<1>0. TypeOK /\ MembershipAgrees /\ Seated
  BY DEF IInv, BrokerSound
<1>1. TypeOK'
  BY <1>0 DEF OnMessage, pubVars, TypeOK
<1>2. MembershipAgrees' /\ Seated'
  BY <1>0 DEF OnMessage, MembershipAgrees, Seated
<1> QED BY <1>1, <1>2, QueuesAlone DEF OnMessage, pubVars

\* Agents leave: unsubscribe one, close all.
LEMMA LeavingKeeps ==
    ASSUME IInv, NEW A \in SUBSET Agents, Leave(A), UNCHANGED <<mail, todo, sent, got, counter>>,
           TypeOK', subscribed' = subscribed \ A,
           members' = [w \in Workflows |-> members[w] \ A],
           \A a \in Agents : /\ a \in A => /\ box'[a] = <<>> /\ subs'[a] = {}
                                           /\ tenant'[a] = Default
                             /\ a \notin A => /\ box'[a] = box[a] /\ subs'[a] = subs[a]
                                              /\ tenant'[a] = tenant[a]
                                              /\ \A m \in Msgs : <<m, a>> \in acks
                                                                   => <<m, a>> \in acks'
    PROVE  IInv'
<1>0. /\ TypeOK /\ MembershipAgrees /\ SenderOrder /\ AckTracked /\ TenantIsolation
      /\ BroadcastStaysInWorkflow /\ Seated /\ SentOnce /\ Known /\ Awaited
  BY DEF IInv, BrokerSound
<1>1. \A a \in Agents : History(a)' = History(a) \/ History(a)' = got[a]
  <2>1. \A s \in Seq(Msgs) : s \o <<>> = s
    BY ConcatEmptySeq
  <2> QED BY <1>0, <2>1, HistoryHolds DEF History
<1>2. /\ Known' /\ SenderOrder'
      /\ \A a \in Agents : \A x : InSeq(History(a), x)' => InSeq(History(a), x)
  BY <1>0, <1>1, HistoriesShrink
<1>3. /\ \A m \in Msgs : left'[m] = left[m] \cup (A \cap todo[m])
      /\ \A a \in A : Len(box'[a]) = 0
  BY EmptySeq DEF Leave
<1>4. MembershipAgrees' /\ Seated'
  BY <1>0 DEF MembershipAgrees, Seated, TypeOK
<1>5. SentOnce' /\ AckTracked' /\ TenantIsolation'
  <2>1. \A a \in A : \A i \in 1..Len(box'[a]) : FALSE
    BY <1>3
  <2>2. ASSUME NEW a \in Agents, NEW i \in 1..Len(box[a]) PROVE box[a][i] \in Msgs
    BY <1>0, ElementOfSeq DEF TypeOK
  <2>3. SentOnce' /\ TenantIsolation'
    BY <1>0, <2>1 DEF SentOnce, Published, TenantIsolation
  <2>4. AckTracked'
    BY <1>0, <2>1, <2>2 DEF AckTracked
  <2> QED BY <2>3, <2>4
<1>6. BroadcastStaysInWorkflow'
  <2>1. ASSUME NEW a \in Agents, NEW i \in 1..Len(box'[a]), a \notin A
        PROVE  LET m == box'[a][i] IN
               mail'[m].to = None /\ mail'[m].wf # None
                  => mail'[m].wf \in subs'[a] \/ a \in left'[m]
    <3>1. box[a][i] \in Msgs /\ box'[a][i] = box[a][i] /\ i \in 1..Len(box[a])
      BY <1>0, <2>1, ElementOfSeq DEF TypeOK
    <3> QED BY <1>0, <1>3, <2>1, <3>1 DEF BroadcastStaysInWorkflow
  <2> QED BY <1>3, <2>1 DEF BroadcastStaysInWorkflow
<1>7. Awaited'
  BY <1>0, <1>2, <1>3, AwaitedKept
<1> QED BY <1>2, <1>4, <1>5, <1>6, <1>7 DEF IInv, BrokerSound

\* unsubscribe() drops the queue with what is in it.
LEMMA UnsubscribeKeeps == ASSUME IInv, NEW a \in Agents, Unsubscribe(a) PROVE IInv'
<1>0. TypeOK /\ MembershipAgrees
  BY DEF IInv, BrokerSound
<1>1. TypeOK'
  <2>1. left' \in [Msgs -> SUBSET Agents]
    BY <1>0 DEF Unsubscribe, Leave, TypeOK
  <2> QED BY <1>0, <2>1, TablesLeave DEF Unsubscribe
<1>2. \A b \in Agents :
         /\ b \in {a} => box'[b] = <<>> /\ subs'[b] = {} /\ tenant'[b] = Default
         /\ b \notin {a} => box'[b] = box[b] /\ subs'[b] = subs[b] /\ tenant'[b] = tenant[b]
  BY <1>0 DEF Unsubscribe, DoUnsubscribe, TypeOK
<1> QED BY <1>1, <1>2, LeavingKeeps DEF Unsubscribe, DoUnsubscribe

\* close() drops everything.
LEMMA CloseKeeps == ASSUME IInv, Close PROVE IInv'
<1>0. TypeOK /\ MembershipAgrees
  BY DEF IInv, BrokerSound
<1>1. TypeOK'
  <2>1. left' \in [Msgs -> SUBSET Agents] /\ DoClose /\ UNCHANGED <<mail, todo, sent, got>>
    BY <1>0 DEF Close, Leave, TypeOK
  <2>2. PICK a \in Agents : TRUE
    BY <1>0 DEF Close, TypeOK
  <2> QED BY <1>0, <2>1, <2>2, TablesLeave
<1>2. /\ subscribed' = subscribed \ Agents
      /\ members' = [w \in Workflows |-> members[w] \ Agents]
  BY <1>0 DEF Close, DoClose, TypeOK
<1>3. \A b \in Agents : box'[b] = <<>> /\ subs'[b] = {} /\ tenant'[b] = Default
  BY DEF Close, DoClose
<1> QED BY <1>1, <1>2, <1>3, LeavingKeeps DEF Close, DoClose
-----------------------------------------------------------------------------
(* Receiving keeps the broker's invariant *)

\* Queues that only shrink, acknowledgements that go only with their message.
LEMMA QueuesShrink ==
    ASSUME TypeOK, AckTracked, TenantIsolation, BroadcastStaysInWorkflow,
           UNCHANGED <<mail, subs, left>>,
           \A a \in Agents : \A x : InSeq(box'[a], x) =>
              InSeq(box[a], x) /\ (<<x, a>> \in acks => <<x, a>> \in acks')
    PROVE  AckTracked' /\ TenantIsolation' /\ BroadcastStaysInWorkflow'
<1>1. ASSUME NEW a \in Agents, NEW i \in 1..Len(box'[a])
      PROVE  \E j \in 1..Len(box[a]) :
                /\ box[a][j] = box'[a][i]
                /\ <<box[a][j], a>> \in acks => <<box[a][j], a>> \in acks'
  BY DEF InSeq
<1>2. AckTracked'
  BY <1>1 DEF AckTracked
<1>3. TenantIsolation' /\ BroadcastStaysInWorkflow'
  <2>1. ASSUME NEW a \in Agents, NEW i \in 1..Len(box'[a])
        PROVE  LET m == box'[a][i] IN
               /\ mail[m].tenant = TenantOf[a]
               /\ mail[m].to = None /\ mail[m].wf # None => mail[m].wf \in subs[a] \/ a \in left[m]
    <3>1. PICK j \in 1..Len(box[a]) : box[a][j] = box'[a][i]
      BY <1>1
    <3>2. mail[box[a][j]].tenant = TenantOf[a]
      BY DEF TenantIsolation
    <3>3. mail[box[a][j]].to = None /\ mail[box[a][j]].wf # None
             => mail[box[a][j]].wf \in subs[a] \/ a \in left[box[a][j]]
      BY DEF BroadcastStaysInWorkflow
    <3> QED BY <3>1, <3>2, <3>3
  <2> QED BY <2>1 DEF TenantIsolation, BroadcastStaysInWorkflow
<1> QED BY <1>2, <1>3

\* A step of a receiver.
LEMMA ReceiptKeeps ==
    ASSUME IInv, TypeOK', UNCHANGED <<subscribed, subs, members, tenant, counter, pubVars>>,
           \A a \in Agents : History(a)' = History(a),
           \A a \in Agents : \A x : InSeq(box'[a], x) =>
              InSeq(box[a], x) /\ (<<x, a>> \in acks => <<x, a>> \in acks' \/ InSeq(got'[a], x))
    PROVE  IInv'
<1>0. /\ TypeOK /\ MembershipAgrees /\ SenderOrder /\ AckTracked /\ TenantIsolation
      /\ BroadcastStaysInWorkflow /\ Seated /\ SentOnce /\ Known /\ Awaited
      /\ UNCHANGED <<mail, todo, left, sent>>
  BY DEF IInv, BrokerSound, pubVars
<1>1. /\ Known' /\ SenderOrder'
      /\ \A a \in Agents : \A x : InSeq(History(a), x)' => InSeq(History(a), x)
  BY <1>0, HistoriesShrink
<1>2. \A a \in Agents : \A x : InSeq(box'[a], x) => ~InSeq(got'[a], x)
  <2>1. ASSUME NEW a \in Agents, NEW x, InSeq(box'[a], x), InSeq(got'[a], x) PROVE FALSE
    <3>1. got'[a] \in Seq(Msgs) /\ box'[a] \in Seq(Msgs)
      BY DEF TypeOK
    <3>2. \A i, j \in 1..Len(got'[a] \o box'[a]) :
              i < j => (got'[a] \o box'[a])[i] # (got'[a] \o box'[a])[j]
      BY <1>1 DEF SenderOrder
    <3> DEFINE g == got'[a]
               b == box'[a]
    <3> HIDE DEF g, b
    <3>3. /\ g \in Seq(Msgs) /\ b \in Seq(Msgs) /\ InSeq(g, x) /\ InSeq(b, x)
          /\ \A i, j \in 1..Len(g \o b) : i < j => (g \o b)[i] # (g \o b)[j]
      BY <2>1, <3>1, <3>2 DEF g, b
    <3> QED BY <3>3, ConcatDistinct
  <2> QED BY <2>1
<1>3. AckTracked' /\ TenantIsolation' /\ BroadcastStaysInWorkflow'
  BY <1>0, <1>2, QueuesShrink
<1>4. MembershipAgrees'
  <2>1. ASSUME NEW a \in Agents, box[a] = <<>> PROVE box'[a] = <<>>
    <3>1. /\ box[a] \in Seq(Msgs) /\ box'[a] \in Seq(Msgs) /\ Len(box[a]) = 0
          /\ \A s \in Seq(Msgs) : s # <<>> => Len(s) \in Nat \ {0}
      BY <1>0, <2>1, EmptySeq DEF TypeOK
    <3>2. ASSUME box'[a] # <<>> PROVE FALSE
      <4>1. 1 \in 1..Len(box'[a])
        BY <3>1, <3>2
      <4>2. InSeq(box'[a], box'[a][1])
        BY <4>1 DEF InSeq
      <4>3. InSeq(box[a], box'[a][1])
        BY <4>2
      <4> QED BY <3>1, <4>3 DEF InSeq
    <3> QED BY <3>2
  <2> QED BY <1>0, <2>1 DEF MembershipAgrees
<1>5. Seated' /\ SentOnce'
  BY <1>0 DEF Seated, SentOnce, Published
<1>6. Awaited'
  BY <1>0, <1>1, AwaitedKept
<1> QED BY <1>1, <1>3, <1>4, <1>5, <1>6 DEF IInv, BrokerSound

\* wait_for_message() takes the first message.
LEMMA WaitKeeps == ASSUME IInv, NEW a \in Agents, WaitForMessage(a) PROVE IInv'
<1>0. /\ TypeOK /\ box \in [Agents -> Seq(Msgs)] /\ got \in [Agents -> Seq(Msgs)]
      /\ acks \subseteq Msgs \X Agents /\ box[a] # <<>>
  BY DEF IInv, BrokerSound, TypeOK, WaitForMessage, TakeFirst
<1>1. /\ box' = [box EXCEPT ![a] = Tail(box[a])]
      /\ got' = [got EXCEPT ![a] = Append(got[a], Head(box[a]))]
      /\ acks' = acks \ {<<Head(box[a]), a>>}
      /\ UNCHANGED <<subscribed, subs, members, tenant, counter, observed, pubVars>>
  BY DEF WaitForMessage, TakeFirst
<1>2. \A s \in Seq(Msgs) : s # <<>> =>
         /\ InSeq(s, Head(s)) /\ Head(s) \in Msgs /\ Tail(s) \in Seq(Msgs)
         /\ \A x : InSeq(Tail(s), x) => InSeq(s, x)
         /\ \A g \in Seq(Msgs) : /\ Append(g, Head(s)) \o Tail(s) = g \o s
                                 /\ Append(g, Head(s)) \in Seq(Msgs)
                                 /\ InSeq(Append(g, Head(s)), Head(s))
  BY HeadHolds, TakeKeeps, AppendHolds, AppendProperties
<1>3. TypeOK'
  BY <1>0, <1>1, <1>2 DEF TypeOK, pubVars
<1>4. \A b \in Agents : History(b)' = History(b)
  BY <1>0, <1>1, <1>2 DEF History
<1>5. ASSUME NEW b \in Agents, NEW x, InSeq(box'[b], x)
      PROVE  InSeq(box[b], x) /\ (<<x, b>> \in acks => <<x, b>> \in acks' \/ InSeq(got'[b], x))
  <2>1. CASE b = a
    <3>1. box'[a] = Tail(box[a]) /\ got'[a] = Append(got[a], Head(box[a]))
      BY <1>0, <1>1
    <3>2. InSeq(box[a], x) /\ InSeq(got'[a], Head(box[a]))
      BY <1>0, <1>2, <1>5, <2>1, <3>1
    <3> QED BY <1>1, <2>1, <3>2
  <2>2. CASE b # a
    BY <1>0, <1>1, <1>5, <2>2
  <2> QED BY <2>1, <2>2
<1> QED BY <1>1, <1>3, <1>4, <1>5, ReceiptKeeps

\* pending_messages() takes all of them.
LEMMA PendingKeeps == ASSUME IInv, NEW a \in Agents, PendingMessages(a) PROVE IInv'
<1>0. /\ TypeOK /\ box \in [Agents -> Seq(Msgs)] /\ got \in [Agents -> Seq(Msgs)]
  BY DEF IInv, BrokerSound, TypeOK
<1>1. /\ box' = [box EXCEPT ![a] = <<>>] /\ got' = [got EXCEPT ![a] = got[a] \o box[a]]
      /\ UNCHANGED <<subscribed, subs, members, tenant, counter, observed, acks, pubVars>>
  BY DEF PendingMessages
<1>2. /\ <<>> \in Seq(Msgs) /\ Len(<<>>) = 0
      /\ \A s, t \in Seq(Msgs) : s \o t \in Seq(Msgs) /\ s \o <<>> = s
  BY EmptySeq, ConcatProperties, ConcatEmptySeq
<1>3. TypeOK'
  BY <1>0, <1>1, <1>2 DEF TypeOK, pubVars
<1>4. \A b \in Agents : History(b)' = History(b)
  BY <1>0, <1>1, <1>2 DEF History
<1>5. ASSUME NEW b \in Agents, NEW x, InSeq(box'[b], x)
      PROVE  InSeq(box[b], x) /\ (<<x, b>> \in acks => <<x, b>> \in acks')
  BY <1>0, <1>1, <1>2, <1>5 DEF InSeq
<1> QED BY <1>1, <1>3, <1>4, <1>5, ReceiptKeeps

\* ack_message() takes one off the pending.
LEMMA AckKeeps ==
    ASSUME IInv, NEW a \in Agents, NEW m \in Msgs, AckMessage(a, m)
    PROVE  IInv'
<1>0. TypeOK
  BY DEF IInv, BrokerSound
<1>1. /\ acks' = acks \ {<<m, a>>} /\ InSeq(got'[a], m)
      /\ UNCHANGED <<subscribed, subs, members, tenant, counter, observed, box, pubVars, got>>
  BY DEF AckMessage
<1>2. TypeOK'
  BY <1>0, <1>1 DEF TypeOK, pubVars
<1>3. \A b \in Agents : History(b)' = History(b)
  BY <1>1 DEF History
<1> QED BY <1>1, <1>2, <1>3, ReceiptKeeps
-----------------------------------------------------------------------------
(* Publishing keeps the broker's invariant *)

\* publish(), up to the first callback it awaits.
LEMMA PublishKeeps ==
    ASSUME IInv, NEW m \in Msgs, NEW from \in Senders, NEW to \in Agents \cup {None},
           NEW w \in Workflows \cup {None}, NEW n \in Tenants, Publish(m, from, to, w, n)
    PROVE  IInv'
<1> DEFINE msg == [from |-> from, to |-> to, wf |-> w, tenant |-> n]
           targets == ResolveTargets(msg)
<1>0. /\ BrokerSound /\ TypeOK /\ MembershipAgrees /\ Seated /\ SentOnce /\ Known /\ Awaited
  BY DEF IInv, BrokerSound
<1>1. msg \in Envelopes /\ msg.from = from /\ msg.to = to /\ msg.wf = w /\ msg.tenant = n
  BY BusAssumption DEF Envelopes
<1> HIDE DEF msg
<1>2. /\ ~Published(m) /\ SenderFree(from) /\ DoPublish(m, msg) /\ UNCHANGED got
  BY DEF Publish, Published, msg
<1>3. PICK S \in Stretches(targets) :
         /\ mail' = [mail EXCEPT ![m] = msg] /\ sent' = Append(sent, m)
         /\ Deliver(m, S) /\ todo' = [todo EXCEPT ![m] = targets \ S] /\ UNCHANGED left
  BY <1>2 DEF DoPublish
<1>4. /\ targets \subseteq Agents /\ \A a \in targets : tenant[a] = n
      /\ \A a \in targets : to # None => a = to
      /\ \A a \in targets : to = None => a \in subscribed
      /\ \A a \in targets : to = None /\ w # None => w \in subs[a]
  BY <1>0, <1>1 DEF ResolveTargets, Candidates, TypeOK, MembershipAgrees
<1>5. /\ S \in SUBSET Agents /\ S \subseteq targets
      /\ targets \ S # {} => to = None
  <2>1. S \subseteq targets /\ \A x : targets \subseteq {x} => targets \ S = {}
    BY StretchesServe
  <2>2. to # None => targets \subseteq {to}
    BY <1>4
  <2> QED BY <1>4, <2>1, <2>2
<1>6. /\ SentOnce' /\ sent' \in Seq(Msgs)
      /\ \A k \in Msgs : Published(k) => mail'[k] = mail[k] /\ Rank(k)' = Rank(k) /\ Rank(k) < Rank(m)'
      /\ \A k \in Msgs : Published(k)' => Published(k) \/ k = m
      /\ mail'[m] = msg /\ Published(m)'
  BY <1>0, <1>1, <1>2, <1>3, PublishedLast
<1>7. \A a \in Agents : ~InSeq(History(a), m)
  BY <1>0, <1>2 DEF Known, InSeq
<1>8. \A a \in targets \cap subscribed : TenantOf[a] = mail'[m].tenant /\ InWorkflow(m, a)'
  <2>1. UNCHANGED subs
    BY <1>3 DEF Deliver
  <2> QED BY <1>0, <1>1, <1>4, <1>6, <2>1 DEF Seated, InWorkflow
<1>9. SenderOrder' /\ AckTracked' /\ TenantIsolation' /\ BroadcastStaysInWorkflow'
  BY <1>0, <1>2, <1>3, <1>5, <1>6, <1>7, <1>8, DeliveryKeeps
<1>10. /\ Known'
       /\ \A a \in Agents : \A x : InSeq(History(a), x)' => InSeq(History(a), x)
                                         \/ (x = m /\ a \in S \cap subscribed)
  <2>1. \A k \in Msgs : Published(k) => Published(k)'
    BY <1>6 DEF Published
  <2> QED BY <1>0, <1>2, <1>3, <1>5, <1>6, <2>1, DeliveryHistory
<1>11. TypeOK'
  <2>1. /\ box' \in [Agents -> Seq(Msgs)] /\ acks' \subseteq Msgs \X Agents
        /\ UNCHANGED <<subscribed, subs, members, tenant, counter, observed>>
    BY <1>0, <1>3, <1>5, Delivers
  <2> QED BY <1>0, <1>1, <1>2, <1>3, <1>4, <1>6, <2>1 DEF TypeOK
<1>12. MembershipAgrees' /\ Seated'
  <2>1. \A a \in Agents : a \notin subscribed => box'[a] = box[a]
    BY <1>0, <1>3, <1>5, Delivers
  <2> QED BY <1>0, <1>3, <2>1 DEF MembershipAgrees, Seated, Deliver
<1>13. Awaited'
  <2>1. ASSUME NEW k \in Msgs, k # m, todo'[k] # {}
        PROVE  /\ todo'[k] = todo[k] /\ todo[k] # {} /\ Published(k) /\ mail'[k] = mail[k]
               /\ mail[k].from # from
    BY <1>0, <1>2, <1>3, <1>6, <2>1 DEF TypeOK, Awaited, SenderFree, Published
  <2>2. ASSUME NEW k \in Msgs, k # m, todo'[k] # {}
        PROVE  /\ Published(k)'
               /\ \A a \in todo'[k] : /\ TenantOf[a] = mail'[k].tenant
                                      /\ InWorkflow(k, a)' /\ ~InSeq(History(a), k)'
               /\ \A l \in Msgs : Published(l)' /\ mail'[l].from = mail'[k].from /\ l # k
                                     => Rank(l)' < Rank(k)'
    <3>0. todo'[k] = todo[k] /\ todo[k] # {} /\ Published(k) /\ mail'[k] = mail[k]
          /\ mail[k].from # from
      BY <2>1, <2>2
    <3>1. Published(k)'
      BY <3>0 DEF Published
    <3>2. ASSUME NEW a \in todo'[k]
          PROVE  TenantOf[a] = mail'[k].tenant /\ InWorkflow(k, a)' /\ ~InSeq(History(a), k)'
      <4>1. a \in todo[k] /\ a \in Agents
        BY <1>0, <3>0 DEF TypeOK
      <4>2. TenantOf[a] = mail[k].tenant /\ InWorkflow(k, a) /\ ~InSeq(History(a), k)
        BY <1>0, <4>1 DEF Awaited
      <4>3. UNCHANGED <<subs, left>>
        BY <1>3 DEF Deliver
      <4> QED BY <1>10, <2>2, <3>0, <4>1, <4>2, <4>3 DEF InWorkflow
    <3>3. ASSUME NEW l \in Msgs, Published(l)', mail'[l].from = mail'[k].from, l # k
          PROVE  Rank(l)' < Rank(k)'
      <4>1. l # m
        BY <1>1, <1>6, <3>0, <3>3
      <4>2. Published(l) /\ mail'[l] = mail[l]
        BY <1>6, <3>3, <4>1
      <4> QED BY <1>0, <1>6, <3>0, <3>3, <4>2 DEF Awaited
    <3> QED BY <3>1, <3>2, <3>3
  <2>3. ASSUME todo'[m] # {}
        PROVE  /\ Published(m)'
               /\ \A a \in todo'[m] : /\ TenantOf[a] = mail'[m].tenant
                                      /\ InWorkflow(m, a)' /\ ~InSeq(History(a), m)'
               /\ \A l \in Msgs : Published(l)' /\ mail'[l].from = mail'[m].from /\ l # m
                                     => Rank(l)' < Rank(m)'
    <3>1. todo'[m] = targets \ S
      BY <1>0, <1>3 DEF TypeOK
    <3>2. \A a \in todo'[m] : a \in targets \cap subscribed /\ a \notin S /\ a \in Agents
      BY <1>4, <1>5, <2>3, <3>1
    <3>3. \A l \in Msgs : Published(l)' /\ l # m => Rank(l)' < Rank(m)'
      BY <1>6
    <3> QED BY <1>6, <1>7, <1>8, <1>10, <3>2, <3>3
  <2> QED BY <2>2, <2>3 DEF Awaited
<1> QED BY <1>6, <1>9, <1>10, <1>11, <1>12, <1>13 DEF IInv, BrokerSound

\* publish() goes on after a callback.
LEMMA ResumeKeeps == ASSUME IInv, NEW m \in Msgs, ResumePublish(m) PROVE IInv'
<1>0. /\ BrokerSound /\ TypeOK /\ MembershipAgrees /\ Seated /\ SentOnce /\ Known /\ Awaited
  BY DEF IInv, BrokerSound
<1>1. PICK S \in Stretches(todo[m]) :
         /\ Deliver(m, S) /\ todo' = [todo EXCEPT ![m] = todo[m] \ S]
         /\ UNCHANGED <<mail, left, sent, got>>
  BY DEF ResumePublish
<1>2. /\ S \subseteq todo[m] /\ S \in SUBSET Agents /\ todo[m] \subseteq Agents
      /\ \A k \in Msgs : /\ k # m => todo'[k] = todo[k]
                         /\ k = m => todo'[k] = todo[k] \ S
  BY <1>0, <1>1, StretchesServe DEF TypeOK
<1>3. /\ Published(m)' /\ todo[m] # {}
      /\ \A k \in Msgs : (Published(k)' <=> Published(k)) /\ mail'[k] = mail[k] /\ Rank(k)' = Rank(k)
  BY <1>1 DEF ResumePublish, Published, Rank
<1>4. /\ \A a \in todo[m] : /\ TenantOf[a] = mail[m].tenant /\ InWorkflow(m, a)
                            /\ ~InSeq(History(a), m)
      /\ \A k \in Msgs : Published(k) /\ mail[k].from = mail[m].from /\ k # m => Rank(k) < Rank(m)
  BY <1>0, <1>3 DEF Awaited
<1>5. /\ UNCHANGED <<subs, left>>
      /\ \A k \in Msgs, a \in Agents : InWorkflow(k, a)' <=> InWorkflow(k, a)
  BY <1>1 DEF Deliver, InWorkflow
<1>6. SenderOrder' /\ AckTracked' /\ TenantIsolation' /\ BroadcastStaysInWorkflow'
  <2>1. \A a \in S \cap subscribed : /\ TenantOf[a] = mail'[m].tenant /\ InWorkflow(m, a)'
                                     /\ ~InSeq(History(a), m)
    BY <1>2, <1>3, <1>4, <1>5
  <2> QED BY <1>0, <1>1, <1>2, <1>3, <1>4, <2>1, DeliveryKeeps
<1>7. /\ Known'
      /\ \A a \in Agents : \A x : InSeq(History(a), x)' => InSeq(History(a), x)
                                        \/ (x = m /\ a \in S \cap subscribed)
  BY <1>0, <1>1, <1>2, <1>3, DeliveryHistory
<1>8. TypeOK'
  <2>1. /\ box' \in [Agents -> Seq(Msgs)] /\ acks' \subseteq Msgs \X Agents
        /\ UNCHANGED <<subscribed, subs, members, tenant, counter, observed>>
    BY <1>0, <1>1, <1>2, Delivers
  <2> QED BY <1>0, <1>1, <1>2, <2>1 DEF TypeOK
<1>9. MembershipAgrees' /\ Seated' /\ SentOnce'
  <2>1. \A a \in Agents : a \notin subscribed => box'[a] = box[a]
    BY <1>0, <1>1, <1>2, Delivers
  <2> QED BY <1>0, <1>1, <2>1 DEF MembershipAgrees, Seated, SentOnce, Published, Deliver
<1>10. Awaited'
  <2>1. ASSUME NEW k \in Msgs, todo'[k] # {}
        PROVE  /\ Published(k)'
               /\ \A l \in Msgs : Published(l)' /\ mail'[l].from = mail'[k].from /\ l # k
                                     => Rank(l)' < Rank(k)'
    <3>1. todo[k] # {}
      BY <1>2, <2>1
    <3> QED BY <1>0, <1>3, <3>1 DEF Awaited
  <2>2. ASSUME NEW k \in Msgs, NEW a \in todo'[k]
        PROVE  TenantOf[a] = mail'[k].tenant /\ InWorkflow(k, a)' /\ ~InSeq(History(a), k)'
    <3>1. a \in todo[k] /\ a \in Agents /\ (k = m => a \notin S)
      BY <1>0, <1>2 DEF TypeOK
    <3>2. TenantOf[a] = mail[k].tenant /\ InWorkflow(k, a) /\ ~InSeq(History(a), k)
      BY <1>0, <3>1 DEF Awaited
    <3> QED BY <1>3, <1>5, <1>7, <3>1, <3>2
  <2> QED BY <2>1, <2>2 DEF Awaited
<1> QED BY <1>6, <1>7, <1>8, <1>9, <1>10, <1>0 DEF IInv, BrokerSound
-----------------------------------------------------------------------------
(* The broker *)

\* The invariant holds of an empty broker, ...
LEMMA BrokerInit == Init => IInv
<1> SUFFICES ASSUME Init PROVE IInv
  OBVIOUS
<1>0. <<>> \in Seq(Msgs) /\ Len(<<>>) = 0 /\ <<>> \o <<>> = <<>>
  BY EmptySeq, ConcatEmptySeq
<1>1. TypeOK
  BY <1>0, BusAssumption DEF Init, TypeOK
<1>2. \A a \in Agents : Len(box[a]) = 0 /\ Len(History(a)) = 0
  BY <1>0 DEF Init, History
<1>3. MembershipAgrees
  BY DEF Init, MembershipAgrees
<1>4. SenderOrder /\ Known
  <2>1. \A a \in Agents : 1..Len(History(a)) = {}
    BY <1>2
  <2>2. \A a \in Agents : 1..Len(got[a] \o box[a]) = {}
    BY <2>1 DEF History
  <2> QED BY <2>1, <2>2 DEF SenderOrder, Known
<1>5. AckTracked /\ TenantIsolation /\ BroadcastStaysInWorkflow
  BY <1>2 DEF AckTracked, TenantIsolation, BroadcastStaysInWorkflow
<1>6. Seated /\ SentOnce /\ Awaited
  BY <1>0 DEF Init, Seated, SentOnce, Awaited, Published, InSeq
<1> QED BY <1>1, <1>3, <1>4, <1>5, <1>6 DEF IInv, BrokerSound

\* ... when nothing happens, ...
LEMMA BrokerStutter == IInv /\ UNCHANGED vars => IInv'
<1> SUFFICES ASSUME IInv, UNCHANGED vars PROVE IInv'
  OBVIOUS
<1>0. TypeOK /\ MembershipAgrees /\ Seated
  BY DEF IInv, BrokerSound
<1>1. TypeOK' /\ MembershipAgrees' /\ Seated'
  BY <1>0 DEF vars, brokerVars, pubVars, TypeOK, MembershipAgrees, Seated
<1> QED BY <1>1, QueuesAlone DEF vars, brokerVars, pubVars

\* ... and after every step.
LEMMA BrokerNext == IInv /\ [Next]_vars => IInv'
<1> SUFFICES ASSUME IInv, [Next]_vars PROVE IInv'
  OBVIOUS
<1>1. CASE CreateWorkflow \/ Close
  BY <1>1, CreateWorkflowKeeps, CloseKeeps
<1>2. ASSUME NEW a \in Agents, NEW w \in Workflows \cup {None}, Subscribe(a, w) PROVE IInv'
  BY <1>2, SubscribeKeeps
<1>3. ASSUME NEW a \in Agents,
             Unsubscribe(a) \/ OnMessage(a) \/ WaitForMessage(a) \/ PendingMessages(a)
      PROVE  IInv'
  BY <1>3, UnsubscribeKeeps, OnMessageKeeps, WaitKeeps, PendingKeeps
<1>4. ASSUME NEW a \in Agents, NEW m \in Msgs, AckMessage(a, m) PROVE IInv'
  BY <1>4, AckKeeps
<1>5. ASSUME NEW m \in Msgs, NEW from \in Senders, NEW to \in Agents \cup {None},
             NEW w \in Workflows \cup {None}, NEW n \in Tenants, Publish(m, from, to, w, n)
      PROVE  IInv'
  BY <1>5, PublishKeeps
<1>6. ASSUME NEW m \in Msgs, ResumePublish(m) PROVE IInv'
  BY <1>6, ResumeKeeps
<1>7. CASE UNCHANGED vars
  BY <1>7, BrokerStutter
<1> QED BY <1>1, <1>2, <1>3, <1>4, <1>5, <1>6, <1>7 DEF Next

\* However publications are suspended by callbacks and agents join, leave and
\* come back meanwhile: the broker's tables agree, every message is delivered
\* at most once and in its sender's order, tracked until acknowledged, and
\* stays inside its tenant and its workflow.
THEOREM BrokerCorrect == Spec => []BrokerSound
<1>1. IInv => BrokerSound
  BY DEF IInv
<1> QED BY <1>1, BrokerInit, BrokerNext, PTL DEF Spec
-----------------------------------------------------------------------------
(* The server: what connections, tables and queues have to do with each    *)
(* other while none of an agent's connections have overlapped.             *)

Open(c) == conn[c] = "open"

\* Only a connection whose handler runs carries frames or is pushed to.
Handled == \A c \in Conns : c \in wire \/ pushing[c] # "off" => Open(c)

\* Two connections of one agent are an overlap.
Single ==
    \A c, d \in Conns : Open(c) /\ Open(d) /\ AgentOf[c] = AgentOf[d] /\ c # d
                            => AgentOf[c] \in overlapped

\* An agent is registered only while it has a connection.
Registered ==
    \A a \in Agents : /\ a \in subscribed \/ srvTenant[a] # Default => StillOpen(a)
                      /\ tenant[a] \in {Default, TenantOf[a]}
                      /\ srvTenant[a] \in {Default, TenantOf[a]}

Served ==
    \A c \in Conns : Open(c) =>
        LET a == AgentOf[c] IN
        \/ a \in overlapped
        \/ /\ srvTenant[a] = TenantOf[a]
           /\ phase = "up" => a \in subscribed /\ connections[a] = c

\* stop(), from the closed listener on.
Shut ==
    /\ phase \in {"waiting", "stopped"} =>
          wire = {} /\ \A a \in Agents : connections[a] = None
    /\ phase = "stopped" =>
          subscribed = {} /\ acks = {} /\ \A c \in Conns : ~Open(c)

\* Publications are not suspended, and carry their sender's tenant.
Quiet ==
    /\ observed = {} /\ \A m \in Msgs : todo[m] = {}
    /\ \A m \in Msgs : Published(m) => \/ mail[m].tenant = TenantOf[mail[m].from]
                                       \/ mail[m].from \in overlapped

\* What agents get has been published.
Forth == \A a \in Agents, m \in Msgs : InSeq(got[a], m) \/ InSeq(box[a], m) => Published(m)

\* SameTenant, message by message.
Queued ==
    \A a \in Agents, m \in Msgs : tenant[a] = TenantOf[a] /\ InSeq(box[a], m) =>
        TenantOf[mail[m].from] = TenantOf[a] \/ {a, mail[m].from} \cap overlapped # {}

\* What has been taken from the queue is on its way, or its link is down.
Forwarded ==
    \A a \in Agents, m \in Msgs : InSeq(got[a], m) =>
        \/ InSeq(arrived[a], m)
        \/ \E c \in Conns : AgentOf[c] = a /\ pushing[c] = m
        \/ \E c \in Conns \ wire : AgentOf[c] = a /\ conn[c] # "new"

ServerInv ==
    /\ ServerTypeOK /\ MembershipAgrees /\ Forth
    /\ Handled /\ Single /\ Registered /\ Served /\ Shut
    /\ Quiet /\ Queued /\ Forwarded /\ LoopRuns

\* A step that leaves the broker and the overlaps alone.
LEMMA BrokerAlone ==
    ASSUME ServerInv, UNCHANGED <<vars, overlapped>>
    PROVE  TypeOK' /\ MembershipAgrees' /\ Forth' /\ Quiet' /\ Queued'
<1>1. UNCHANGED <<subscribed, subs, members, tenant, counter, observed, box, acks,
                  mail, todo, left, sent, got>>
  BY DEF vars, brokerVars, pubVars
<1>2. TypeOK'
  BY <1>1 DEF ServerInv, ServerTypeOK, TypeOK
<1>3. MembershipAgrees'
  BY <1>1 DEF ServerInv, MembershipAgrees
<1>4. Forth' /\ Queued'
  BY <1>1 DEF ServerInv, Forth, Queued, Published, InSeq
<1>5. Quiet'
  BY <1>1 DEF ServerInv, Quiet, Published
<1> QED BY <1>2, <1>3, <1>4, <1>5

\* Registration at the broker leaves what is queued and published.
LEMMA ServerSubscribes ==
    ASSUME ServerInv, NEW a \in Agents, NEW w \in Workflows \cup {None}, NEW n \in Tenants,
           DoSubscribe(a, w, n), UNCHANGED <<pubVars, got>>,
           \A m \in Msgs : InSeq(box[a], m) => tenant[a] = n \/ n # TenantOf[a] \/ a \in overlapped',
           overlapped \subseteq overlapped'
    PROVE  TypeOK' /\ MembershipAgrees' /\ Forth' /\ Quiet' /\ Queued'
<1>1. TypeOK /\ MembershipAgrees /\ UNCHANGED <<box, mail, got, todo, observed, acks>>
  BY DEF ServerInv, ServerTypeOK, DoSubscribe, pubVars
<1>2. TypeOK' /\ MembershipAgrees'
  BY <1>1, TablesSubscribe
<1>3. Forth' /\ Quiet'
  BY <1>1 DEF ServerInv, Forth, Quiet, Published, InSeq
<1>4. Queued'
  <2>1. ASSUME NEW b \in Agents, NEW m \in Msgs, tenant'[b] = TenantOf[b], InSeq(box'[b], m)
        PROVE  TenantOf[mail'[m].from] = TenantOf[b] \/ {b, mail'[m].from} \cap overlapped' # {}
    <3>1. InSeq(box[b], m)
      BY <1>1, <2>1 DEF InSeq
    <3>2. b # a => tenant'[b] = tenant[b]
      BY <1>1 DEF DoSubscribe, TypeOK
    <3>3. b = a => tenant'[b] = n
      BY <1>1 DEF DoSubscribe, TypeOK
    <3> QED BY <1>1, <2>1, <3>1, <3>2, <3>3 DEF ServerInv, Queued
  <2> QED BY <2>1 DEF Queued
<1> QED BY <1>2, <1>3, <1>4

\* ... and its end empties queues.
LEMMA ServerUnsubscribes ==
    ASSUME ServerInv, NEW a, (a \in Agents /\ DoUnsubscribe(a)) \/ DoClose,
           UNCHANGED <<pubVars, got, overlapped>>
    PROVE  TypeOK' /\ MembershipAgrees' /\ Forth' /\ Quiet' /\ Queued'
<1>1. TypeOK /\ MembershipAgrees /\ UNCHANGED <<mail, todo, sent, left, got>>
  BY DEF ServerInv, ServerTypeOK, pubVars
<1>2. TypeOK' /\ MembershipAgrees'
  <2>1. left' \in [Msgs -> SUBSET Agents]
    BY <1>1 DEF TypeOK
  <2> QED BY <1>1, <2>1, TablesLeave
<1>3. /\ observed' \subseteq observed /\ Len(<<>>) = 0
      /\ \A b \in Agents : box'[b] = <<>> \/ (box'[b] = box[b] /\ tenant'[b] = tenant[b])
  BY <1>1, EmptySeq DEF DoUnsubscribe, DoClose, TypeOK
<1>4. \A b \in Agents, m \in Msgs :
         InSeq(box'[b], m) => InSeq(box[b], m) /\ tenant'[b] = tenant[b]
  BY <1>3 DEF InSeq
<1>5. Forth' /\ Queued'
  BY <1>1, <1>4 DEF ServerInv, Forth, Queued, Published
<1>6. Quiet'
  BY <1>1, <1>3 DEF ServerInv, Quiet, Published
<1> QED BY <1>2, <1>5, <1>6
-----------------------------------------------------------------------------
(* Connections keep the server's invariant *)

\* A client connects: the handler registers it and starts its push loop.
LEMMA ConnectKeeps ==
    ASSUME ServerInv, NEW c \in Conns, NEW w \in Workflows \cup {None}, Connect(c, w)
    PROVE  ServerInv'
<1> DEFINE a == AgentOf[c]
<1>0. /\ a \in Agents /\ a = AgentOf[c] /\ AgentOf \in [Conns -> Agents] /\ TenantOf[a] \in Tenants
      /\ conn[c] = "new" /\ phase \in {"up", "closing"} /\ ~stuck
      /\ UNCHANGED <<pubVars, got, stuck, phase, stopList, arrived>>
      /\ DoSubscribe(a, w, TenantOf[a])
      /\ wire' = wire \cup {c}
      /\ overlapped' = IF StillOpen(a) THEN overlapped \cup {a} ELSE overlapped
  BY BusAssumption, ServerAssumption DEF Connect
<1> HIDE DEF a
<1>1. /\ conn \in [Conns -> {"new", "open", "closed"}] /\ connections \in [Agents -> Conns \cup {None}]
      /\ srvTenant \in [Agents -> Tenants] /\ pushing \in [Conns -> Msgs \cup {"off", "loop"}]
      /\ conn' = [conn EXCEPT ![c] = "open"] /\ connections' = [connections EXCEPT ![a] = c]
      /\ srvTenant' = [srvTenant EXCEPT ![a] = TenantOf[a]]
      /\ pushing' = [pushing EXCEPT ![c] = "loop"]
      /\ tenant' = [tenant EXCEPT ![a] = TenantOf[a]] /\ subscribed' = subscribed \cup {a}
      /\ tenant \in [Agents -> Tenants]
  BY <1>0 DEF Connect, a, ServerInv, ServerTypeOK, TypeOK, DoSubscribe
<1>2. /\ overlapped \subseteq overlapped' /\ (StillOpen(a) => a \in overlapped')
  BY <1>0
<1>3. \A m \in Msgs : InSeq(box[a], m) => a \in overlapped'
  <2>1. ASSUME ~StillOpen(a) PROVE \A m \in Msgs : ~InSeq(box[a], m)
    <3>1. a \notin subscribed
      BY <1>0, <2>1 DEF ServerInv, Registered
    <3>2. box[a] = <<>> /\ Len(<<>>) = 0
      BY <1>0, <3>1, EmptySeq DEF ServerInv, MembershipAgrees
    <3> QED BY <3>2 DEF InSeq
  <2> QED BY <1>2, <2>1
<1>4. TypeOK' /\ MembershipAgrees' /\ Forth' /\ Quiet' /\ Queued'
  BY <1>0, <1>2, <1>3, ServerSubscribes
<1>5. ServerTypeOK'
  BY <1>0, <1>1, <1>4 DEF ServerInv, ServerTypeOK
<1>6. /\ ~Open(c) /\ \A d \in Conns : Open(d)' <=> Open(d) \/ d = c
  BY <1>0, <1>1 DEF Open
<1>7. Handled'
  BY <1>0, <1>1, <1>6 DEF ServerInv, Handled
<1>8. Single'
  BY <1>0, <1>2, <1>6 DEF ServerInv, Single, StillOpen, Open
<1>9. \A b \in Agents : StillOpen(b)' <=> StillOpen(b) \/ b = a
  BY <1>0, <1>6 DEF StillOpen, Open
<1>10. Registered'
  BY <1>0, <1>1, <1>9 DEF ServerInv, Registered
<1>11. Served'
  <2>1. ASSUME NEW d \in Conns, Open(d)'
        PROVE  \/ AgentOf[d] \in overlapped'
               \/ /\ srvTenant'[AgentOf[d]] = TenantOf[AgentOf[d]]
                  /\ phase' = "up" => AgentOf[d] \in subscribed' /\ connections'[AgentOf[d]] = d
    <3>1. CASE d = c
      BY <1>0, <1>1, <3>1
    <3>2. CASE d # c /\ AgentOf[d] = a
      BY <1>2, <1>6, <2>1, <3>2 DEF StillOpen, Open
    <3>3. CASE AgentOf[d] # a
      <4>1. Open(d) /\ AgentOf[d] \in Agents
        BY <1>0, <1>6, <2>1, <3>3
      <4> QED BY <1>0, <1>1, <1>2, <3>3, <4>1 DEF ServerInv, Served
    <3> QED BY <3>1, <3>2, <3>3
  <2> QED BY <2>1 DEF Served
<1>12. Shut' /\ LoopRuns'
  BY <1>0 DEF Shut, LoopRuns
<1>13. Forwarded'
  <2>1. pushing[c] = "off" /\ "off" \notin Msgs
    BY <1>1, <1>6, ServerAssumption DEF ServerInv, Handled
  <2>2. ASSUME NEW b \in Agents, NEW m \in Msgs, InSeq(got'[b], m)
        PROVE  \/ InSeq(arrived'[b], m)
               \/ \E d \in Conns : AgentOf[d] = b /\ pushing'[d] = m
               \/ \E d \in Conns \ wire' : AgentOf[d] = b /\ conn'[d] # "new"
    <3>1. InSeq(got[b], m) /\ arrived' = arrived
      BY <1>0, <2>2
    <3>2. CASE InSeq(arrived[b], m)
      BY <3>1, <3>2
    <3>3. CASE \E d \in Conns : AgentOf[d] = b /\ pushing[d] = m
      BY <1>1, <2>1, <3>3
    <3>4. CASE \E d \in Conns \ wire : AgentOf[d] = b /\ conn[d] # "new"
      BY <1>0, <1>1, <3>4
    <3> QED BY <3>1, <3>2, <3>3, <3>4 DEF ServerInv, Forwarded
  <2> QED BY <2>2 DEF Forwarded
<1> QED BY <1>4, <1>5, <1>7, <1>8, <1>10, <1>11, <1>12, <1>13 DEF ServerInv

\* The handler ends: its agent is deregistered, whatever connection it has.
LEMMA HandlerKeeps == ASSUME ServerInv, NEW c \in Conns, HandlerEnds(c) PROVE ServerInv'
<1> DEFINE a == AgentOf[c]
<1>0. /\ a \in Agents /\ a = AgentOf[c] /\ AgentOf \in [Conns -> Agents]
      /\ conn[c] = "open" /\ c \notin wire
      /\ UNCHANGED <<pubVars, got, wire, stuck, phase, stopList, arrived, overlapped>>
      /\ DoUnsubscribe(a)
  BY ServerAssumption DEF HandlerEnds
<1> HIDE DEF a
<1>1. /\ conn \in [Conns -> {"new", "open", "closed"}] /\ connections \in [Agents -> Conns \cup {None}]
      /\ srvTenant \in [Agents -> Tenants] /\ pushing \in [Conns -> Msgs \cup {"off", "loop"}]
      /\ conn' = [conn EXCEPT ![c] = "closed"] /\ connections' = [connections EXCEPT ![a] = None]
      /\ srvTenant' = [srvTenant EXCEPT ![a] = Default]
      /\ pushing' = [pushing EXCEPT ![c] = "off"]
      /\ tenant' = [tenant EXCEPT ![a] = Default] /\ subscribed' = subscribed \ {a}
      /\ tenant \in [Agents -> Tenants] /\ acks' = acks
  BY <1>0 DEF HandlerEnds, a, ServerInv, ServerTypeOK, TypeOK, DoUnsubscribe
<1>2. TypeOK' /\ MembershipAgrees' /\ Forth' /\ Quiet' /\ Queued'
  BY <1>0, ServerUnsubscribes
<1>3. ServerTypeOK'
  BY <1>0, <1>1, <1>2, BusAssumption DEF ServerInv, ServerTypeOK
<1>4. Open(c) /\ \A d \in Conns : Open(d)' <=> Open(d) /\ d # c
  BY <1>0, <1>1 DEF Open
<1>5. Handled' /\ Single'
  BY <1>0, <1>1, <1>4 DEF ServerInv, Handled, Single
<1>6. \A b \in Agents : b # a => (StillOpen(b)' <=> StillOpen(b))
  BY <1>0, <1>4 DEF StillOpen, Open
<1>7. Registered'
  BY <1>0, <1>1, <1>6 DEF ServerInv, Registered
<1>8. Served'
  <2>1. ASSUME NEW d \in Conns, Open(d)'
        PROVE  \/ AgentOf[d] \in overlapped'
               \/ /\ srvTenant'[AgentOf[d]] = TenantOf[AgentOf[d]]
                  /\ phase' = "up" => AgentOf[d] \in subscribed' /\ connections'[AgentOf[d]] = d
    <3>1. Open(d) /\ d # c /\ AgentOf[d] \in Agents
      BY <1>0, <1>4, <2>1
    <3>2. CASE AgentOf[d] = a
      BY <1>0, <1>4, <3>1, <3>2 DEF ServerInv, Single
    <3>3. CASE AgentOf[d] # a
      BY <1>0, <1>1, <3>1, <3>3 DEF ServerInv, Served
    <3> QED BY <3>2, <3>3
  <2> QED BY <2>1 DEF Served
<1>9. Shut' /\ LoopRuns'
  BY <1>0, <1>1, <1>4 DEF ServerInv, Shut, LoopRuns
<1>10. Forwarded'
  BY <1>0, <1>1 DEF ServerInv, Forwarded
<1> QED BY <1>2, <1>3, <1>5, <1>7, <1>8, <1>9, <1>10 DEF ServerInv

\* Steps of a connection that do not reach the broker.
LEMMA LinkKeeps ==
    ASSUME ServerInv, NEW c \in Conns, Unauthorized(c) \/ LinkBreaks(c) \/ PushSpins(c)
    PROVE  ServerInv'
<1>0. /\ UNCHANGED <<vars, connections, srvTenant, pushing, phase, stopList, arrived, overlapped>>
      /\ \/ conn[c] = "new" /\ conn' = [conn EXCEPT ![c] = "closed"] /\ UNCHANGED <<wire, stuck>>
         \/ wire' = wire \ {c} /\ UNCHANGED <<conn, stuck>>
         \/ /\ stuck' = TRUE /\ UNCHANGED <<wire, conn>>
            /\ pushing[c] = "loop" /\ phase = "up" /\ AgentOf[c] \notin subscribed
  BY DEF Unauthorized, LinkBreaks, PushSpins
<1>1. /\ conn \in [Conns -> {"new", "open", "closed"}] /\ AgentOf \in [Conns -> Agents]
  BY ServerAssumption DEF ServerInv, ServerTypeOK
<1>2. TypeOK' /\ MembershipAgrees' /\ Forth' /\ Quiet' /\ Queued'
  BY <1>0, BrokerAlone
<1>3. ServerTypeOK'
  <2>1. stuck' \in BOOLEAN
    BY <1>0 DEF ServerInv, ServerTypeOK
  <2> QED BY <1>0, <1>1, <1>2, <2>1 DEF ServerInv, ServerTypeOK
<1>4. \A d \in Conns : /\ Open(d)' <=> Open(d)
                       /\ conn[d] # "new" => conn'[d] # "new"
  BY <1>0, <1>1 DEF Open
<1>5. \A b \in Agents : StillOpen(b)' <=> StillOpen(b)
  BY <1>4 DEF StillOpen, Open
<1>6. wire' \subseteq wire /\ UNCHANGED <<subscribed, tenant, acks, got>>
  BY <1>0 DEF vars, brokerVars
<1>7. Handled' /\ Single' /\ Registered' /\ Served' /\ Shut'
  BY <1>0, <1>4, <1>5, <1>6 DEF ServerInv, Handled, Single, Registered, Served, Shut
<1>8. Forwarded'
  BY <1>0, <1>4, <1>6 DEF ServerInv, Forwarded
<1>9. LoopRuns'
  <2>1. CASE stuck' = stuck
    BY <1>0, <2>1 DEF ServerInv, LoopRuns
  <2>2. CASE pushing[c] = "loop" /\ phase = "up" /\ AgentOf[c] \notin subscribed
    BY <1>0, <2>2 DEF ServerInv, Handled, Served, LoopRuns
  <2> QED BY <1>0, <2>1, <2>2
<1> QED BY <1>2, <1>3, <1>7, <1>8, <1>9 DEF ServerInv
-----------------------------------------------------------------------------
(* Envelopes keep the server's invariant *)

\* A message gets the tenant its sender is registered with, and reaches the
\* agents of that tenant at once.
LEMMA ClientPublishKeeps ==
    ASSUME ServerInv, NEW c \in Conns, NEW m \in Msgs, NEW to \in Agents \cup {None},
           NEW w \in Workflows \cup {None}, ClientPublish(c, m, to, w)
    PROVE  ServerInv'
<1> DEFINE a == AgentOf[c]
           msg == [from |-> a, to |-> to, wf |-> w, tenant |-> srvTenant[a]]
           S == ResolveTargets(msg)
<1>0. /\ TypeOK /\ a \in Agents /\ msg \in Envelopes
      /\ Open(c) /\ ~Published(m) /\ UNCHANGED <<got, serverVars>>
      /\ DoPublish(m, msg) /\ observed = {}
  BY BusAssumption, ServerAssumption DEF ClientPublish, Attributed, ServerInv, ServerTypeOK,
     Envelopes, Open, Published, Quiet
<1>1. S \in SUBSET Agents /\ \A b \in S : tenant[b] = srvTenant[a]
  <2>1. Candidates(msg) \subseteq Agents
    BY <1>0 DEF Candidates, TypeOK
  <2> QED BY <2>1 DEF ResolveTargets
<1>2. msg.from = a /\ msg.tenant = srvTenant[a] /\ msg # None
  BY <1>0, BusAssumption
<1> HIDE DEF S, msg
<1>3. /\ mail' = [mail EXCEPT ![m] = msg] /\ sent' = Append(sent, m)
      /\ Deliver(m, S) /\ todo' = [todo EXCEPT ![m] = {}] /\ left' = left
  <2>1. Stretches(S) = {S}
    BY <1>0 DEF Stretches
  <2> QED BY <1>0, <2>1 DEF DoPublish, S
<1>4. /\ box' \in [Agents -> Seq(Msgs)] /\ acks' \subseteq Msgs \X Agents
      /\ UNCHANGED <<subscribed, subs, members, tenant, counter, observed>>
      /\ \A b \in Agents : /\ b \in S \cap subscribed => box'[b] = Append(box[b], m)
                           /\ b \notin S \cap subscribed => box'[b] = box[b]
  BY <1>0, <1>1, <1>3, Delivers
<1>5. \A b \in Agents : \A k : InSeq(box'[b], k) =>
          InSeq(box[b], k) \/ (k = m /\ b \in S \cap subscribed)
  <2>1. \A s \in Seq(Msgs) : \A k : InSeq(Append(s, m), k) => InSeq(s, k) \/ k = m
    BY AppendHolds
  <2>2. ASSUME NEW b \in Agents, NEW k, InSeq(box'[b], k)
        PROVE  InSeq(box[b], k) \/ (k = m /\ b \in S \cap subscribed)
    <3>1. box[b] \in Seq(Msgs)
      BY <1>0 DEF TypeOK
    <3>2. CASE b \in S \cap subscribed
      BY <1>4, <2>1, <2>2, <3>1, <3>2
    <3>3. CASE b \notin S \cap subscribed
      <4>1. box'[b] = box[b]
        BY <1>4, <3>3
      <4> QED BY <2>2, <4>1 DEF InSeq
    <3> QED BY <3>2, <3>3
  <2> QED BY <2>2
<1>6. /\ mail \in [Msgs -> Envelopes \cup {None}] /\ mail'[m] = msg
      /\ \A k \in Msgs : Published(k) => k # m /\ mail'[k] = mail[k] /\ Published(k)'
      /\ \A k \in Msgs : Published(k)' => k = m \/ (Published(k) /\ mail'[k] = mail[k])
      /\ Published(m)'
  BY <1>0, <1>2, <1>3 DEF Published, TypeOK
<1>7. TypeOK'
  <2>1. sent' \in Seq(Msgs)
    BY <1>0, <1>3, AppendProperties DEF TypeOK
  <2> QED BY <1>0, <1>3, <1>4, <2>1 DEF TypeOK
<1>8. ServerTypeOK'
  <2>1. UNCHANGED <<conn, wire, connections, srvTenant, pushing, stuck, phase, stopList, arrived, overlapped>>
    BY <1>0 DEF serverVars
  <2> QED BY <1>7, <2>1 DEF ServerInv, ServerTypeOK
<1>9. MembershipAgrees'
  BY <1>4 DEF ServerInv, MembershipAgrees
<1>10. Forth'
  <2>1. ASSUME NEW b \in Agents, NEW k \in Msgs, InSeq(got'[b], k) \/ InSeq(box'[b], k)
        PROVE  Published(k)'
    <3>1. InSeq(got[b], k) \/ InSeq(box[b], k) \/ k = m
      BY <1>0, <1>5, <2>1
    <3> QED BY <1>6, <3>1 DEF ServerInv, Forth
  <2> QED BY <2>1 DEF Forth, InSeq
<1>11. srvTenant[a] = TenantOf[a] \/ a \in overlapped
  BY <1>0 DEF ServerInv, Served
<1>12. Quiet'
  <2>1. observed' = {} /\ \A k \in Msgs : todo'[k] = {}
    BY <1>0, <1>3, <1>4 DEF ServerInv, Quiet, TypeOK
  <2>2. ASSUME NEW k \in Msgs, Published(k)'
        PROVE  mail'[k].tenant = TenantOf[mail'[k].from] \/ mail'[k].from \in overlapped'
    <3>1. overlapped' = overlapped
      BY <1>0 DEF serverVars
    <3>2. CASE k = m
      BY <1>2, <1>6, <1>11, <3>1, <3>2
    <3>3. CASE k # m
      <4>1. Published(k) /\ mail'[k] = mail[k]
        BY <1>6, <2>2, <3>3
      <4> QED BY <3>1, <4>1 DEF ServerInv, Quiet
    <3> QED BY <3>2, <3>3
  <2> QED BY <2>1, <2>2 DEF Quiet
<1>13. Queued'
  <2>1. ASSUME NEW b \in Agents, NEW k \in Msgs, tenant'[b] = TenantOf[b], InSeq(box'[b], k)
        PROVE  TenantOf[mail'[k].from] = TenantOf[b] \/ {b, mail'[k].from} \cap overlapped' # {}
    <3>1. overlapped' = overlapped /\ tenant' = tenant
      BY <1>0, <1>4 DEF serverVars
    <3>2. CASE InSeq(box[b], k)
      <4>1. mail'[k] = mail[k]
        BY <1>6, <3>2 DEF ServerInv, Forth
      <4> QED BY <2>1, <3>1, <3>2, <4>1 DEF ServerInv, Queued
    <3>3. CASE k = m /\ b \in S \cap subscribed
      BY <1>1, <1>2, <1>6, <1>11, <2>1, <3>1, <3>3
    <3> QED BY <1>5, <2>1, <3>2, <3>3
  <2> QED BY <2>1 DEF Queued
<1>14. Handled' /\ Single' /\ Registered' /\ Served' /\ LoopRuns' /\ Forwarded'
  <2>1. UNCHANGED <<conn, wire, connections, srvTenant, pushing, stuck, phase, arrived,
                    overlapped, got, subscribed, tenant>>
    BY <1>0, <1>4 DEF serverVars
  <2>2. Handled' /\ Single' /\ LoopRuns'
    BY <2>1 DEF ServerInv, Handled, Single, LoopRuns, Open
  <2>3. Registered' /\ Served'
    BY <2>1 DEF ServerInv, Registered, Served, StillOpen, Open
  <2>4. Forwarded'
    BY <2>1 DEF ServerInv, Forwarded, InSeq
  <2> QED BY <2>2, <2>3, <2>4
<1>15. Shut'
  BY <1>0 DEF ServerInv, Shut, ClientPublish, serverVars
<1> QED BY <1>8, <1>9, <1>10, <1>12, <1>13, <1>14, <1>15 DEF ServerInv

\* A later subscribe envelope moves its agent to the default tenant.
LEMMA AppendKeeps ==
    ASSUME ServerInv, NEW c \in Conns, NEW w \in Workflows, AppendSubscribe(c, w)
    PROVE  ServerInv'
<1> DEFINE a == AgentOf[c]
<1>0. /\ a \in Agents /\ Open(c) /\ c \in wire /\ UNCHANGED <<pubVars, got, serverVars>>
      /\ DoSubscribe(a, w, Default) /\ Default \in Tenants /\ TypeOK
  BY BusAssumption, ServerAssumption DEF AppendSubscribe, Open, ServerInv, ServerTypeOK
<1>1. UNCHANGED <<conn, wire, connections, srvTenant, pushing, stuck, phase, stopList, arrived,
                  overlapped, got>>
  BY <1>0 DEF serverVars
<1>2. /\ subscribed' = subscribed \cup {a} /\ tenant' = [tenant EXCEPT ![a] = Default]
      /\ tenant \in [Agents -> Tenants] /\ a = AgentOf[c]
  BY <1>0 DEF DoSubscribe, TypeOK
<1>3. \A m \in Msgs : InSeq(box[a], m) => tenant[a] = Default \/ Default # TenantOf[a]
  BY <1>0 DEF ServerInv, Registered
<1> HIDE DEF a
<1>4. TypeOK' /\ MembershipAgrees' /\ Forth' /\ Quiet' /\ Queued'
  BY <1>0, <1>1, <1>3, ServerSubscribes
<1>5. ServerTypeOK' /\ Handled' /\ Single' /\ LoopRuns'
  BY <1>1, <1>4 DEF ServerInv, ServerTypeOK, Handled, Single, LoopRuns, Open
<1>6. Registered'
  <2>1. StillOpen(a)
    BY <1>0, <1>2 DEF StillOpen, Open
  <2> QED BY <1>1, <1>2, <2>1 DEF ServerInv, Registered, StillOpen
<1>7. Served'
  BY <1>1, <1>2 DEF ServerInv, Served, Open
<1>8. Shut'
  BY <1>0, <1>1 DEF ServerInv, Shut
<1>9. Forwarded'
  BY <1>1 DEF ServerInv, Forwarded, InSeq
<1> QED BY <1>4, <1>5, <1>6, <1>7, <1>8, <1>9 DEF ServerInv
-----------------------------------------------------------------------------
(* The push loops and stop() keep the server's invariant *)

\* What has left the queue is in the hands of the push loop.
LEMMA PushTakeKeeps == ASSUME ServerInv, NEW c \in Conns, PushTake(c) PROVE ServerInv'
<1> DEFINE a == AgentOf[c]
<1>0. /\ TypeOK /\ a \in Agents /\ a = AgentOf[c] /\ AgentOf \in [Conns -> Agents]
      /\ box[a] \in Seq(Msgs) /\ got[a] \in Seq(Msgs) /\ box[a] # <<>>
      /\ box \in [Agents -> Seq(Msgs)] /\ got \in [Agents -> Seq(Msgs)]
      /\ pushing \in [Conns -> Msgs \cup {"off", "loop"}]
      /\ pushing[c] = "loop" /\ "loop" \notin Msgs /\ "off" \notin Msgs
      /\ phase \in {"up", "closing"}
  BY ServerAssumption DEF PushTake, TakeFirst, ServerInv, ServerTypeOK, TypeOK
<1> DEFINE h == Head(box[a])
<1>1. /\ box' = [box EXCEPT ![a] = Tail(box[a])] /\ got' = [got EXCEPT ![a] = Append(got[a], h)]
      /\ acks' = acks \ {<<h, a>>} /\ pushing' = [pushing EXCEPT ![c] = h]
      /\ UNCHANGED <<subscribed, subs, members, tenant, counter, observed, pubVars>>
      /\ UNCHANGED <<conn, wire, connections, srvTenant, stuck, phase, stopList, arrived, overlapped>>
  BY DEF PushTake, TakeFirst
<1>2. \A s \in Seq(Msgs) : s # <<>> =>
         /\ InSeq(s, Head(s)) /\ Head(s) \in Msgs /\ Tail(s) \in Seq(Msgs)
         /\ \A x : InSeq(Tail(s), x) => InSeq(s, x)
  BY HeadHolds
<1>3. \A s \in Seq(Msgs) : \A e \in Msgs : \A x :
         Append(s, e) \in Seq(Msgs) /\ (InSeq(Append(s, e), x) <=> InSeq(s, x) \/ x = e)
  BY AppendHolds, AppendProperties
<1>4. /\ h \in Msgs /\ Tail(box[a]) \in Seq(Msgs) /\ InSeq(box[a], h)
      /\ \A x : InSeq(Tail(box[a]), x) => InSeq(box[a], x)
  BY <1>0, <1>2
<1>5. /\ Append(got[a], h) \in Seq(Msgs)
      /\ \A x : InSeq(Append(got[a], h), x) <=> InSeq(got[a], x) \/ x = h
  BY <1>0, <1>3, <1>4
<1> HIDE DEF a, h
<1>6. \A b \in Agents : \A x : /\ InSeq(box'[b], x) => InSeq(box[b], x)
                               /\ InSeq(got'[b], x) => InSeq(got[b], x) \/ (x = h /\ b = a)
  <2>1. ASSUME NEW b \in Agents, NEW x
        PROVE  /\ InSeq(box'[b], x) => InSeq(box[b], x)
               /\ InSeq(got'[b], x) => InSeq(got[b], x) \/ (x = h /\ b = a)
    <3>1. CASE b = a
      BY <1>0, <1>1, <1>4, <1>5, <3>1
    <3>2. CASE b # a
      <4>1. box'[b] = box[b] /\ got'[b] = got[b]
        BY <1>0, <1>1, <3>2
      <4> QED BY <3>2, <4>1 DEF InSeq
    <3> QED BY <3>1, <3>2
  <2> QED BY <2>1
<1>7. TypeOK'
  <2>1. box' \in [Agents -> Seq(Msgs)] /\ got' \in [Agents -> Seq(Msgs)]
    BY <1>0, <1>1, <1>4, <1>5
  <2> QED BY <1>0, <1>1, <2>1 DEF TypeOK, pubVars
<1>8. ServerTypeOK'
  <2>1. pushing' \in [Conns -> Msgs \cup {"off", "loop"}]
    BY <1>0, <1>1, <1>4
  <2> QED BY <1>1, <1>7, <2>1 DEF ServerInv, ServerTypeOK
<1>9. MembershipAgrees'
  <2>1. a \in subscribed
    BY <1>0 DEF ServerInv, MembershipAgrees
  <2>2. \A b \in Agents : b # a => box'[b] = box[b]
    BY <1>0, <1>1
  <2> QED BY <1>1, <2>1, <2>2 DEF ServerInv, MembershipAgrees
<1>10. Forth'
  BY <1>0, <1>1, <1>4, <1>6 DEF ServerInv, Forth, Published, pubVars, InSeq
<1>11. Quiet'
  BY <1>1 DEF ServerInv, Quiet, Published, pubVars
<1>12. Queued'
  <2>1. ASSUME NEW b \in Agents, NEW k \in Msgs, tenant'[b] = TenantOf[b], InSeq(box'[b], k)
        PROVE  TenantOf[mail'[k].from] = TenantOf[b] \/ {b, mail'[k].from} \cap overlapped' # {}
    BY <1>1, <1>6, <2>1 DEF ServerInv, Queued, pubVars
  <2> QED BY <2>1 DEF Queued
<1>13. Handled'
  BY <1>0, <1>1 DEF ServerInv, Handled, Open
<1>14. Single' /\ Registered' /\ Served' /\ LoopRuns'
  BY <1>1 DEF ServerInv, Single, Registered, Served, StillOpen, LoopRuns, Open
<1>15. Shut'
  BY <1>0, <1>1 DEF Shut
<1>16. Forwarded'
  <2>1. ASSUME NEW b \in Agents, NEW k \in Msgs, InSeq(got'[b], k)
        PROVE  \/ InSeq(arrived'[b], k)
               \/ \E d \in Conns : AgentOf[d] = b /\ pushing'[d] = k
               \/ \E d \in Conns \ wire' : AgentOf[d] = b /\ conn'[d] # "new"
    <3>1. CASE k = h /\ b = a
      BY <1>0, <1>1, <3>1
    <3>2. CASE InSeq(got[b], k)
      <4>1. \A d \in Conns : pushing[d] = k => pushing'[d] = k
        BY <1>0, <1>1
      <4> QED BY <1>1, <3>2, <4>1 DEF ServerInv, Forwarded
    <3> QED BY <1>6, <2>1, <3>1, <3>2
  <2> QED BY <2>1 DEF Forwarded, InSeq
<1> QED BY <1>8, <1>9, <1>10, <1>11, <1>12, <1>13, <1>14, <1>15, <1>16 DEF ServerInv

\* A message that is sent arrives, or its link is down.
LEMMA PushSendKeeps == ASSUME ServerInv, NEW c \in Conns, PushSend(c) PROVE ServerInv'
<1> DEFINE a == AgentOf[c]
           m == pushing[c]
<1>0. /\ a \in Agents /\ a = AgentOf[c] /\ AgentOf \in [Conns -> Agents]
      /\ m \in Msgs /\ m = pushing[c] /\ "off" \notin Msgs
      /\ pushing \in [Conns -> Msgs \cup {"off", "loop"}]
      /\ arrived \in [Agents -> Seq(Msgs)]
      /\ UNCHANGED <<vars, conn, wire, connections, srvTenant, stuck, phase, stopList, overlapped>>
  BY ServerAssumption DEF PushSend, ServerInv, ServerTypeOK
<1>1. \/ /\ arrived' = [arrived EXCEPT ![a] = Append(arrived[a], m)]
         /\ pushing' = [pushing EXCEPT ![c] = "loop"]
      \/ /\ c \notin wire /\ UNCHANGED arrived
         /\ \E p \in {"loop", "off"} : pushing' = [pushing EXCEPT ![c] = p]
  BY DEF PushSend
<1>2. Open(c) /\ conn[c] # "new"
  BY <1>0 DEF ServerInv, Handled, Open
<1> HIDE DEF a, m
<1>3. \A s \in Seq(Msgs) : /\ Append(s, m) \in Seq(Msgs)
                           /\ \A x : InSeq(Append(s, m), x) <=> InSeq(s, x) \/ x = m
  BY <1>0, AppendHolds, AppendProperties
<1>4. arrived' \in [Agents -> Seq(Msgs)] /\ pushing' \in [Conns -> Msgs \cup {"off", "loop"}]
  <2>1. Append(arrived[a], m) \in Seq(Msgs)
    BY <1>0, <1>3
  <2>2. arrived' \in [Agents -> Seq(Msgs)]
    BY <1>0, <1>1, <2>1
  <2>3. pushing' \in [Conns -> Msgs \cup {"off", "loop"}]
    BY <1>0, <1>1
  <2> QED BY <2>2, <2>3
<1>5. TypeOK' /\ MembershipAgrees' /\ Forth' /\ Quiet' /\ Queued'
  BY <1>0, BrokerAlone
<1>6. ServerTypeOK'
  BY <1>0, <1>4, <1>5 DEF ServerInv, ServerTypeOK
<1>7. UNCHANGED <<subscribed, tenant, acks, got>>
  BY <1>0 DEF vars, brokerVars
<1>8. Handled'
  BY <1>0, <1>1, <1>2 DEF ServerInv, Handled, Open
<1>9. Single' /\ Registered' /\ Served' /\ LoopRuns'
  BY <1>0, <1>7 DEF ServerInv, Single, Registered, Served, StillOpen, LoopRuns, Open
<1>10. Shut'
  BY <1>0, <1>7 DEF ServerInv, Shut, Open
<1>11. Forwarded'
  <2>1. ASSUME NEW b \in Agents, NEW k \in Msgs, InSeq(got'[b], k)
        PROVE  \/ InSeq(arrived'[b], k)
               \/ \E d \in Conns : AgentOf[d] = b /\ pushing'[d] = k
               \/ \E d \in Conns \ wire' : AgentOf[d] = b /\ conn'[d] # "new"
    <3>1. CASE InSeq(arrived[b], k)
      <4>1. arrived'[b] = arrived[b] \/ (b = a /\ arrived'[b] = Append(arrived[b], m))
        BY <1>0, <1>1
      <4>2. InSeq(Append(arrived[b], m), k)
        BY <1>0, <1>3, <3>1
      <4> QED BY <3>1, <4>1, <4>2 DEF InSeq
    <3>2. CASE \E d \in Conns : AgentOf[d] = b /\ pushing[d] = k
      <4>1. PICK d \in Conns : AgentOf[d] = b /\ pushing[d] = k
        BY <3>2
      <4>2. CASE d # c
        BY <1>0, <1>1, <4>1, <4>2
      <4>3. CASE d = c
        <5>1. InSeq(Append(arrived[b], m), k) /\ b = a
          BY <1>0, <1>3, <4>1, <4>3
        <5>2. CASE arrived' = [arrived EXCEPT ![a] = Append(arrived[a], m)]
          <6>1. arrived'[b] = Append(arrived[b], m)
            BY <1>0, <5>1, <5>2
          <6> QED BY <5>1, <6>1 DEF InSeq
        <5>3. CASE c \notin wire
          BY <1>0, <1>2, <4>1, <4>3, <5>3
        <5> QED BY <1>1, <5>2, <5>3
      <4> QED BY <4>2, <4>3
    <3>3. CASE \E d \in Conns \ wire : AgentOf[d] = b /\ conn[d] # "new"
      BY <1>0, <3>3
    <3>4. InSeq(got[b], k)
      BY <1>7, <2>1
    <3> QED BY <3>1, <3>2, <3>3, <3>4 DEF ServerInv, Forwarded
  <2> QED BY <2>1 DEF Forwarded, InSeq
<1> QED BY <1>5, <1>6, <1>8, <1>9, <1>10, <1>11 DEF ServerInv

\* stop() closes links and empties tables; its last step finds no handler.
LEMMA StopKeeps ==
    ASSUME ServerInv, Stop \/ StopListening \/ StopDone \/ \E c \in Conns : StopOne(c)
    PROVE  ServerInv'
<1>0. AgentOf \in [Conns -> Agents] /\ Default \in Tenants
  BY BusAssumption, ServerAssumption
<1>1. CASE Stop
  <2>1. /\ UNCHANGED <<vars, conn, wire, connections, srvTenant, pushing, stuck, arrived, overlapped>>
        /\ phase' = "closing" /\ stopList' = {connections[a] : a \in Agents} \ {None}
    BY <1>1 DEF Stop
  <2>2. TypeOK' /\ MembershipAgrees' /\ Forth' /\ Quiet' /\ Queued'
    BY <2>1, BrokerAlone
  <2>3. ServerTypeOK'
    BY <2>1, <2>2 DEF ServerInv, ServerTypeOK
  <2>4. UNCHANGED <<subscribed, tenant, got>>
    BY <2>1 DEF vars, brokerVars
  <2>5. Handled' /\ Single' /\ Registered' /\ LoopRuns' /\ Shut'
    BY <2>1, <2>4 DEF ServerInv, Handled, Single, Registered, StillOpen, LoopRuns, Shut, Open
  <2>6. Served' /\ Forwarded'
    BY <2>1, <2>4 DEF ServerInv, Served, Open, Forwarded, InSeq
  <2> QED BY <2>2, <2>3, <2>5, <2>6 DEF ServerInv
<1>2. CASE StopListening
  <2>1. /\ UNCHANGED <<vars, conn, srvTenant, pushing, stuck, stopList, arrived, overlapped>>
        /\ phase' = "waiting" /\ wire' = {} /\ connections' = [a \in Agents |-> None]
    BY <1>2 DEF StopListening
  <2>2. TypeOK' /\ MembershipAgrees' /\ Forth' /\ Quiet' /\ Queued'
    BY <2>1, BrokerAlone
  <2>3. ServerTypeOK'
    BY <2>1, <2>2 DEF ServerInv, ServerTypeOK
  <2>4. UNCHANGED <<subscribed, tenant, got>>
    BY <2>1 DEF vars, brokerVars
  <2>5. Handled' /\ Single' /\ Registered' /\ LoopRuns' /\ Shut'
    BY <2>1, <2>4 DEF ServerInv, Handled, Single, Registered, StillOpen, LoopRuns, Shut, Open
  <2>6. Served' /\ Forwarded'
    BY <2>1, <2>4 DEF ServerInv, Served, Open, Forwarded, InSeq
  <2> QED BY <2>2, <2>3, <2>5, <2>6 DEF ServerInv
<1>3. CASE StopDone
  <2>1. /\ UNCHANGED <<pubVars, got, conn, wire, connections, srvTenant, pushing, stuck, stopList,
                       arrived, overlapped>>
        /\ phase = "waiting" /\ phase' = "stopped" /\ DoClose /\ \A c \in Conns : ~Open(c)
    BY <1>3 DEF StopDone, Open
  <2>2. TypeOK' /\ MembershipAgrees' /\ Forth' /\ Quiet' /\ Queued'
    BY <2>1, ServerUnsubscribes
  <2>3. ServerTypeOK'
    BY <2>1, <2>2 DEF ServerInv, ServerTypeOK
  <2>4. subscribed' = {} /\ acks' = {} /\ tenant' = [a \in Agents |-> Default]
    BY <2>1 DEF DoClose
  <2>5. Handled' /\ Single' /\ Registered' /\ LoopRuns' /\ Shut'
    BY <2>1, <2>4 DEF ServerInv, Handled, Single, Registered, StillOpen, LoopRuns, Shut, Open
  <2>6. Served' /\ Forwarded'
    BY <2>1, <2>4 DEF ServerInv, Served, Open, Forwarded, InSeq
  <2> QED BY <2>2, <2>3, <2>5, <2>6 DEF ServerInv
<1>4. ASSUME NEW c \in Conns, StopOne(c) PROVE ServerInv'
  <2>1. /\ UNCHANGED <<pubVars, got, conn, connections, srvTenant, pushing, stuck, phase, arrived,
                       overlapped>>
        /\ phase = "closing" /\ wire' = wire \ {c} /\ stopList' = stopList \ {c}
        /\ DoUnsubscribe(AgentOf[c]) /\ AgentOf[c] \in Agents
    BY <1>0, <1>4 DEF StopOne
  <2>2. TypeOK' /\ MembershipAgrees' /\ Forth' /\ Quiet' /\ Queued'
    BY <2>1, ServerUnsubscribes
  <2>3. ServerTypeOK'
    BY <2>1, <2>2 DEF ServerInv, ServerTypeOK
  <2>4. /\ subscribed' = subscribed \ {AgentOf[c]} /\ tenant' = [tenant EXCEPT ![AgentOf[c]] = Default]
        /\ tenant \in [Agents -> Tenants]
    BY <2>1 DEF DoUnsubscribe, ServerInv, ServerTypeOK, TypeOK
  <2>5. Registered'
    BY <2>1, <2>4 DEF ServerInv, Registered, StillOpen
  <2>6. Handled' /\ Single' /\ LoopRuns' /\ Shut'
    BY <2>1, <2>4 DEF ServerInv, Handled, Single, LoopRuns, Shut, Open
  <2>7. Served' /\ Forwarded'
    BY <2>1, <2>4 DEF ServerInv, Served, Open, Forwarded, InSeq
  <2> QED BY <2>2, <2>3, <2>5, <2>6, <2>7 DEF ServerInv
<1> QED BY <1>1, <1>2, <1>3, <1>4
-----------------------------------------------------------------------------
(* The server's invariant *)

\* The invariant of the server holds at first, ...
LEMMA ServerStarts == ServerInit => ServerInv
<1> SUFFICES ASSUME ServerInit PROVE ServerInv
  OBVIOUS
<1>0. <<>> \in Seq(Msgs) /\ Len(<<>>) = 0
  BY EmptySeq
<1>1. TypeOK
  BY <1>0, BusAssumption DEF ServerInit, Init, TypeOK
<1>2. ServerTypeOK
  BY <1>0, <1>1, BusAssumption DEF ServerInit, ServerTypeOK
<1>3. MembershipAgrees
  BY DEF ServerInit, Init, MembershipAgrees
<1>4. \A a \in Agents : \A x : ~InSeq(box[a], x) /\ ~InSeq(got[a], x)
  BY <1>0 DEF ServerInit, Init, InSeq
<1>5. Forth /\ Queued /\ Forwarded
  BY <1>4 DEF Forth, Queued, Forwarded
<1>6. Handled /\ Single /\ Registered /\ Served /\ Shut /\ Quiet /\ LoopRuns
  BY DEF ServerInit, Init, Handled, Single, Registered, Served, Shut, Quiet, LoopRuns, Open, Published
<1> QED BY <1>2, <1>3, <1>5, <1>6 DEF ServerInv

\* ... is kept by every step, ...
LEMMA ServerSteps == ServerInv /\ [ServerNext]_allVars => ServerInv'
<1> SUFFICES ASSUME ServerInv, [ServerNext]_allVars PROVE ServerInv'
  OBVIOUS
<1>1. ASSUME NEW c \in Conns, NEW w \in Workflows \cup {None}, Connect(c, w) PROVE ServerInv'
  BY <1>1, ConnectKeeps
<1>2. ASSUME NEW c \in Conns, NEW m \in Msgs, NEW to \in Agents \cup {None},
             NEW w \in Workflows \cup {None}, ClientPublish(c, m, to, w)
      PROVE  ServerInv'
  BY <1>2, ClientPublishKeeps
<1>3. ASSUME NEW c \in Conns, NEW w \in Workflows, AppendSubscribe(c, w) PROVE ServerInv'
  BY <1>3, AppendKeeps
<1>4. ASSUME NEW c \in Conns, Unauthorized(c) \/ LinkBreaks(c) \/ HandlerEnds(c)
                              \/ PushTake(c) \/ PushSpins(c) \/ PushSend(c) \/ StopOne(c)
      PROVE  ServerInv'
  BY <1>4, LinkKeeps, HandlerKeeps, PushTakeKeeps, PushSendKeeps, StopKeeps
<1>5. CASE Stop \/ StopListening \/ StopDone
  BY <1>5, StopKeeps
<1>6. CASE UNCHANGED allVars
  <2>1. UNCHANGED <<vars, overlapped>> /\ UNCHANGED serverVars
    BY <1>6 DEF allVars, serverVars
  <2>2. TypeOK' /\ MembershipAgrees' /\ Forth' /\ Quiet' /\ Queued'
    BY <2>1, BrokerAlone
  <2>3. UNCHANGED <<conn, wire, connections, srvTenant, pushing, stuck, phase, stopList, arrived, overlapped>>
        /\ UNCHANGED <<subscribed, tenant, acks, got>>
    BY <2>1 DEF serverVars, vars, brokerVars
  <2>4. ServerTypeOK'
    BY <2>2, <2>3 DEF ServerInv, ServerTypeOK
  <2>5. Handled' /\ Single' /\ Registered' /\ LoopRuns' /\ Shut'
    BY <2>3 DEF ServerInv, Handled, Single, Registered, StillOpen, LoopRuns, Shut, Open
  <2>6. Served' /\ Forwarded'
    BY <2>3 DEF ServerInv, Served, Open, Forwarded, InSeq
  <2> QED BY <2>2, <2>4, <2>5, <2>6 DEF ServerInv
<1> QED BY <1>1, <1>2, <1>3, <1>4, <1>5, <1>6 DEF ServerNext

\* ... and has what the run checks.
LEMMA ServerInvSound == ServerInv => ServerSound
<1> SUFFICES ASSUME ServerInv PROVE ServerSound
  OBVIOUS
<1>1. ConnectedIsServed
  BY ServerAssumption DEF ServerInv, ServerTypeOK, Served, ConnectedIsServed, Open
<1>2. SameTenant
  <2>1. ASSUME NEW a \in Agents, tenant[a] = TenantOf[a], NEW i \in 1..Len(box[a])
        PROVE  TenantOf[mail[box[a][i]].from] = TenantOf[a]
                  \/ {a, mail[box[a][i]].from} \cap overlapped # {}
    <3>1. box[a] \in Seq(Msgs)
      BY DEF ServerInv, ServerTypeOK, TypeOK
    <3>2. box[a][i] \in Msgs /\ InSeq(box[a], box[a][i])
      BY <3>1, ElementOfSeq DEF InSeq
    <3> QED BY <2>1, <3>2 DEF ServerInv, Queued
  <2> QED BY <2>1 DEF SameTenant
<1>3. AckedHasArrived
  BY BusAssumption DEF ServerInv, Forwarded, AckedHasArrived
<1>4. CleanAfterStop
  BY DEF ServerInv, Shut, Registered, Handled, StillOpen, Open, CleanAfterStop
<1> QED BY <1>1, <1>2, <1>3, <1>4 DEF ServerInv, ServerSound

\* Whatever connections, push loops, broken links and stop() do to each other:
\* a connected client is registered in every table, its messages carry its
\* tenant and reach that tenant only, what is taken from a queue arrives unless
\* the link is down, the event loop runs on, and stop() leaves nothing behind.
THEOREM ServerCorrect == ServerSpec => []ServerSound
<1> QED BY ServerStarts, ServerSteps, ServerInvSound, PTL DEF ServerSpec
-----------------------------------------------------------------------------
(* The client *)

\* Someone awaits the answer of the socket in _ws, or reads from it.
Attended == user = "confirm" \/ recv \in {"recv", "confirm"}

\* Only an attended socket is held, and connected, without being an orphan: an
\* attempt that leaves its socket behind was not confirmed.
ClientInv ==
    /\ ws \in used \cup {NoSocket} /\ used \subseteq Socks
    /\ user \in {"idle", "dial", "confirm", "backoff"}
    /\ recv \in {"none", "recv", "sleep", "confirm"}
    /\ attempt \in 0..MaxAttempts
    /\ beats \subseteq Socks /\ beatTask \in Socks \cup {NoSocket}
    /\ up \subseteq used /\ held \subseteq used /\ orphans \subseteq used
    /\ recv # "none" => user = "idle" /\ ws # NoSocket
    /\ Attended => ws # NoSocket
    /\ \A s \in held : s \in orphans \/ (Attended /\ s = ws)
    /\ connected = TRUE /\ ws # NoSocket /\ ~Attended => ws \in orphans

\* The attempts are counted: after a failed one the next begins, or none is left.
LEMMA AttemptsCounted ==
    ASSUME attempt \in 0..MaxAttempts, NEW retry \in BOOLEAN,
           Failed(retry)
    PROVE  attempt' \in 0..MaxAttempts
<1>1. CASE retry
  <2>1. attempt < MaxAttempts /\ attempt' = attempt + 1
    BY <1>1 DEF Failed
  <2> QED BY <2>1, ClientAssumption DEF ClientAssumption
<1>2. CASE ~retry
  <2>1. attempt' = 0
    BY <1>2 DEF Failed
  <2> QED BY <2>1, ClientAssumption DEF ClientAssumption
<1> QED BY <1>1, <1>2

\* Every step of connect(), of the two loops and of disconnect() preserves it.
LEMMA ClientSteps ==
    ClientInv /\ [ClientNext]_clientVars => ClientInv'
<1> SUFFICES ASSUME ClientInv, [ClientNext]_clientVars PROVE ClientInv'
  OBVIOUS
<1> USE ClientAssumption DEF ClientInv, Attended
<1>1. ASSUME NEW s \in Socks, Dials(s) \/ Redials(s) PROVE ClientInv'
  BY <1>1 DEF Dials, Redials, Dial, beatVars
<1>2. ASSUME NEW s \in Socks, SocketBreaks(s) \/ HeartbeatWakes(s) PROVE ClientInv'
  BY <1>2 DEF SocketBreaks, HeartbeatWakes, beatVars, taskVars
<1>3. CASE Connects \/ BackoffOver
  BY <1>3 DEF Connects, BackoffOver, beatVars
<1>4. CASE Subscribed \/ Resubscribed
  BY <1>4 DEF Subscribed, Resubscribed, beatVars
<1>5. CASE Rejected \/ ReconnectRejected
  BY <1>5 DEF Rejected, ReconnectRejected, Gone, beatVars
<1>6. CASE AttemptFails
  <2>1. PICK retry \in BOOLEAN : Failed(retry) /\ user' = IF retry THEN "backoff" ELSE "idle"
    BY <1>6 DEF AttemptFails
  <2>2. attempt' \in 0..MaxAttempts /\ user' \in {"backoff", "idle"}
    BY <2>1, AttemptsCounted
  <2> QED BY <1>6, <2>2 DEF AttemptFails, Gone, Orphan, beatVars
<1>7. CASE ReconnectFails
  <2>1. PICK retry \in BOOLEAN : Failed(retry) /\ recv' = IF retry THEN "sleep" ELSE "none"
    BY <1>7 DEF ReconnectFails
  <2>2. attempt' \in 0..MaxAttempts /\ recv' \in {"sleep", "none"}
    BY <2>1, AttemptsCounted
  <2> QED BY <1>7, <2>2 DEF ReconnectFails, Gone, Orphan, beatVars
<1>8. CASE RecvCloses
  BY <1>8 DEF RecvCloses, Gone, beatVars
<1>9. CASE Disconnect
  BY <1>9 DEF Disconnect, Gone, beatVars
<1>10. CASE UNCHANGED clientVars
  BY <1>10 DEF clientVars, beatVars, taskVars
<1> QED
  BY <1>1, <1>2, <1>3, <1>4, <1>5, <1>6, <1>7, <1>8, <1>9, <1>10 DEF ClientNext

\* The client's view of its connection is true, for any number of sockets and
\* attempts: outside connect() and _reconnect it receives while is_connected
\* unless its last attempt was never confirmed, and it holds nothing open after
\* disconnect() but such attempts (bus/ws_client.py).
THEOREM ClientCorrect == ClientSpec => []SocketsSound
<1>0. ClientInit => connected \in BOOLEAN
  BY Zenon DEF ClientInit
<1>1. ClientInit => ClientInv
  BY ClientAssumption DEF ClientInit, ClientInv, Attended
<1>2. ClientInv /\ [ClientNext]_clientVars => ClientInv'
  BY ClientSteps
<1>3. connected \in BOOLEAN /\ [ClientNext]_clientVars => (connected \in BOOLEAN)'
  BY Zenon DEF ClientNext, clientVars, Dials, Redials, Dial,
     SocketBreaks, HeartbeatWakes, Connects, BackoffOver,
     Subscribed, Resubscribed, Rejected, ReconnectRejected,
     AttemptFails, ReconnectFails, RecvCloses, Disconnect
<1>4. ClientInv /\ connected \in BOOLEAN => ClientTypeOK
  BY DEF ClientInv, ClientTypeOK
<1>5. ClientInv => ConnectedReceives /\ DisconnectedIsClosed
  BY DEF ClientInv, Attended, ConnectedReceives, DisconnectedIsClosed,
         IsConnected
<1> QED
  BY <1>0, <1>1, <1>2, <1>3, <1>4, <1>5, PTL DEF ClientSpec, SocketsSound
=============================================================================
