--------------------------- MODULE ChatRoomProofs ---------------------------
(***************************************************************************)
(* No client of a room gets more messages, frames or bytes relayed than    *)
(* the limits allow, and no departed member stays online: for every number *)
(* of users, devices and sockets, every limit and every window.  A voice   *)
(* or video note sent to it arrives once, or not if it was cancelled.      *)
(***************************************************************************)
EXTENDS RoomPages, Media, LeastElement, SequenceTheorems, TLAPS

(* At time t the window w is the end of what was relayed, r, and what it     *)
(* dropped is older than a second.                                          *)
IsRecent(w, r, t) ==
    LET dropped == Len(r) - Len(w) IN
    /\ dropped >= 0
    /\ \A i \in 1..Len(w) : w[i] = r[dropped + i]
    /\ \A i \in 1..dropped : t - r[i] > Window

Spaced(r) ==
    \A i \in DOMAIN r : i + Limit \in DOMAIN r => r[i + Limit] - r[i] > Window

RateTypeOK ==
    /\ now \in Nat
    /\ device \in [Sockets -> Devices]
    /\ msgRateWindow \in [Users -> Seq(Nat)]
    /\ relayed \in [Users -> Seq(Nat)]

RateInv ==
    /\ RateTypeOK
    /\ \A u \in Users : IsRecent(msgRateWindow[u], relayed[u], now) /\ Spaced(relayed[u])

(* Eviction drops a part of the head, all of it older than a second.        *)
LEMMA EvictDropsOld ==
    ASSUME NEW times \in Seq(Nat), now \in Nat
    PROVE  \E start \in 0..Len(times) :
               /\ Evict(times) = SubSeq(times, start + 1, Len(times))
               /\ \A i \in 1..start : now - times[i] > Window
<1> DEFINE P(k) == /\ \A i \in 1..k : now - times[i] > Window
                   /\ k < Len(times) => now - times[k + 1] <= Window
           S == {k \in 0..Len(times) : k < Len(times) => now - times[k + 1] <= Window}
<1>1. \E k \in 0..Len(times) : P(k)
  <2>1. S \in SUBSET Nat /\ Len(times) \in S
    OBVIOUS
  <2>2. PICK k \in S : \A j \in S : k <= j
    BY <2>1, LeastExists
  <2>3. ASSUME NEW i \in 1..k PROVE now - times[i] > Window
    <3>1. i - 1 \in 0..Len(times) /\ i - 1 < Len(times) /\ i - 1 < k
      BY <2>1, <2>2
    <3>2. i - 1 \notin S
      BY <2>1, <2>2, <3>1
    <3>3. ~(now - times[(i - 1) + 1] <= Window)
      BY <3>1, <3>2
    <3>4. (i - 1) + 1 = i /\ i \in 1..Len(times)
      BY <3>1
    <3>5. times[i] \in Nat /\ Window \in Nat
      BY <3>4, RoomAssumption
    <3> QED
      BY <3>3, <3>4, <3>5
  <2> QED
    BY <2>2, <2>3
<1> DEFINE start == CHOOSE k \in 0..Len(times) : P(k)
<1>2. start \in 0..Len(times) /\ P(start)
  BY <1>1
<1>3. Evict(times) = SubSeq(times, start + 1, Len(times))
  BY DEF Evict
<1> QED
  BY <1>2, <1>3

(* So the window remains recent.                                            *)
LEMMA EvictKeepsRecent ==
    ASSUME NEW w \in Seq(Nat), NEW r \in Seq(Nat), now \in Nat, IsRecent(w, r, now)
    PROVE  Evict(w) \in Seq(Nat) /\ IsRecent(Evict(w), r, now)
<1>1. PICK start \in 0..Len(w) :
         /\ Evict(w) = SubSeq(w, start + 1, Len(w))
         /\ \A i \in 1..start : now - w[i] > Window
  BY EvictDropsOld
<1> DEFINE recent == Evict(w)
           dropped == Len(r) - Len(w)
           old == Len(r) - Len(recent)
<1>2. /\ recent \in Seq(Nat) /\ Len(recent) = Len(w) - start
      /\ \A i \in 1..Len(recent) : recent[i] = w[start + i]
  <2>1. \A i \in (start + 1)..Len(w) : w[i] \in Nat
    OBVIOUS
  <2> QED
    BY <1>1, <2>1, SubSeqProperties
<1>3. /\ dropped >= 0
      /\ \A i \in 1..Len(w) : w[i] = r[dropped + i]
      /\ \A i \in 1..dropped : now - r[i] > Window
  BY DEF IsRecent
<1>4. /\ Len(r) \in Nat /\ Len(w) \in Nat /\ start \in Nat /\ start <= Len(w)
      /\ Len(recent) \in Nat /\ dropped \in Nat
  BY <1>2, <1>3
<1> HIDE DEF recent
<1>5. old = dropped + start
  BY <1>2, <1>4
<1>6. ASSUME NEW i \in 1..Len(recent) PROVE recent[i] = r[old + i]
  <2>1. start + i \in 1..Len(w)
    BY <1>2, <1>4
  <2>2. w[start + i] = r[dropped + (start + i)]
    BY <1>3, <2>1
  <2> HIDE DEF dropped, old
  <2>3. dropped + (start + i) = old + i
    BY <1>4, <1>5
  <2> QED
    BY <1>2, <2>2, <2>3
<1>7. ASSUME NEW i \in 1..old PROVE now - r[i] > Window
  <2>1. CASE i \in 1..dropped
    BY <1>3, <2>1
  <2>2. CASE i \notin 1..dropped
    <3>1. i - dropped \in 1..start /\ i - dropped \in 1..Len(w) /\ dropped + (i - dropped) = i
      BY <1>4, <1>5, <2>2
    <3>2. w[i - dropped] = r[dropped + (i - dropped)] /\ now - w[i - dropped] > Window
      BY <1>1, <1>3, <3>1
    <3> QED
      BY <3>1, <3>2
  <2> QED
    BY <2>1, <2>2
<1>8. old >= 0
  BY <1>4, <1>5
<1>9. IsRecent(recent, r, now)
  BY <1>6, <1>7, <1>8 DEF IsRecent
<1> QED
  BY <1>2, <1>9 DEF recent

(* What is relayed now joins both.                                          *)
LEMMA JoinKeepsRecent ==
    ASSUME NEW w \in Seq(Nat), NEW r \in Seq(Nat), NEW t \in Nat, IsRecent(w, r, t)
    PROVE  IsRecent(Append(w, t), Append(r, t), t)
<1> DEFINE w2 == Append(w, t)
           r2 == Append(r, t)
           old == Len(r) - Len(w)
<1>1. /\ Len(w2) = Len(w) + 1 /\ Len(r2) = Len(r) + 1
      /\ \A i \in 1..Len(w) : w2[i] = w[i]
      /\ \A i \in 1..Len(r) : r2[i] = r[i]
      /\ w2[Len(w) + 1] = t /\ r2[Len(r) + 1] = t
  OBVIOUS
<1>2. Len(w) \in Nat /\ Len(r) \in Nat
  OBVIOUS
<1>3. /\ old \in Nat /\ old <= Len(r)
      /\ \A i \in 1..Len(w) : w[i] = r[old + i]
      /\ \A i \in 1..old : t - r[i] > Window
  BY <1>2 DEF IsRecent
<1> HIDE DEF w2, r2
<1>4. Len(r2) - Len(w2) = old
  BY <1>1, <1>2
<1>5. ASSUME NEW i \in 1..Len(w2) PROVE w2[i] = r2[old + i]
  <2>1. CASE i \in 1..Len(w)
    <3>1. old + i \in 1..Len(r)
      BY <1>2, <1>3, <2>1
    <3> QED
      BY <1>1, <1>3, <2>1, <3>1
  <2>2. CASE i = Len(w) + 1
    <3>1. old + i = Len(r) + 1
      BY <1>2, <2>2
    <3> QED
      BY <1>1, <2>2, <3>1
  <2> QED
    BY <1>1, <1>2, <2>1, <2>2
<1>6. ASSUME NEW i \in 1..old PROVE t - r2[i] > Window
  <2>1. i \in 1..Len(r)
    BY <1>2, <1>3
  <2> QED
    BY <1>1, <1>3, <2>1
<1>7. IsRecent(w2, r2, t)
  BY <1>3, <1>4, <1>5, <1>6 DEF IsRecent
<1> QED
  BY <1>7 DEF w2, r2

(* A message that joins a window of less than Limit comes more than a       *)
(* second after the one Limit messages before it, which was dropped.        *)
LEMMA RelayKeepsRate ==
    ASSUME NEW w \in Seq(Nat), NEW r \in Seq(Nat), NEW t \in Nat,
           IsRecent(w, r, t), Spaced(r), Len(w) < Limit
    PROVE  IsRecent(Append(w, t), Append(r, t), t) /\ Spaced(Append(r, t))
<1> DEFINE r2 == Append(r, t)
           old == Len(r) - Len(w)
<1>1. /\ \A i \in 1..Len(r) : r2[i] = r[i]
      /\ r2[Len(r) + 1] = t
      /\ DOMAIN r2 = 1..(Len(r) + 1) /\ DOMAIN r = 1..Len(r)
  OBVIOUS
<1>2. Len(w) \in Nat /\ Len(r) \in Nat /\ Limit \in Nat \ {0}
  BY RoomAssumption
<1>3. old \in Nat /\ \A i \in 1..old : t - r[i] > Window
  BY <1>2 DEF IsRecent
<1> HIDE DEF r2
<1>4. ASSUME NEW i \in DOMAIN r2, i + Limit \in DOMAIN r2
      PROVE  r2[i + Limit] - r2[i] > Window
  <2>1. CASE i + Limit \in 1..Len(r)
    <3>1. i \in 1..Len(r)
      BY <1>1, <1>2, <2>1
    <3>2. r[i + Limit] - r[i] > Window
      BY <1>1, <2>1, <3>1 DEF Spaced
    <3> QED
      BY <1>1, <2>1, <3>1, <3>2
  <2>2. CASE i + Limit = Len(r) + 1
    <3>1. i \in 1..old /\ i \in 1..Len(r)
      BY <1>1, <1>2, <2>2
    <3> QED
      BY <1>1, <1>3, <2>2, <3>1
  <2> QED
    BY <1>1, <1>2, <1>4, <2>1, <2>2
<1>5. Spaced(r2)
  BY <1>4 DEF Spaced
<1> QED
  BY <1>5, JoinKeepsRecent DEF r2

(* Time passes: what is older than a second remains so.                     *)
LEMMA TimeKeepsRecent ==
    ASSUME NEW w \in Seq(Nat), NEW r \in Seq(Nat), NEW t \in Nat, NEW t2 \in Nat,
           t <= t2, IsRecent(w, r, t)
    PROVE  IsRecent(w, r, t2)
<1>1. ASSUME NEW i \in 1..(Len(r) - Len(w)) PROVE t2 - r[i] > Window
  <2>1. t - r[i] > Window
    BY DEF IsRecent
  <2>2. Len(r) \in Nat /\ Len(w) \in Nat /\ Window \in Nat
    BY RoomAssumption
  <2>3. r[i] \in Nat
    <3>1. i \in 1..Len(r)
      BY <2>2
    <3> QED
      BY <3>1
  <2> QED
    BY <2>1, <2>2, <2>3
<1> QED
  BY <1>1 DEF IsRecent

(* A window that is old altogether may be forgotten.                        *)
LEMMA OldMayBeForgotten ==
    ASSUME NEW w \in Seq(Nat), NEW r \in Seq(Nat), NEW t \in Nat, IsRecent(w, r, t),
           \A i \in DOMAIN w : t - w[i] > Idle
    PROVE  IsRecent(<<>>, r, t)
<1> DEFINE dropped == Len(r) - Len(w)
<1>1. /\ Len(r) \in Nat /\ Len(w) \in Nat /\ DOMAIN w = 1..Len(w)
      /\ Window \in Nat /\ Idle \in Nat /\ Idle >= Window
  BY RoomAssumption
<1>2. /\ dropped \in Nat
      /\ \A i \in 1..Len(w) : w[i] = r[dropped + i]
      /\ \A i \in 1..dropped : t - r[i] > Window
  BY <1>1 DEF IsRecent
<1>3. ASSUME NEW i \in 1..Len(r) PROVE t - r[i] > Window
  <2>1. CASE i \in 1..dropped
    BY <1>2, <2>1
  <2>2. CASE i \notin 1..dropped
    <3>1. i - dropped \in 1..Len(w) /\ dropped + (i - dropped) = i
      BY <1>1, <1>2, <2>2
    <3>2. w[i - dropped] = r[i] /\ t - w[i - dropped] > Idle
      BY <1>1, <1>2, <3>1
    <3>3. r[i] \in Nat
      OBVIOUS
    <3>4. t - r[i] > Idle
      BY <3>2
    <3> QED
      BY <1>1, <3>3, <3>4
  <2> QED
    BY <2>1, <2>2
<1> QED
  BY <1>1, <1>3 DEF IsRecent

-----------------------------------------------------------------------------
(* In the first state nothing was relayed.                                  *)
LEMMA RateInit == RoomInit => RateInv
<1> SUFFICES ASSUME RoomInit PROVE RateInv
  OBVIOUS
<1>1. RateTypeOK
  BY DEF RoomInit, RateTypeOK
<1>2. ASSUME NEW u \in Users
      PROVE  IsRecent(msgRateWindow[u], relayed[u], now) /\ Spaced(relayed[u])
  BY DEF RoomInit, IsRecent, Spaced
<1> QED
  BY <1>1, <1>2 DEF RateInv

(* A message that is relayed or refused.                                    *)
LEMMA MessageKeepsRate ==
    ASSUME RateInv, NEW s \in Sockets, HandleMessage(s)
    PROVE  RateInv'
<1> DEFINE u == UserOf[device[s]]
           w == msgRateWindow[u]
           r == relayed[u]
           recent == Evict(w)
           allowed == Len(recent) < Limit
<1>1. u \in Users /\ now \in Nat /\ w \in Seq(Nat) /\ r \in Seq(Nat)
      /\ IsRecent(w, r, now) /\ Spaced(r)
  BY RoomAssumption DEF RateInv, RateTypeOK
<1>2. recent \in Seq(Nat) /\ IsRecent(recent, r, now)
  BY <1>1, EvictKeepsRecent
<1>3. /\ msgRateWindow' = [msgRateWindow EXCEPT ![u] = IF allowed THEN Append(recent, now) ELSE recent]
      /\ relayed' = [relayed EXCEPT ![u] = IF allowed THEN Append(r, now) ELSE r]
      /\ UNCHANGED <<device, now>>
  BY DEF HandleMessage
<1>4. allowed => IsRecent(Append(recent, now), Append(r, now), now) /\ Spaced(Append(r, now))
  BY <1>1, <1>2, RelayKeepsRate
<1>5. RateTypeOK'
  <2>1. Append(recent, now) \in Seq(Nat) /\ Append(r, now) \in Seq(Nat)
    BY <1>1, <1>2
  <2> QED
    BY <1>1, <1>2, <1>3, <2>1 DEF RateInv, RateTypeOK
<1>6. ASSUME NEW v \in Users
      PROVE  IsRecent(msgRateWindow'[v], relayed'[v], now') /\ Spaced(relayed'[v])
  <2>1. CASE v = u
    BY <1>1, <1>2, <1>3, <1>4, <2>1 DEF RateInv, RateTypeOK
  <2>2. CASE v # u
    BY <1>3, <2>2 DEF RateInv, RateTypeOK
  <2> QED
    BY <2>1, <2>2
<1> QED
  BY <1>5, <1>6 DEF RateInv

(* Every other step leaves the messages alone, forgets them or lets time    *)
(* pass.                                                                    *)
LEMMA RateStep == RateInv /\ [RoomNext]_roomVars => RateInv'
<1> SUFFICES ASSUME RateInv, [RoomNext]_roomVars PROVE RateInv'
  OBVIOUS
<1> USE DEF RateInv
<1>1. ASSUME UNCHANGED <<now, msgRateWindow, relayed>>, device' \in [Sockets -> Devices]
      PROVE  RateInv'
  BY <1>1 DEF RateTypeOK
<1>2. ASSUME NEW s \in Sockets, NEW d \in Devices, Accept(s, d) PROVE RateInv'
  <2>1. device' \in [Sockets -> Devices]
    BY <1>2 DEF Accept, RateTypeOK
  <2> QED
    BY <1>1, <1>2, <2>1 DEF Accept, windows
<1>3. ASSUME NEW s \in Sockets, SocketEnds(s) PROVE RateInv'
  <2> DEFINE u == UserOf[device[s]]
  <2>1. /\ msgRateWindow' = [msgRateWindow EXCEPT ![u] = <<>>]
        /\ relayed' = [relayed EXCEPT ![u] = <<>>]
        /\ UNCHANGED <<device, now>>
    BY <1>3 DEF SocketEnds
  <2>2. RateTypeOK'
    <3>1. <<>> \in Seq(Nat)
      OBVIOUS
    <3> HIDE DEF u
    <3> QED
      BY <2>1, <3>1 DEF RateTypeOK
  <2>3. ASSUME NEW v \in Users
        PROVE  IsRecent(msgRateWindow'[v], relayed'[v], now') /\ Spaced(relayed'[v])
    <3>1. CASE v = u
      <4>1. msgRateWindow'[v] = <<>> /\ relayed'[v] = <<>>
        BY <2>1, <3>1 DEF RateTypeOK
      <4>2. IsRecent(<<>>, <<>>, now') /\ Spaced(<<>>)
        BY DEF IsRecent, Spaced
      <4> QED
        BY <4>1, <4>2
    <3>2. CASE v # u
      BY <2>1, <3>2 DEF RateTypeOK
    <3> QED
      BY <3>1, <3>2
  <2> QED
    BY <2>2, <2>3
<1>4. ASSUME NEW s \in Sockets, HandleMessage(s) PROVE RateInv'
  BY <1>4, MessageKeepsRate
<1>5. ASSUME NEW s \in Sockets, NEW kind \in Kinds, NEW size \in Sizes, HandleFrame(s, kind, size)
      PROVE  RateInv'
  BY <1>1, <1>5 DEF HandleFrame, RateTypeOK
<1>6. ASSUME Hibernate PROVE RateInv'
  <2>1. msgRateWindow' = [u \in Users |-> <<>>] /\ UNCHANGED <<device, relayed, now>>
    BY <1>6 DEF Hibernate
  <2>2. RateTypeOK'
    BY <2>1 DEF RateTypeOK
  <2>3. ASSUME NEW u \in Users
        PROVE  IsRecent(msgRateWindow'[u], relayed'[u], now') /\ Spaced(relayed'[u])
    <3>1. /\ msgRateWindow[u] \in Seq(Nat) /\ relayed[u] \in Seq(Nat) /\ now \in Nat
          /\ IsRecent(msgRateWindow[u], relayed[u], now) /\ Spaced(relayed[u])
      BY DEF RateTypeOK
    <3>2. \A i \in DOMAIN msgRateWindow[u] : now - msgRateWindow[u][i] > Idle
      BY <1>6 DEF Hibernate
    <3>3. IsRecent(<<>>, relayed[u], now)
      BY <3>1, <3>2, OldMayBeForgotten
    <3> QED
      BY <2>1, <3>1, <3>3
  <2> QED
    BY <2>2, <2>3
<1>7. ASSUME Tick PROVE RateInv'
  <2>1. UNCHANGED <<device, msgRateWindow, relayed>> /\ now' = now + 1
    BY <1>7 DEF Tick, windows
  <2>2. RateTypeOK'
    BY <2>1 DEF RateTypeOK
  <2>3. ASSUME NEW u \in Users
        PROVE  IsRecent(msgRateWindow'[u], relayed'[u], now') /\ Spaced(relayed'[u])
    <3>1. IsRecent(msgRateWindow[u], relayed[u], now + 1)
      <4>1. now + 1 \in Nat /\ now <= now + 1
        BY DEF RateTypeOK
      <4> QED
        BY <4>1, TimeKeepsRecent DEF RateTypeOK
    <3> QED
      BY <2>1, <3>1
  <2> QED
    BY <2>2, <2>3
<1>8. ASSUME Outside PROVE RateInv'
  BY <1>1, <1>8 DEF Outside, windows, RateTypeOK
<1>9. ASSUME UNCHANGED roomVars PROVE RateInv'
  BY <1>1, <1>9 DEF roomVars, RateTypeOK
<1> QED
  BY <1>2, <1>3, <1>4, <1>5, <1>6, <1>7, <1>8, <1>9 DEF RoomNext

(* Any Limit + 1 messages relayed in a row while no socket of their sender  *)
(* ends span more than a second.                                            *)
THEOREM RelayedWithinLimitHolds == RoomSpec => []RelayedWithinLimit
<1>1. RateInv => RelayedWithinLimit
  BY DEF RateInv, Spaced, RelayedWithinLimit
<1> QED
  BY <1>1, RateInit, RateStep, PTL DEF RoomSpec

-----------------------------------------------------------------------------
Frame == [at : Nat, kind : Kinds, from : Nat, upto : Nat]

FrameTypeOK ==
    /\ now \in Nat
    /\ device \in [Sockets -> Devices]
    /\ mediaRateWindow \in [Users -> [t : Seq(Nat), bytes : Nat]]
    /\ framed \in [Users -> Seq(Frame)]

Ats(f) == [i \in 1..Len(f) |-> f[i].at]

(* The bytes of earlier frames come first.                                  *)
Rising(f) ==
    \A i, j \in 1..Len(f) : i <= j => f[i].from <= f[j].from /\ f[i].from <= f[j].upto

(* The accumulator of a window t counts at least the frames it holds.       *)
Covers(t, bytes, f) ==
    t # <<>> => f[Len(f)].upto - f[Len(f) - Len(t) + 1].from <= bytes

Bounded(f) ==
    \A i, j \in 1..Len(f) :
        i <= j /\ f[j].at - f[i].at <= Window =>
            j - i < MaxFps[f[j].kind] /\ f[j].upto - f[i].from <= MaxBytes

(* What holds of a user's window, its accumulator and their frames.         *)
Tallied(t, bytes, f, time) ==
    IsRecent(t, Ats(f), time) /\ Rising(f) /\ Covers(t, bytes, f) /\ Bounded(f)

FrameInv ==
    /\ FrameTypeOK
    /\ \A u \in Users :
           Tallied(mediaRateWindow[u].t, mediaRateWindow[u].bytes, framed[u], now)

LEMMA FrameTyped ==
    ASSUME NEW f \in Frame
    PROVE  f.at \in Nat /\ f.kind \in Kinds /\ f.from \in Nat /\ f.upto \in Nat
BY DEF Frame

LEMMA FramesTyped ==
    ASSUME NEW f \in Seq(Frame)
    PROVE  \A i \in 1..Len(f) : f[i].at \in Nat /\ f[i].kind \in Kinds
                                 /\ f[i].from \in Nat /\ f[i].upto \in Nat
<1> SUFFICES ASSUME NEW i \in 1..Len(f)
             PROVE  f[i].at \in Nat /\ f[i].kind \in Kinds /\ f[i].from \in Nat /\ f[i].upto \in Nat
  OBVIOUS
<1>1. f[i] \in Frame
  OBVIOUS
<1> QED
  BY <1>1, FrameTyped

LEMMA AtsTyped ==
    ASSUME NEW f \in Seq(Frame)
    PROVE  Ats(f) \in Seq(Nat) /\ Len(Ats(f)) = Len(f) /\ \A i \in 1..Len(f) : Ats(f)[i] = f[i].at
<1>1. \A i \in 1..Len(f) : f[i].at \in Nat
  BY FramesTyped
<1> QED
  BY <1>1 DEF Ats

(* No frame, no claim.                                                      *)
LEMMA NoneTallied == ASSUME NEW time \in Nat PROVE Tallied(<<>>, 0, <<>>, time)
<1> DEFINE none == <<>>
<1>1. none \in Seq(Frame) /\ Len(none) = 0
  OBVIOUS
<1>2. Ats(none) \in Seq(Nat) /\ Len(Ats(none)) = 0
  <2> HIDE DEF none
  <2> QED
    BY <1>1, AtsTyped
<1> QED
  BY <1>1, <1>2 DEF Tallied, IsRecent, Rising, Covers, Bounded

(* The accumulator is not lowered when frames leave the window, and is       *)
(* reset when none remains.                                                 *)
LEMMA EvictKeepsTallied ==
    ASSUME NEW t \in Seq(Nat), NEW bytes \in Nat, NEW f \in Seq(Frame), now \in Nat,
           Tallied(t, bytes, f, now)
    PROVE  /\ Evict(t) \in Seq(Nat)
           /\ Tallied(Evict(t), IF Evict(t) = <<>> THEN 0 ELSE bytes, f, now)
<1> DEFINE t2 == Evict(t)
<1>1. /\ t2 \in Seq(Nat) /\ IsRecent(t2, Ats(f), now)
  BY AtsTyped, EvictKeepsRecent DEF Tallied
<1>2. Len(t2) <= Len(t) /\ (t2 # <<>> => t # <<>>)
  <2>1. PICK start \in 0..Len(t) : t2 = SubSeq(t, start + 1, Len(t))
    BY EvictDropsOld
  <2>2. Len(t2) = Len(t) - start
    <3>1. \A i \in (start + 1)..Len(t) : t[i] \in Nat
      OBVIOUS
    <3> QED
      BY <2>1, <3>1, SubSeqProperties
  <2>3. Len(t2) <= Len(t)
    BY <2>2
  <2>4. t = <<>> => Len(t2) = 0
    BY <1>1, <2>3
  <2> QED
    BY <1>1, <2>3, <2>4
<1>3. /\ Len(t) \in Nat /\ Len(t2) \in Nat /\ Len(f) \in Nat
      /\ Len(f) - Len(t) >= 0
  BY <1>1, AtsTyped DEF Tallied, IsRecent
<1> HIDE DEF t2
<1>4. ASSUME t2 # <<>> PROVE f[Len(f)].upto - f[Len(f) - Len(t2) + 1].from <= bytes
  <2> DEFINE i == Len(f) - Len(t) + 1
             j == Len(f) - Len(t2) + 1
  <2>1. Len(t2) # 0
    BY <1>1, <1>4
  <2>2. i \in 1..Len(f) /\ j \in 1..Len(f) /\ i <= j /\ Len(f) \in 1..Len(f)
    BY <1>2, <1>3, <2>1
  <2>3. f[i].from <= f[j].from
    BY <2>2 DEF Tallied, Rising
  <2>4. f[Len(f)].upto - f[i].from <= bytes
    BY <1>2, <1>4 DEF Tallied, Covers
  <2>5. f[i].from \in Nat /\ f[j].from \in Nat /\ f[Len(f)].upto \in Nat
    BY <2>2, FramesTyped
  <2> HIDE DEF i, j
  <2>6. f[Len(f)].upto - f[j].from <= bytes
    BY <2>3, <2>4, <2>5
  <2> QED
    BY <2>6 DEF j
<1>5. Covers(t2, IF t2 = <<>> THEN 0 ELSE bytes, f)
  BY <1>4 DEF Covers
<1> QED
  BY <1>1, <1>5 DEF Tallied, t2

(* A frame that the window admits.                                          *)
LEMMA FrameKeepsTallied ==
    ASSUME NEW t \in Seq(Nat), NEW bytes \in Nat, NEW f \in Seq(Frame), NEW time \in Nat,
           NEW kind \in Kinds, NEW size \in Nat, NEW before \in Nat,
           before = (IF f = <<>> THEN 0 ELSE f[Len(f)].upto),
           t = <<>> => bytes = 0,
           Tallied(t, bytes, f, time), Len(t) < MaxFps[kind], bytes + size <= MaxBytes,
           NEW frame \in Frame, frame.at = time, frame.kind = kind,
           frame.from = before, frame.upto = before + size
    PROVE  Append(f, frame) \in Seq(Frame) /\ Tallied(Append(t, time), bytes + size, Append(f, frame), time)
<1> DEFINE f2 == Append(f, frame)
           t2 == Append(t, time)
           n == Len(f)
<1>1. frame.at = time /\ frame.kind = kind /\ frame.from = before /\ frame.upto = before + size
  OBVIOUS
<1>2. /\ f2 \in Seq(Frame) /\ Len(f2) = n + 1 /\ n \in Nat
      /\ f2[n + 1] = frame
      /\ \A i \in 1..n : f2[i] = f[i]
      /\ t2 \in Seq(Nat) /\ Len(t2) = Len(t) + 1 /\ Len(t) \in Nat
  BY <1>1
<1>3. \A i \in 1..n : /\ f[i].at \in Nat /\ f[i].from \in Nat /\ f[i].upto \in Nat
                      /\ f[i].kind \in Kinds
  BY FramesTyped DEF n
<1>4. /\ n - Len(t) >= 0
      /\ \A i \in 1..(n - Len(t)) : time - f[i].at > Window
  <2>1. Len(Ats(f)) = n /\ \A i \in 1..n : Ats(f)[i] = f[i].at
    BY AtsTyped
  <2>2. n - Len(t) >= 0 /\ \A i \in 1..(n - Len(t)) : time - Ats(f)[i] > Window
    BY <2>1 DEF Tallied, IsRecent
  <2>3. \A i \in 1..(n - Len(t)) : i \in 1..n
    BY <1>2
  <2> QED
    BY <2>1, <2>2, <2>3
<1>5. f # <<>> => n \in 1..n /\ before = f[n].upto
  BY <1>2
<1>6. ASSUME NEW i \in 1..n PROVE f[i].from <= before
  <2>1. n \in 1..n /\ i <= n /\ f # <<>>
    BY <1>2
  <2>2. f[i].from <= f[n].upto
    BY <2>1 DEF Tallied, Rising
  <2> QED
    BY <1>5, <2>1, <2>2
<1> HIDE DEF f2, t2, n
<1>0. n \in Nat /\ Len(t) \in Nat /\ \A i \in 1..(n + 1) : i = n + 1 \/ i \in 1..n
  BY <1>2
<1>7. IsRecent(t2, Ats(f2), time)
  <2>1. Ats(f2) = Append(Ats(f), time)
    <3>1. /\ Ats(f2) \in Seq(Nat) /\ Len(Ats(f2)) = n + 1
          /\ Append(Ats(f), time) \in Seq(Nat) /\ Len(Append(Ats(f), time)) = n + 1
      BY <1>2, AtsTyped DEF n
    <3>2. ASSUME NEW i \in 1..(n + 1) PROVE Ats(f2)[i] = Append(Ats(f), time)[i]
      <4>1. Ats(f2)[i] = f2[i].at
        BY <1>2, AtsTyped
      <4>2. CASE i = n + 1
        <5>1. Append(Ats(f), time)[i] = time
          BY <1>2, <4>2, AtsTyped DEF n
        <5> QED
          BY <1>1, <1>2, <4>1, <4>2, <5>1
      <4>3. CASE i \in 1..n
        <5>1. Append(Ats(f), time)[i] = f[i].at
          BY <1>2, <4>3, AtsTyped DEF n
        <5> QED
          BY <1>2, <4>1, <4>3, <5>1
      <4> QED
        BY <1>0, <4>2, <4>3
    <3> QED
      BY <1>2, <3>1, <3>2, SeqEqual
  <2>2. IsRecent(Append(t, time), Append(Ats(f), time), time)
    BY AtsTyped, JoinKeepsRecent DEF Tallied
  <2> QED
    BY <2>1, <2>2 DEF t2
<1>8. Rising(f2)
  <2>1. ASSUME NEW i \in 1..(n + 1), NEW j \in 1..(n + 1), i <= j
        PROVE  f2[i].from <= f2[j].from /\ f2[i].from <= f2[j].upto
    <3>1. CASE j \in 1..n
      <4>1. i \in 1..n
        BY <1>2, <2>1, <3>1
      <4> QED
        BY <1>2, <2>1, <3>1, <4>1 DEF Tallied, Rising, n
    <3>2. CASE j = n + 1 /\ i \in 1..n
      <4>1. PICK a \in Nat : a = f[i].from
        BY <1>3, <3>2
      <4>2. f2[i].from = a /\ f2[j].from = before /\ f2[j].upto = before + size /\ a <= before
        BY <1>1, <1>2, <1>6, <3>2, <4>1
      <4>3. a <= before + size
        BY <4>2
      <4> QED
        BY <4>2, <4>3
    <3>3. CASE j = n + 1 /\ i = n + 1
      <4>1. f2[i].from = before /\ f2[j].from = before /\ f2[j].upto = before + size
        BY <1>1, <1>2, <3>3
      <4>2. before <= before /\ before <= before + size
        OBVIOUS
      <4> QED
        BY <4>1, <4>2
    <3>4. i = n + 1 => j = n + 1
      BY <1>0, <2>1
    <3> QED
      BY <1>0, <3>1, <3>2, <3>3, <3>4
  <2> QED
    BY <1>2, <2>1 DEF Rising
<1>9. Covers(t2, bytes + size, f2)
  <2>1. CASE t = <<>>
    <3>1. Len(f2) - Len(t2) + 1 = n + 1
      BY <1>2, <2>1
    <3> QED
      BY <1>1, <1>2, <2>1, <3>1 DEF Covers
  <2>2. CASE t # <<>>
    <3> DEFINE i == n - Len(t) + 1
    <3>1. Len(t) # 0
      BY <2>2
    <3>2. i \in 1..n /\ n \in 1..n /\ Len(f2) - Len(t2) + 1 = i
      BY <1>2, <1>4, <3>1
    <3>3. f[n].upto - f[i].from <= bytes
      BY <2>2 DEF Tallied, Covers, n
    <3>4. before = f[n].upto
      BY <1>2, <1>5, <3>2 DEF n
    <3> HIDE DEF i
    <3>5. f2[n + 1].upto - f2[i].from <= bytes + size
      <4>1. PICK a \in Nat : a = f[i].from
        BY <1>3, <3>2
      <4>2. f2[n + 1].upto = before + size /\ f2[i].from = a /\ before - a <= bytes
        BY <1>1, <1>2, <3>2, <3>3, <3>4, <4>1
      <4>3. (before + size) - a <= bytes + size
        BY <4>2
      <4> QED
        BY <4>2, <4>3
    <3> QED
      BY <1>2, <3>2, <3>5 DEF Covers
  <2> QED
    BY <2>1, <2>2
<1>10. Bounded(f2)
  <2>1. ASSUME NEW i \in 1..(n + 1), NEW j \in 1..(n + 1), i <= j,
               f2[j].at - f2[i].at <= Window
        PROVE  j - i < MaxFps[f2[j].kind] /\ f2[j].upto - f2[i].from <= MaxBytes
    <3>1. CASE j \in 1..n
      <4>1. i \in 1..n
        BY <1>2, <2>1, <3>1
      <4> QED
        BY <1>2, <2>1, <3>1, <4>1 DEF Tallied, Bounded, n
    <3>2. CASE j = n + 1
      <4>1. MaxFps[kind] \in Nat /\ MaxBytes \in Nat
        BY RoomAssumption
      <4>2. CASE i = n + 1
        <5>1. f2[j].upto = before + size /\ f2[i].from = before /\ f2[j].kind = kind
          BY <1>1, <1>2, <3>2, <4>2
        <5>2. j - i = 0 /\ (before + size) - before = size
          BY <1>0, <3>2, <4>2
        <5>3. 0 < MaxFps[kind] /\ size <= MaxBytes
          BY <1>0, <4>1
        <5> QED
          BY <5>1, <5>2, <5>3
      <4>3. CASE i \in 1..n
        <5>1. time - f[i].at <= Window
          BY <1>1, <1>2, <2>1, <3>2, <4>3
        <5>2. i \notin 1..(n - Len(t))
          <6>1. PICK a \in Nat : a = f[i].at
            BY <1>3, <4>3
          <6>2. Window \in Nat /\ time - a <= Window
            BY <5>1, <6>1, RoomAssumption
          <6>3. ~(time - a > Window)
            BY <6>2
          <6> QED
            BY <1>4, <6>1, <6>3
        <5>3. j - i <= Len(t) /\ i >= n - Len(t) + 1 /\ Len(t) # 0
          BY <1>2, <1>4, <3>2, <4>3, <5>2
        <5> DEFINE k == n - Len(t) + 1
        <5>4. k \in 1..n /\ k <= i /\ n \in 1..n /\ t # <<>>
          BY <1>2, <1>4, <4>3, <5>3
        <5>5. f[n].upto - f[k].from <= bytes
          BY <5>4 DEF Tallied, Covers, n
        <5>6. f[k].from <= f[i].from
          BY <4>3, <5>4 DEF Tallied, Rising, n
        <5>7. before = f[n].upto
          BY <1>2, <1>5, <5>4 DEF n
        <5> HIDE DEF k
        <5>8. f2[j].upto = before + size /\ f2[i].from = f[i].from /\ f2[j].kind = kind
          BY <1>1, <1>2, <3>2, <4>3
        <5>9. PICK a \in Nat, b \in Nat : a = f[k].from /\ b = f[i].from
          BY <1>3, <4>3, <5>4
        <5>10. before - a <= bytes /\ a <= b
          BY <5>5, <5>6, <5>7, <5>9
        <5>11. (before + size) - b <= MaxBytes
          BY <4>1, <5>10
        <5>12. j - i < MaxFps[kind]
          BY <1>0, <3>2, <4>1, <4>3, <5>3
        <5> QED
          BY <5>8, <5>9, <5>11, <5>12
      <4> QED
        BY <1>0, <4>2, <4>3
    <3> QED
      BY <1>0, <3>1, <3>2
  <2> QED
    BY <1>2, <2>1 DEF Bounded
<1> QED
  BY <1>2, <1>7, <1>8, <1>9, <1>10 DEF Tallied, f2, t2

(* In the first state no frame was relayed.                                 *)
LEMMA FrameInit == RoomInit => FrameInv
<1> SUFFICES ASSUME RoomInit PROVE FrameInv
  OBVIOUS
<1>1. FrameTypeOK
  BY DEF RoomInit, FrameTypeOK, NoFrames
<1>2. now = 0 /\ \A u \in Users : /\ mediaRateWindow[u].t = <<>> /\ mediaRateWindow[u].bytes = 0
                                 /\ framed[u] = <<>>
  BY DEF RoomInit, NoFrames
<1> QED
  BY <1>1, <1>2, NoneTallied DEF FrameInv

(* A frame that is relayed or refused.                                      *)
LEMMA FrameKeepsInv ==
    ASSUME FrameInv, NEW s \in Sockets, NEW kind \in Kinds, NEW size \in Sizes,
           HandleFrame(s, kind, size)
    PROVE  FrameInv'
<1>1. PICK u \in Users : u = UserOf[device[s]]
  BY RoomAssumption DEF FrameInv, FrameTypeOK
<1>2. PICK t \in Seq(Nat), bytes \in Nat :
        t = mediaRateWindow[u].t /\ bytes = mediaRateWindow[u].bytes
  BY DEF FrameInv, FrameTypeOK
<1>3. PICK f \in Seq(Frame) : f = framed[u]
  BY DEF FrameInv, FrameTypeOK
<1>4. now \in Nat /\ Tallied(t, bytes, f, now)
  BY <1>2, <1>3 DEF FrameInv, FrameTypeOK
<1>5. PICK t2 \in Seq(Nat), left \in Nat :
        /\ t2 = Evict(t) /\ left = (IF t2 = <<>> THEN 0 ELSE bytes)
        /\ Tallied(t2, left, f, now)
  BY <1>4, EvictKeepsTallied
<1>6. PICK before \in Nat : before = (IF f = <<>> THEN 0 ELSE f[Len(f)].upto)
  <2>1. CASE f # <<>>
    <3>1. Len(f) \in 1..Len(f)
      BY <2>1
    <3> QED
      BY <3>1, FramesTyped
  <2> QED
    BY <2>1
<1>7. PICK taken \in Nat : taken = Bytes(size)
  <2>1. size \in Nat
    BY RoomAssumption
  <2>2. (size * 3) \div 4 \in Nat
    BY <2>1
  <2> QED
    BY <2>2 DEF Bytes
<1>8. PICK frame \in Frame :
        frame = [at |-> now, kind |-> kind, from |-> before, upto |-> before + taken]
  <2>1. before + taken \in Nat
    OBVIOUS
  <2> QED
    BY <1>4, <2>1 DEF Frame
<1>9. PICK allowed \in BOOLEAN : allowed <=> AllowMediaFrame([t |-> t2, bytes |-> left], kind, size)
  BY Zenon
<1>10. /\ mediaRateWindow' = [mediaRateWindow EXCEPT ![u] =
              IF allowed THEN [t |-> Append(t2, now), bytes |-> left + taken]
              ELSE [t |-> t2, bytes |-> left]]
       /\ framed' = [framed EXCEPT ![u] = IF allowed THEN Append(f, frame) ELSE f]
       /\ UNCHANGED <<device, now>>
  BY <1>1, <1>2, <1>3, <1>5, <1>6, <1>7, <1>8, <1>9 DEF HandleFrame
<1>11. allowed => Len(t2) < MaxFps[kind] /\ left + taken <= MaxBytes
  BY <1>7, <1>9 DEF AllowMediaFrame
<1>12. allowed => /\ Append(f, frame) \in Seq(Frame)
                  /\ Tallied(Append(t2, now), left + taken, Append(f, frame), now)
  <2>1. /\ frame.at = now /\ frame.kind = kind /\ frame.from = before
        /\ frame.upto = before + taken
    BY <1>8
  <2>2. t2 = <<>> => left = 0
    BY <1>5
  <2> QED
    BY <1>4, <1>5, <1>6, <1>11, <2>1, <2>2, FrameKeepsTallied
<1>13. FrameTypeOK'
  <2>1. /\ [t |-> t2, bytes |-> left] \in [t : Seq(Nat), bytes : Nat]
        /\ [t |-> Append(t2, now), bytes |-> left + taken] \in [t : Seq(Nat), bytes : Nat]
    BY <1>4
  <2>2. mediaRateWindow' \in [Users -> [t : Seq(Nat), bytes : Nat]]
    BY <1>10, <2>1 DEF FrameInv, FrameTypeOK
  <2>3. framed' \in [Users -> Seq(Frame)]
    BY <1>10, <1>12 DEF FrameInv, FrameTypeOK
  <2> QED
    BY <1>10, <2>2, <2>3 DEF FrameInv, FrameTypeOK
<1>14. ASSUME NEW v \in Users
       PROVE  Tallied(mediaRateWindow'[v].t, mediaRateWindow'[v].bytes, framed'[v], now')
  <2>1. CASE v = u /\ allowed
    <3>1. /\ mediaRateWindow'[v].t = Append(t2, now) /\ mediaRateWindow'[v].bytes = left + taken
          /\ framed'[v] = Append(f, frame)
      BY <1>10, <2>1 DEF FrameInv, FrameTypeOK
    <3> QED
      BY <1>10, <1>12, <2>1, <3>1
  <2>2. CASE v = u /\ ~allowed
    <3>1. mediaRateWindow'[v].t = t2 /\ mediaRateWindow'[v].bytes = left /\ framed'[v] = f
      BY <1>10, <2>2 DEF FrameInv, FrameTypeOK
    <3> QED
      BY <1>5, <1>10, <3>1
  <2>3. CASE v # u
    <3>1. mediaRateWindow'[v] = mediaRateWindow[v] /\ framed'[v] = framed[v]
      BY <1>10, <2>3 DEF FrameInv, FrameTypeOK
    <3> QED
      BY <1>10, <3>1 DEF FrameInv
  <2> QED
    BY <2>1, <2>2, <2>3
<1> QED
  BY <1>13, <1>14 DEF FrameInv

(* Every other step leaves the frames alone, forgets them or lets time pass. *)
LEMMA FrameStep == FrameInv /\ [RoomNext]_roomVars => FrameInv'
<1> SUFFICES ASSUME FrameInv, [RoomNext]_roomVars PROVE FrameInv'
  OBVIOUS
<1>1. ASSUME UNCHANGED <<now, mediaRateWindow, framed>>, device' \in [Sockets -> Devices]
      PROVE  FrameInv'
  BY <1>1 DEF FrameInv, FrameTypeOK
<1>2. ASSUME NEW s \in Sockets, NEW d \in Devices, Accept(s, d) PROVE FrameInv'
  <2>1. device' \in [Sockets -> Devices]
    BY <1>2 DEF Accept, FrameInv, FrameTypeOK
  <2> QED
    BY <1>1, <1>2, <2>1 DEF Accept, windows
<1>3. ASSUME NEW s \in Sockets, SocketEnds(s) PROVE FrameInv'
  <2>1. PICK u \in Users : u = UserOf[device[s]]
    BY RoomAssumption DEF FrameInv, FrameTypeOK
  <2>2. /\ mediaRateWindow' = [mediaRateWindow EXCEPT ![u] = NoFrames]
        /\ framed' = [framed EXCEPT ![u] = <<>>]
        /\ UNCHANGED <<device, now>>
    BY <1>3, <2>1 DEF SocketEnds
  <2>3. NoFrames \in [t : Seq(Nat), bytes : Nat] /\ NoFrames.t = <<>> /\ NoFrames.bytes = 0
    BY DEF NoFrames
  <2>4. FrameTypeOK'
    BY <2>2, <2>3 DEF FrameInv, FrameTypeOK
  <2>5. ASSUME NEW v \in Users
        PROVE  Tallied(mediaRateWindow'[v].t, mediaRateWindow'[v].bytes, framed'[v], now')
    <3>1. CASE v = u
      <4>1. mediaRateWindow'[v] = NoFrames /\ framed'[v] = <<>>
        BY <2>2, <3>1 DEF FrameInv, FrameTypeOK
      <4>2. now' \in Nat
        BY <2>4 DEF FrameTypeOK
      <4> QED
        BY <2>3, <4>1, <4>2, NoneTallied
    <3>2. CASE v # u
      <4>1. mediaRateWindow'[v] = mediaRateWindow[v] /\ framed'[v] = framed[v] /\ now' = now
        BY <2>2, <3>2 DEF FrameInv, FrameTypeOK
      <4> QED
        BY <4>1 DEF FrameInv
    <3> QED
      BY <3>1, <3>2
  <2> QED
    BY <2>4, <2>5 DEF FrameInv
<1>4. ASSUME NEW s \in Sockets, HandleMessage(s) PROVE FrameInv'
  BY <1>1, <1>4 DEF HandleMessage, FrameInv, FrameTypeOK
<1>5. ASSUME NEW s \in Sockets, NEW kind \in Kinds, NEW size \in Sizes, HandleFrame(s, kind, size)
      PROVE  FrameInv'
  BY <1>5, FrameKeepsInv
<1>6. ASSUME Hibernate PROVE FrameInv'
  <2>1. mediaRateWindow' = [u \in Users |-> NoFrames] /\ UNCHANGED <<device, framed, now>>
    BY <1>6 DEF Hibernate
  <2>2. NoFrames \in [t : Seq(Nat), bytes : Nat] /\ NoFrames.t = <<>> /\ NoFrames.bytes = 0
    BY DEF NoFrames
  <2>3. FrameTypeOK'
    BY <2>1, <2>2 DEF FrameInv, FrameTypeOK
  <2>4. ASSUME NEW u \in Users
        PROVE  Tallied(mediaRateWindow'[u].t, mediaRateWindow'[u].bytes, framed'[u], now')
    <3>1. PICK t \in Seq(Nat), f \in Seq(Frame) : t = mediaRateWindow[u].t /\ f = framed[u]
      BY DEF FrameInv, FrameTypeOK
    <3>2. now \in Nat /\ IsRecent(t, Ats(f), now) /\ Rising(f) /\ Bounded(f)
      BY <3>1 DEF FrameInv, FrameTypeOK, Tallied
    <3>3. \A i \in DOMAIN t : now - t[i] > Idle
      BY <1>6, <3>1 DEF Hibernate
    <3>4. IsRecent(<<>>, Ats(f), now)
      BY <3>2, <3>3, AtsTyped, OldMayBeForgotten
    <3>5. Tallied(<<>>, 0, f, now)
      BY <3>2, <3>4 DEF Tallied, Covers
    <3> QED
      BY <2>1, <2>2, <3>1, <3>5
  <2> QED
    BY <2>3, <2>4 DEF FrameInv
<1>7. ASSUME Tick PROVE FrameInv'
  <2>1. UNCHANGED <<device, mediaRateWindow, framed>> /\ now' = now + 1
    BY <1>7 DEF Tick, windows
  <2>2. FrameTypeOK'
    BY <2>1 DEF FrameInv, FrameTypeOK
  <2>3. ASSUME NEW u \in Users
        PROVE  Tallied(mediaRateWindow'[u].t, mediaRateWindow'[u].bytes, framed'[u], now')
    <3>1. PICK t \in Seq(Nat), f \in Seq(Frame) : t = mediaRateWindow[u].t /\ f = framed[u]
      BY DEF FrameInv, FrameTypeOK
    <3>2. now \in Nat /\ Tallied(t, mediaRateWindow[u].bytes, f, now)
      BY <3>1 DEF FrameInv, FrameTypeOK
    <3>3. now + 1 \in Nat /\ now <= now + 1
      BY <3>2
    <3>4. IsRecent(t, Ats(f), now + 1)
      BY <3>2, <3>3, AtsTyped, TimeKeepsRecent DEF Tallied
    <3> QED
      BY <2>1, <3>1, <3>2, <3>4 DEF Tallied
  <2> QED
    BY <2>2, <2>3 DEF FrameInv
<1>8. ASSUME Outside PROVE FrameInv'
  BY <1>1, <1>8 DEF Outside, windows, FrameInv, FrameTypeOK
<1>9. ASSUME UNCHANGED roomVars PROVE FrameInv'
  BY <1>1, <1>9 DEF roomVars, FrameInv, FrameTypeOK
<1> QED
  BY <1>2, <1>3, <1>4, <1>5, <1>6, <1>7, <1>8, <1>9 DEF RoomNext

(* The frames of a user relayed within a second, over all their sockets and *)
(* over hibernations, are no more than the last one's kind may join, and    *)
(* carry no more than MAX_BYTES_PER_SEC, whatever the kinds and sizes.      *)
THEOREM FramesWithinLimitHolds == RoomSpec => []FramesWithinLimit
<1>1. FrameInv => FramesWithinLimit
  <2> SUFFICES ASSUME FrameInv, NEW u \in Users, NEW i \in DOMAIN framed[u], NEW j \in DOMAIN framed[u],
                      i <= j, framed[u][j].at - framed[u][i].at <= Window
               PROVE  /\ j - i < MaxFps[framed[u][j].kind]
                      /\ framed[u][j].upto - framed[u][i].from <= MaxBytes
    BY DEF FramesWithinLimit
  <2>1. Bounded(framed[u])
    BY DEF FrameInv, Tallied
  <2>2. framed[u] \in Seq(Frame)
    BY DEF FrameInv, FrameTypeOK
  <2>3. i \in 1..Len(framed[u]) /\ j \in 1..Len(framed[u])
    BY <2>2
  <2> QED
    BY <2>1, <2>3 DEF Bounded
<1> QED
  BY <1>1, FrameInit, FrameStep, PTL DEF RoomSpec

-----------------------------------------------------------------------------
PresenceTypeOK ==
    /\ device \in [Sockets -> Devices]
    /\ announced \in [Users -> {"nothing", "online", "offline"}]
    /\ room \in [Sockets -> {"none", "open", "closing"}]

PresenceInv == PresenceTypeOK /\ GoneIsOffline

(* A departed member is last announced offline.                             *)
THEOREM GoneIsOfflineHolds == RoomSpec => []GoneIsOffline
<1>1. RoomInit => PresenceInv
  BY DEF RoomInit, PresenceInv, PresenceTypeOK, GoneIsOffline
<1>2. PresenceInv /\ [RoomNext]_roomVars => PresenceInv'
  <2> SUFFICES ASSUME PresenceInv, [RoomNext]_roomVars PROVE PresenceInv'
    OBVIOUS
  <2> USE DEF PresenceInv
  <2>1. ASSUME NEW s \in Sockets, NEW d \in Devices, Accept(s, d) PROVE PresenceInv'
    <3>1. PresenceTypeOK'
      BY <2>1, RoomAssumption DEF Accept, PresenceTypeOK
    <3>2. ASSUME NEW u \in Users, \A r \in Sockets : room'[r] # "none" => UserOf[device'[r]] # u
          PROVE  announced'[u] # "online"
      <4>1. room'[s] # "none" /\ device'[s] = d
        BY <2>1 DEF Accept, PresenceTypeOK
      <4>2. u # UserOf[d]
        BY <3>2, <4>1
      <4>3. announced'[u] = announced[u]
        BY <2>1, <4>2 DEF Accept, PresenceTypeOK
      <4>4. ASSUME NEW r \in Sockets, room[r] # "none" PROVE UserOf[device[r]] # u
        <5>1. r # s /\ room'[r] # "none" /\ device'[r] = device[r]
          BY <2>1, <4>4 DEF Accept, PresenceTypeOK
        <5> QED
          BY <3>2, <5>1
      <4> QED
        BY <4>3, <4>4 DEF GoneIsOffline
    <3> QED
      BY <3>1, <3>2 DEF GoneIsOffline
  <2>2. ASSUME NEW s \in Sockets, SocketEnds(s) PROVE PresenceInv'
    <3>1. PresenceTypeOK'
      BY <2>2 DEF SocketEnds, PresenceTypeOK
    <3>2. ASSUME NEW u \in Users, \A r \in Sockets : room'[r] # "none" => UserOf[device'[r]] # u
          PROVE  announced'[u] # "online"
      <4>1. CASE u = UserOf[device[s]]
        BY <2>2, <4>1 DEF SocketEnds, PresenceTypeOK
      <4>2. CASE u # UserOf[device[s]]
        <5>1. announced'[u] = announced[u]
          BY <2>2, <4>2 DEF SocketEnds, PresenceTypeOK
        <5>2. ASSUME NEW r \in Sockets, room[r] # "none" PROVE UserOf[device[r]] # u
          BY <2>2, <3>2, <4>2, <5>2 DEF SocketEnds, PresenceTypeOK
        <5> QED
          BY <5>1, <5>2 DEF GoneIsOffline
      <4> QED
        BY <4>1, <4>2
    <3> QED
      BY <3>1, <3>2 DEF GoneIsOffline
  <2>3. ASSUME NEW s \in Sockets, HandleMessage(s) PROVE PresenceInv'
    BY <2>3 DEF HandleMessage, PresenceTypeOK, GoneIsOffline
  <2>4. ASSUME NEW s \in Sockets, NEW kind \in Kinds, NEW size \in Sizes, HandleFrame(s, kind, size)
        PROVE  PresenceInv'
    <3>1. /\ UNCHANGED <<device, announced>>
          /\ room[s] # "none"
          /\ room' = room \/ room' = [room EXCEPT ![s] = "closing"]
      BY <2>4 DEF HandleFrame
    <3>2. \A r \in Sockets : room'[r] # "none" <=> room[r] # "none"
      BY <3>1 DEF PresenceTypeOK
    <3> QED
      BY <3>1, <3>2 DEF PresenceTypeOK, GoneIsOffline
  <2>5. CASE Hibernate
    BY <2>5 DEF Hibernate, PresenceTypeOK, GoneIsOffline
  <2>6. CASE Tick
    BY <2>6 DEF Tick, PresenceTypeOK, GoneIsOffline
  <2>7. CASE Outside
    BY <2>7 DEF Outside, PresenceTypeOK, GoneIsOffline
  <2>8. CASE UNCHANGED roomVars
    BY <2>8 DEF roomVars, PresenceTypeOK, GoneIsOffline
  <2> QED
    BY <2>1, <2>2, <2>3, <2>4, <2>5, <2>6, <2>7, <2>8 DEF RoomNext
<1>3. PresenceInv => GoneIsOffline
  BY DEF PresenceInv
<1> QED
  BY <1>1, <1>2, <1>3, PTL DEF RoomSpec

-----------------------------------------------------------------------------
(* A socket in use is of a page, and the one a page holds is its own: a     *)
(* close event takes it from no other page.                                 *)
OwnSocket ==
    /\ side \in [Sockets -> {"free", "connecting", "open", "closed"}]
    /\ page \in [Sockets -> Pages \cup {None}]
    /\ ws \in [Pages -> Sockets \cup {None}]
    /\ \A s \in Sockets : side[s] # "free" => page[s] \in Pages
    /\ \A p \in Pages : ws[p] # None => page[ws[p]] = p /\ side[ws[p]] # "free"

(* connectWebSocket closes only the socket the page holds.                  *)
LEMMA ConnectKeepsOwn ==
    ASSUME OwnSocket, NEW p \in Pages, ConnectWebSocket(p), page' = page
    PROVE  OwnSocket'
<1>1. None \notin Sockets
  BY PageAssumption
<1>2. ws' = [ws EXCEPT ![p] = None] /\ page' = page
  BY DEF ConnectWebSocket
<1>3. side' \in [Sockets -> {"free", "connecting", "open", "closed"}]
      /\ \A s \in Sockets : side'[s] # "free" <=> side[s] # "free"
  BY <1>1 DEF ConnectWebSocket, OwnSocket
<1> QED
  BY <1>1, <1>2, <1>3 DEF OwnSocket

LEMMA OwnStep == OwnSocket /\ [Next]_vars => OwnSocket'
<1> SUFFICES ASSUME OwnSocket, [Next]_vars PROVE OwnSocket'
  OBVIOUS
<1>0. None \notin Sockets \cup Pages
  BY PageAssumption
<1>1. ASSUME UNCHANGED <<side, page, ws>> PROVE OwnSocket'
  BY <1>1 DEF OwnSocket
<1>2. ASSUME NEW p \in Pages, MessagesLoaded(p) \/ Reconnect(p) PROVE OwnSocket'
  BY <1>1, <1>2, ConnectKeepsOwn DEF MessagesLoaded, Reconnect
<1>3. ASSUME NEW p \in Pages, NEW n \in 1..2, Ticket(p, n) PROVE OwnSocket'
  <2>1. PICK s \in Sockets :
           /\ side[s] = "free"
           /\ ws' = [ws EXCEPT ![p] = s]
           /\ side' = [side EXCEPT ![s] = "connecting"]
           /\ page' = [page EXCEPT ![s] = p]
    BY <1>3 DEF Ticket, Free
  <2> QED
    BY <1>0, <2>1 DEF OwnSocket
<1>4. ASSUME NEW s \in Sockets, Connected(s) \/ Lost(s) PROVE OwnSocket'
  <2>1. /\ UNCHANGED <<page, ws>> /\ side[s] # "free"
        /\ side' = [side EXCEPT ![s] = "open"] \/ side' = [side EXCEPT ![s] = "closed"]
    BY <1>4 DEF Connected, Lost
  <2> QED
    BY <2>1 DEF OwnSocket
<1>5. ASSUME NEW s \in Sockets, Closed(s) PROVE OwnSocket'
  <2>1. /\ side[s] # "free"
        /\ side' = [side EXCEPT ![s] = "free"]
        /\ page' = [page EXCEPT ![s] = None]
        /\ ws' = [ws EXCEPT ![page[s]] = None]
    BY <1>5 DEF Closed
  <2> QED
    BY <1>0, <2>1 DEF OwnSocket
<1>6. ASSUME NEW s \in Sockets, Ended(s) \/ Send(s) PROVE OwnSocket'
  BY <1>1, <1>6 DEF Ended, Send, pageVars
<1>7. ASSUME NEW p \in Pages, NEW n \in 1..2, OpenConversation(p) \/ Back(p) \/ NoTicket(p, n)
      PROVE  OwnSocket'
  BY <1>1, <1>7 DEF OpenConversation, Back, NoTicket
<1>8. ASSUME UNCHANGED pageVars PROVE OwnSocket'
  BY <1>1, <1>8 DEF pageVars
<1> QED
  BY <1>2, <1>3, <1>4, <1>5, <1>6, <1>7, <1>8 DEF Next, vars

(* The pages use the room as its specification allows any client to, so     *)
(* that both facts hold of them.                                            *)
THEOREM PagesUseTheRoom == Spec => RoomSpec
<1>1. Init => RoomInit /\ OwnSocket
  BY DEF Init, OwnSocket
<1>2. OwnSocket /\ [Next]_vars => [RoomNext]_roomVars
  <2> SUFFICES ASSUME OwnSocket, [Next]_vars PROVE RoomNext \/ UNCHANGED roomVars
    OBVIOUS
  <2>1. ASSUME NEW p \in Pages, NEW n \in 1..2,
               \/ OpenConversation(p) \/ MessagesLoaded(p) \/ Back(p) \/ Reconnect(p)
               \/ Ticket(p, n) \/ NoTicket(p, n)
        PROVE  RoomNext \/ UNCHANGED roomVars
    BY <2>1 DEF OpenConversation, MessagesLoaded, Back, Reconnect, Ticket, NoTicket, RoomNext
  <2>2. ASSUME NEW s \in Sockets, Connected(s) PROVE RoomNext \/ UNCHANGED roomVars
    <3>1. DeviceOf[page[s]] \in Devices
      BY <2>2, PageAssumption DEF Connected, OwnSocket
    <3>2. Accept(s, DeviceOf[page[s]])
      BY <2>2 DEF Connected
    <3> QED
      BY <3>1, <3>2 DEF RoomNext
  <2>3. ASSUME NEW s \in Sockets, Lost(s) \/ Closed(s) \/ Ended(s) PROVE RoomNext \/ UNCHANGED roomVars
    BY <2>3 DEF Lost, Closed, Ended, RoomNext
  <2>4. ASSUME NEW s \in Sockets, Send(s) PROVE RoomNext \/ UNCHANGED roomVars
    BY <2>4 DEF Send, RoomNext
  <2>5. CASE (Hibernate \/ Tick) /\ UNCHANGED pageVars
    BY <2>5 DEF RoomNext
  <2>6. CASE UNCHANGED vars
    BY <2>6 DEF vars
  <2> QED
    BY <2>1, <2>2, <2>3, <2>4, <2>5, <2>6 DEF Next
<1> QED
  BY <1>1, <1>2, OwnStep, PTL DEF Spec, RoomSpec

-----------------------------------------------------------------------------
(* Notes and files.  A recording that was sent is over: its panel is gone,   *)
(* so that nobody cancels it or finishes it again.                          *)
Medium == Notes \cup Files
UploadState ==
    [of : Medium, step : {"asked", "refused", "admitted", "stored", "answered", "posting"},
     read : Nat, medium : Nat, waits : BOOLEAN]
MessageState == [of : Notes, medium : Nat]
Face == {"waiting", "undecryptable", "shown", "missing", "failed"}

MediaTypeOK ==
    /\ recorder \in [Notes -> {"none", "prompt", "recording", "stopping", "stopped"}]
    /\ active \in Notes \cup {NoNote} /\ overlays \subseteq Notes /\ cancelled \subseteq Notes
    /\ uploads \subseteq UploadState
    /\ objects \in Seq(Medium) /\ count \in Nat
    /\ messages \in Seq(MessageState)
    /\ faces \in Seq(Face)
    /\ Len(faces) = Len(messages)

Begun(n) == recorder[n] \in {"recording", "stopping", "stopped"}

Sending(n) == (\E u \in uploads : u.of = n) \/ (\E i \in DOMAIN messages : messages[i].of = n)

RecordingsInOrder ==
    \A n \in Notes :
        /\ n \in overlays \/ active = n => Begun(n)
        /\ Sending(n) => Begun(n) /\ active # n /\ n \notin overlays \cup cancelled

Names(u) == u.medium \in DOMAIN objects /\ objects[u.medium] = u.of

UploadsInOrder ==
    /\ \A u \in uploads : /\ u.of \in Files => u.step \in {"asked", "refused"}
                          /\ u.step \in {"stored", "answered", "posting"} => Names(u)
    /\ \A u, v \in uploads : u.of \in Notes /\ u.of = v.of => u = v
    /\ \A u \in uploads, i \in DOMAIN messages : messages[i].of # u.of

MessagesInOrder ==
    \A i \in DOMAIN messages :
        /\ \A k \in DOMAIN messages : messages[k].of = messages[i].of => k = i
        /\ Names(messages[i])
        /\ faces[i] = "missing" => messages[i].medium \in removed

MediaInv == MediaTypeOK /\ RecordingsInOrder /\ UploadsInOrder /\ MessagesInOrder

LEMMA MediaInvInit == MediaInit => MediaInv
<1> SUFFICES ASSUME MediaInit PROVE MediaInv
  OBVIOUS
<1>1. /\ recorder \in [Notes -> {"none", "prompt", "recording", "stopping", "stopped"}]
      /\ active = NoNote /\ overlays = {} /\ cancelled = {} /\ uploads = {} /\ count \in Nat
  BY DEF MediaInit
<1>2. objects \in Seq(Medium)
  BY DEF MediaInit
<1>3. messages \in Seq(MessageState) /\ DOMAIN messages = {} /\ Len(messages) = 0
  BY DEF MediaInit
<1>4. faces \in Seq(Face) /\ Len(faces) = 0
  BY DEF MediaInit
<1>5. MediaTypeOK
  BY <1>1, <1>2, <1>3, <1>4 DEF MediaTypeOK
<1> QED
  BY <1>1, <1>3, <1>5, MediaAssumption DEF MediaInv, RecordingsInOrder, UploadsInOrder, MessagesInOrder, Sending

LEMMA UploadChanges ==
    ASSUME NEW u \in UploadState
    PROVE  /\ u.of \in Medium /\ u.read \in Nat /\ u.medium \in Nat
           /\ \A s \in {"refused", "answered", "posting"} :
                 LET v == [u EXCEPT !.step = s] IN
                 v \in UploadState /\ v.step = s /\ v.of = u.of /\ v.medium = u.medium
BY DEF UploadState

LEMMA MessageTyped ==
    ASSUME MediaTypeOK, NEW i \in DOMAIN messages
    PROVE  messages[i].of \in Notes /\ messages[i].medium \in Nat
<1>1. messages[i] \in MessageState
  BY DEF MediaTypeOK
<1> QED
  BY <1>1 DEF MessageState

(* R2 only grows.                                                           *)
Grows == objects' = objects \/ \E f \in Medium : objects' = Append(objects, f)

LEMMA NamesStay ==
    ASSUME objects \in Seq(Medium), Grows
    PROVE  /\ objects' \in Seq(Medium)
           /\ \A k \in DOMAIN objects : k \in DOMAIN objects' /\ objects'[k] = objects[k]
<1>1. ASSUME NEW f \in Medium, objects' = Append(objects, f)
      PROVE  /\ objects' \in Seq(Medium)
             /\ \A k \in DOMAIN objects : k \in DOMAIN objects' /\ objects'[k] = objects[k]
  BY <1>1
<1> QED
  BY <1>1 DEF Grows

(* A step of the server or the page that changes one upload.                *)
LEMMA UploadGoesOn ==
    ASSUME MediaInv, NEW u \in uploads, NEW v \in UploadState, v.of = u.of, Becomes(u, v), Grows,
           UNCHANGED <<recording, removed, messages, faces>>, count' \in Nat,
           v.of \in Files => v.step \in {"asked", "refused"},
           v.step \in {"stored", "answered", "posting"} => v.medium \in DOMAIN objects' /\ objects'[v.medium] = v.of
    PROVE  MediaInv'
<1>1. /\ objects' \in Seq(Medium)
      /\ \A k \in DOMAIN objects : k \in DOMAIN objects' /\ objects'[k] = objects[k]
  BY NamesStay DEF MediaInv, MediaTypeOK
<1>2. \A w \in uploads' : w = v \/ (w \in uploads /\ w # u)
  BY DEF Becomes
<1>3. MediaTypeOK'
  BY <1>1, <1>2 DEF MediaInv, MediaTypeOK, recording
<1>4. RecordingsInOrder'
  <2>1. \A n : Sending(n)' => Sending(n)
    BY <1>2 DEF Sending
  <2> QED
    BY <2>1 DEF MediaInv, RecordingsInOrder, Begun, recording
<1>5. UploadsInOrder'
  <2>1. ASSUME NEW w \in uploads'
        PROVE  /\ w.of \in Files => w.step \in {"asked", "refused"}
               /\ w.step \in {"stored", "answered", "posting"} => Names(w)'
    BY <1>1, <1>2 DEF MediaInv, UploadsInOrder, Names
  <2>2. \A w, x \in uploads' : w.of \in Notes /\ w.of = x.of => w = x
    BY <1>2 DEF MediaInv, UploadsInOrder
  <2>3. \A w \in uploads', i \in DOMAIN messages : messages[i].of # w.of
    BY <1>2 DEF MediaInv, UploadsInOrder
  <2> QED
    BY <2>1, <2>2, <2>3 DEF UploadsInOrder
<1>6. MessagesInOrder'
  BY <1>1 DEF MediaInv, MessagesInOrder, Names
<1> QED
  BY <1>3, <1>4, <1>5, <1>6 DEF MediaInv

LEMMA UploadEnds ==
    ASSUME MediaInv, uploads' \subseteq uploads, UNCHANGED <<recording, store, messages, faces>>
    PROVE  MediaInv'
<1>1. MediaTypeOK'
  BY DEF MediaInv, MediaTypeOK, recording, store
<1>2. \A n : Sending(n)' => Sending(n)
  BY DEF Sending
<1>3. RecordingsInOrder'
  BY <1>2 DEF MediaInv, RecordingsInOrder, Begun, recording
<1>4. UploadsInOrder' /\ MessagesInOrder'
  BY DEF MediaInv, UploadsInOrder, MessagesInOrder, Names, store
<1> QED
  BY <1>1, <1>3, <1>4 DEF MediaInv

LEMMA UploadTyped ==
    ASSUME NEW n \in Medium
    PROVE  Upload(n) \in UploadState /\ Upload(n).of = n /\ Upload(n).step = "asked"
BY DEF Upload, UploadState

(* A step of the recorder of n that starts no upload.                       *)
LEMMA RecorderStep ==
    ASSUME MediaInv, NEW n \in Notes, MediaTypeOK', UNCHANGED <<uploads, store, messages, faces>>,
           \A k \in Notes : k # n => recorder'[k] = recorder[k],
           Begun(n) => Begun(n)',
           overlays' \subseteq overlays \cup {n}, cancelled' \subseteq cancelled \cup {n},
           active' \in {active, n, NoNote},
           n \in overlays' \/ active' = n => Begun(n)',
           Sending(n) => overlays' \subseteq overlays /\ cancelled' \subseteq cancelled /\ active' # n
    PROVE  MediaInv'
<1>1. \A k \in Notes : Sending(k)' <=> Sending(k)
  BY DEF Sending
<1>2. \A k \in Notes : k # NoNote
  BY MediaAssumption
<1>3. \A k \in Notes : Begun(k) => Begun(k)'
  BY DEF Begun
<1>4. RecordingsInOrder'
  BY <1>1, <1>2, <1>3 DEF MediaInv, RecordingsInOrder
<1>5. UploadsInOrder' /\ MessagesInOrder'
  BY DEF MediaInv, UploadsInOrder, MessagesInOrder, Names, store
<1> QED
  BY <1>4, <1>5 DEF MediaInv

(* finishRecording, on the active recording and on any other.               *)
LEMMA FinishStep ==
    ASSUME MediaInv, NEW n \in Notes, FinishRecording(n),
           recorder' \in [Notes -> {"none", "prompt", "recording", "stopping", "stopped"}],
           \A k \in Notes : Begun(k) => Begun(k)',
           UNCHANGED <<cancelled, store, messages, faces>>
    PROVE  MediaInv'
<1>1. CASE UNCHANGED <<active, overlays, uploads>>
  <2>1. MediaTypeOK'
    BY <1>1 DEF MediaInv, MediaTypeOK, store
  <2>2. \A k \in Notes : Sending(k)' <=> Sending(k)
    BY <1>1 DEF Sending
  <2>3. RecordingsInOrder'
    BY <1>1, <2>2 DEF MediaInv, RecordingsInOrder
  <2>4. UploadsInOrder' /\ MessagesInOrder'
    BY <1>1 DEF MediaInv, UploadsInOrder, MessagesInOrder, Names, store
  <2> QED
    BY <2>1, <2>3, <2>4 DEF MediaInv
<1>2. CASE active = n /\ active' = NoNote /\ overlays' = overlays \ {n} /\ UNCHANGED uploads
  <2>1. MediaTypeOK'
    BY <1>2 DEF MediaInv, MediaTypeOK, store
  <2>2. \A k \in Notes : Sending(k)' <=> Sending(k)
    BY <1>2 DEF Sending
  <2>3. RecordingsInOrder'
    BY <1>2, <2>2, MediaAssumption DEF MediaInv, RecordingsInOrder
  <2>4. UploadsInOrder' /\ MessagesInOrder'
    BY <1>2 DEF MediaInv, UploadsInOrder, MessagesInOrder, Names, store
  <2> QED
    BY <2>1, <2>3, <2>4 DEF MediaInv
<1>3. CASE /\ active = n /\ active' = NoNote /\ overlays' = overlays \ {n}
           /\ n \notin cancelled /\ uploads' = uploads \cup {Upload(n)}
  <2>1. Upload(n) \in UploadState /\ Upload(n).of = n /\ Upload(n).step = "asked" /\ n \notin Files
    BY UploadTyped, MediaAssumption DEF Medium
  <2>2. MediaTypeOK'
    BY <1>3, <2>1 DEF MediaInv, MediaTypeOK, store
  <2>3. ~Sending(n) /\ Begun(n)
    BY <1>3 DEF MediaInv, RecordingsInOrder
  <2>4. \A k \in Notes : Sending(k)' => Sending(k) \/ k = n
    BY <1>3, <2>1 DEF Sending
  <2>5. RecordingsInOrder'
    BY <1>3, <2>3, <2>4, MediaAssumption DEF MediaInv, RecordingsInOrder
  <2>6. UploadsInOrder'
    <3> HIDE DEF Upload
    <3>1. \A u \in uploads' : u = Upload(n) \/ (u \in uploads /\ u.of # n)
      BY <1>3, <2>3 DEF Sending
    <3>2. \A i \in DOMAIN messages : messages[i].of # n
      BY <2>3 DEF Sending
    <3>3. \A u \in uploads' : /\ u.of \in Files => u.step \in {"asked", "refused"}
                              /\ u.step \in {"stored", "answered", "posting"} => Names(u)'
      BY <2>1, <3>1 DEF MediaInv, UploadsInOrder, Names, store
    <3>4. \A u, v \in uploads' : u.of \in Notes /\ u.of = v.of => u = v
      BY <2>1, <3>1 DEF MediaInv, UploadsInOrder
    <3>5. \A u \in uploads', i \in DOMAIN messages : messages[i].of # u.of
      BY <2>1, <3>1, <3>2 DEF MediaInv, UploadsInOrder
    <3>6. messages' = messages /\ objects' = objects
      BY DEF store
    <3> QED
      BY <3>3, <3>4, <3>5, <3>6 DEF UploadsInOrder, Names
  <2>7. MessagesInOrder'
    BY DEF MediaInv, MessagesInOrder, Names, store
  <2> QED
    BY <2>2, <2>5, <2>6, <2>7 DEF MediaInv
<1> QED
  BY <1>1, <1>2, <1>3 DEF FinishRecording

LEMMA MediaInvStep ==
    ASSUME MediaInv, [MediaNext]_mediaVars
    PROVE  MediaInv'
<1> USE DEF recording, store
<1>t. MediaTypeOK /\ RecordingsInOrder /\ UploadsInOrder /\ MessagesInOrder
  BY DEF MediaInv
<1>1. CASE UNCHANGED mediaVars
  BY <1>1, UploadEnds DEF mediaVars
<1>2. ASSUME NEW n \in Notes, StartRecording(n) PROVE MediaInv'
  <2>1. MediaTypeOK'
    BY <1>2 DEF StartRecording, MediaInv, MediaTypeOK
  <2> QED
    BY <1>2, <1>t, <2>1, RecorderStep, MediaAssumption DEF StartRecording, RecordingsInOrder, Begun, MediaTypeOK
<1>3. ASSUME NEW n \in Notes, AccessDenied(n) PROVE MediaInv'
  <2>1. MediaTypeOK'
    BY <1>3 DEF AccessDenied, MediaInv, MediaTypeOK
  <2> QED
    BY <1>3, <1>t, <2>1, RecorderStep, MediaAssumption DEF AccessDenied, RecordingsInOrder, Begun, MediaTypeOK
<1>4. ASSUME NEW n \in Notes, BeginRecording(n) PROVE MediaInv'
  <2>1. MediaTypeOK'
    BY <1>4 DEF BeginRecording, MediaInv, MediaTypeOK
  <2>2. ~Begun(n) /\ Begun(n)' /\ ~Sending(n)
    BY <1>4, <1>t DEF BeginRecording, RecordingsInOrder, Begun, MediaTypeOK
  <2> QED
    BY <1>4, <1>t, <2>1, <2>2, RecorderStep DEF BeginRecording, MediaTypeOK
<1>5. ASSUME NEW n \in Notes, CancelRecording(n) PROVE MediaInv'
  <2>1. MediaTypeOK'
    BY <1>5 DEF CancelRecording, Stopping, MediaInv, MediaTypeOK
  <2>2. Begun(n) /\ Begun(n)' /\ ~Sending(n)
    BY <1>5, <1>t DEF CancelRecording, Stopping, RecordingsInOrder, Begun, MediaTypeOK
  <2> QED
    BY <1>5, <1>t, <2>1, <2>2, RecorderStep DEF CancelRecording, Stopping, MediaTypeOK
<1>6. ASSUME NEW n \in Notes, Escape(n) PROVE MediaInv'
  <2>1. MediaTypeOK'
    BY <1>6 DEF Escape, MediaInv, MediaTypeOK
  <2> QED
    BY <1>6, <1>t, <2>1, RecorderStep DEF Escape, RecordingsInOrder, Begun, MediaTypeOK
<1>7. ASSUME NEW n \in Notes, AutoStop(n) PROVE MediaInv'
  <2>1. MediaTypeOK'
    BY <1>7 DEF AutoStop, Stopping, MediaInv, MediaTypeOK
  <2>2. Begun(n) /\ Begun(n)'
    BY <1>7, <1>t DEF AutoStop, Stopping, Begun, MediaTypeOK
  <2> QED
    BY <1>7, <1>t, <2>1, <2>2, RecorderStep DEF AutoStop, Stopping, RecordingsInOrder, MediaTypeOK
<1>8. ASSUME NEW n \in Notes, SendRecording(n) PROVE MediaInv'
  <2>1. CASE recorder[n] = "recording"
    <3>1. Stopping(n) /\ UNCHANGED <<active, streams, overlays, uploads>>
      BY <1>8, <2>1 DEF SendRecording
    <3>2. MediaTypeOK'
      BY <1>8, <3>1 DEF SendRecording, Stopping, MediaInv, MediaTypeOK
    <3>3. Begun(n) /\ Begun(n)'
      BY <1>t, <2>1, <3>1 DEF Stopping, Begun, MediaTypeOK
    <3> QED
      BY <1>8, <1>t, <3>1, <3>2, <3>3, RecorderStep DEF SendRecording, Stopping, RecordingsInOrder, MediaTypeOK
  <2>2. CASE recorder[n] # "recording"
    <3>1. FinishRecording(n) /\ UNCHANGED recorder
      BY <1>8, <2>2 DEF SendRecording
    <3> QED
      BY <1>8, <1>t, <3>1, FinishStep DEF SendRecording, MediaTypeOK, Begun
  <2> QED
    BY <2>1, <2>2
<1>9. ASSUME NEW n \in Notes, StopEvent(n) PROVE MediaInv'
  <2>1. recorder' \in [Notes -> {"none", "prompt", "recording", "stopping", "stopped"}]
    BY <1>9, <1>t DEF StopEvent, MediaTypeOK
  <2>2. \A k \in Notes : Begun(k) => Begun(k)'
    BY <1>9, <1>t DEF StopEvent, Begun, MediaTypeOK
  <2> QED
    BY <1>9, <2>1, <2>2, FinishStep DEF StopEvent
<1>10. ASSUME NEW f \in Files, PickFile(f) PROVE MediaInv'
  <2>1. Upload(f) \in UploadState /\ Upload(f).of = f /\ Upload(f).step = "asked" /\ f \notin Notes
    BY UploadTyped, MediaAssumption DEF Medium
  <2>2. uploads' = uploads \cup {Upload(f)} /\ UNCHANGED <<recording, store, messages, faces>>
    BY <1>10 DEF PickFile
  <2> HIDE DEF Upload
  <2>3. MediaTypeOK'
    BY <1>t, <2>1, <2>2 DEF MediaTypeOK
  <2>4. \A n \in Notes : Sending(n)' => Sending(n)
    BY <2>1, <2>2 DEF Sending
  <2>5. RecordingsInOrder'
    BY <1>t, <2>2, <2>4 DEF RecordingsInOrder, Begun
  <2>6. \A i \in DOMAIN messages : messages[i].of # f
    BY <1>t, <2>1, MessageTyped
  <2>7. UploadsInOrder' /\ MessagesInOrder'
    BY <1>t, <2>1, <2>2, <2>6 DEF UploadsInOrder, MessagesInOrder, Names
  <2> QED
    BY <2>3, <2>5, <2>7 DEF MediaInv
<1>11. ASSUME NEW u \in uploads, Server(u) PROVE MediaInv'
  <2>1. u \in UploadState
    BY <1>t DEF MediaTypeOK
  <2>2. count \in Nat /\ objects \in Seq(Medium)
    BY <1>t DEF MediaTypeOK
  <2>3. CASE Refused(u)
    <3> DEFINE v == [u EXCEPT !.step = "refused"]
    <3>1. v \in UploadState /\ v.step = "refused" /\ v.of = u.of
      BY <2>1, UploadChanges
    <3>2. Becomes(u, v) /\ UNCHANGED <<recording, store, messages, faces>>
      BY <2>3 DEF Refused
    <3> HIDE DEF v
    <3> QED
      BY <2>2, <3>1, <3>2, UploadGoesOn DEF Grows
  <2>4. CASE Admitted(u)
    <3> DEFINE v == [u EXCEPT !.step = "admitted", !.read = count]
    <3>1. v \in UploadState /\ v.step = "admitted" /\ v.of = u.of
      BY <2>1, <2>2 DEF UploadState
    <3>2. u.of \notin Files /\ Becomes(u, v) /\ UNCHANGED <<recording, store, messages, faces>>
      BY <2>4, MediaAssumption DEF Admitted
    <3> HIDE DEF v
    <3> QED
      BY <2>2, <3>1, <3>2, UploadGoesOn DEF Grows
  <2>5. CASE Stored(u)
    <3>1. Len(objects) + 1 \in Nat
      BY <2>2
    <3> DEFINE v == [u EXCEPT !.step = "stored", !.medium = Len(objects) + 1]
    <3>2. v \in UploadState /\ v.step = "stored" /\ v.of = u.of /\ v.medium = Len(objects) + 1
      BY <2>1, <3>1 DEF UploadState
    <3>3. u.of \notin Files /\ u.of \in Medium
      BY <1>t, <2>1, <2>5, UploadChanges DEF Stored, UploadsInOrder
    <3>4. Len(objects) + 1 \in DOMAIN objects' /\ objects'[Len(objects) + 1] = u.of
      BY <2>2, <2>5, <3>3 DEF Stored
    <3>5. Becomes(u, v) /\ UNCHANGED <<recording, removed, messages, faces, count>>
      BY <2>5 DEF Stored
    <3>6. Grows
      BY <2>5, <3>3 DEF Stored, Grows
    <3> HIDE DEF v
    <3> QED
      BY <2>2, <3>2, <3>3, <3>4, <3>5, <3>6, UploadGoesOn
  <2>6. CASE Counted(u)
    <3> DEFINE v == [u EXCEPT !.step = "answered"]
    <3>1. v \in UploadState /\ v.step = "answered" /\ v.of = u.of /\ v.medium = u.medium
      BY <2>1, UploadChanges
    <3>2. u.of \notin Files /\ Names(u) /\ u.read + 1 \in Nat
      <4>1. u.read \in Nat
        BY <2>1, UploadChanges
      <4> QED
        BY <1>t, <2>6, <4>1 DEF Counted, UploadsInOrder
    <3>3. Becomes(u, v) /\ UNCHANGED <<recording, removed, messages, faces, objects>> /\ count' \in Nat
      BY <2>6, <3>2 DEF Counted
    <3> HIDE DEF v
    <3> QED
      BY <3>1, <3>2, <3>3, UploadGoesOn DEF Names, Grows
  <2> QED
    BY <1>11, <2>3, <2>4, <2>5, <2>6 DEF Server
<1>12. ASSUME NEW u \in uploads, UploadLost(u) \/ CancelUpload(u) \/ UploadAnswered(u) PROVE MediaInv'
  <2>1. u \in UploadState /\ count \in Nat /\ UNCHANGED <<recording, store, messages, faces>>
    BY <1>12, <1>t DEF MediaTypeOK, UploadLost, CancelUpload, UploadAnswered
  <2> DEFINE v == [u EXCEPT !.waits = FALSE]
             w == [u EXCEPT !.step = "posting"]
  <2>2. v \in UploadState /\ v.step = u.step /\ v.of = u.of /\ v.medium = u.medium
    BY <2>1 DEF UploadState
  <2>3. w \in UploadState /\ w.step = "posting" /\ w.of = u.of /\ w.medium = u.medium
    BY <2>1, UploadChanges
  <2>7. Becomes(u, v) \/ (u.step = "answered" /\ Becomes(u, w)) \/ uploads' = uploads \ {u}
    BY <1>12 DEF UploadLost, CancelUpload, UploadAnswered
  <2> HIDE DEF v, w
  <2>4. CASE Becomes(u, v)
    <3>1. u.of \in Files => u.step \in {"asked", "refused"}
      BY <1>t DEF UploadsInOrder
    <3>2. u.step \in {"stored", "answered", "posting"} => Names(u)
      BY <1>t DEF UploadsInOrder
    <3> QED
      BY <2>1, <2>2, <2>4, <3>1, <3>2, UploadGoesOn DEF Names, Grows
  <2>5. CASE u.step = "answered" /\ Becomes(u, w)
    <3>1. u.of \notin Files /\ Names(u)
      BY <1>t, <2>5 DEF UploadsInOrder
    <3> QED
      BY <2>1, <2>3, <2>5, <3>1, UploadGoesOn DEF Names, Grows
  <2>6. CASE uploads' = uploads \ {u}
    BY <2>1, <2>6, UploadEnds
  <2> QED
    BY <2>4, <2>5, <2>6, <2>7
<1>13. ASSUME NEW u \in uploads, UploadRefused(u) \/ Forgotten(u) \/ NotPosted(u) PROVE MediaInv'
  BY <1>13, UploadEnds DEF UploadRefused, Forgotten, NotPosted
<1>14. ASSUME NEW u \in uploads, NEW cached \in BOOLEAN, PostMedia(u, cached) PROVE MediaInv'
  <2>1. u \in UploadState /\ u.of \in Medium /\ u.medium \in Nat
    BY <1>t, UploadChanges DEF MediaTypeOK
  <2>2. u.of \in Notes /\ Names(u)
    BY <1>14, <1>t, <2>1 DEF PostMedia, UploadsInOrder, Medium
  <2> DEFINE m == [of |-> u.of, medium |-> u.medium]
  <2>3. m \in MessageState /\ m.of = u.of /\ m.medium = u.medium
    BY <2>1, <2>2 DEF MessageState
  <2>4. PICK face \in Face : faces' = Append(faces, face) /\ face # "missing"
    BY <1>14 DEF PostMedia, Face
  <2>5. uploads' = uploads \ {u} /\ messages' = Append(messages, m) /\ UNCHANGED <<recording, store>>
    BY <1>14 DEF PostMedia
  <2> HIDE DEF m
  <2> DEFINE l == Len(messages) + 1
  <2>6. /\ DOMAIN messages = 1 .. Len(messages) /\ DOMAIN messages' = 1 .. l /\ messages'[l] = m
        /\ \A i \in DOMAIN messages : i # l /\ messages'[i] = messages[i] /\ faces'[i] = faces[i]
        /\ faces'[l] = face /\ \A i \in DOMAIN messages' : i \in DOMAIN messages \/ i = l
    BY <1>t, <2>4, <2>5 DEF MediaTypeOK
  <2>7. MediaTypeOK'
    <3>1. messages' \in Seq(MessageState) /\ Len(messages') = Len(messages) + 1
      BY <1>t, <2>3, <2>5 DEF MediaTypeOK
    <3>2. faces' \in Seq(Face)
          /\ Len(faces') = Len(faces) + 1
      BY <1>t, <2>4 DEF MediaTypeOK
    <3> QED
      BY <1>t, <2>5, <3>1, <3>2 DEF MediaTypeOK
  <2> HIDE DEF l
  <2>8. \A n \in Notes : Sending(n)' => Sending(n)
    BY <2>3, <2>5, <2>6 DEF Sending
  <2>9. RecordingsInOrder'
    BY <1>t, <2>5, <2>8 DEF RecordingsInOrder, Begun
  <2>10. \A i \in DOMAIN messages : messages[i].of # u.of
    BY <1>t DEF UploadsInOrder
  <2>11. \A v \in uploads' : v.of # u.of
    BY <1>t, <2>2, <2>5 DEF UploadsInOrder
  <2>12. UploadsInOrder'
    BY <1>t, <2>3, <2>5, <2>6, <2>11 DEF UploadsInOrder, Names
  <2>13. MessagesInOrder'
    <3> SUFFICES ASSUME NEW i \in DOMAIN messages'
                 PROVE  /\ \A k \in DOMAIN messages' : messages'[k].of = messages'[i].of => k = i
                        /\ messages'[i].medium \in DOMAIN objects
                        /\ objects[messages'[i].medium] = messages'[i].of
                        /\ faces'[i] = "missing" => messages'[i].medium \in removed
      BY <2>5 DEF MessagesInOrder, Names
    <3>1. CASE i \in DOMAIN messages
      <4>1. messages'[i] = messages[i] /\ faces'[i] = faces[i] /\ messages[i].of # m.of
        BY <2>3, <2>6, <2>10, <3>1
      <4>2. \A k \in DOMAIN messages' : messages'[k].of = messages[i].of => k = i
        BY <1>t, <2>6, <3>1, <4>1 DEF MessagesInOrder
      <4> QED
        BY <1>t, <3>1, <4>1, <4>2 DEF MessagesInOrder, Names
    <3>2. CASE i = l
      <4>1. messages'[i] = m /\ faces'[i] # "missing" /\ m.medium = u.medium /\ m.of = u.of
        BY <2>3, <2>4, <2>6, <3>2
      <4>2. \A k \in DOMAIN messages' : messages'[k].of = m.of => k = i
        BY <2>3, <2>6, <2>10, <3>2
      <4> QED
        BY <2>2, <4>1, <4>2 DEF Names
    <3> QED
      BY <2>6, <3>1, <3>2
  <2> QED
    BY <2>7, <2>9, <2>12, <2>13 DEF MediaInv
<1>15. ASSUME NEW m \in DOMAIN objects, DeleteMedia(m) PROVE MediaInv'
  <2>1. removed \subseteq removed' /\ UNCHANGED <<recording, uploads, objects, count, messages, faces>>
    BY <1>15 DEF DeleteMedia
  <2>2. MediaTypeOK' /\ RecordingsInOrder' /\ UploadsInOrder'
    BY <1>t, <2>1 DEF MediaTypeOK, RecordingsInOrder, Begun, Sending, UploadsInOrder, Names
  <2>3. MessagesInOrder'
    BY <1>t, <2>1 DEF MessagesInOrder, Names
  <2> QED
    BY <2>2, <2>3 DEF MediaInv
<1>16. ASSUME NEW i \in DOMAIN messages, DisplayMedia(i) PROVE MediaInv'
  <2>1. PICK face \in Face :
           /\ faces' = [faces EXCEPT ![i] = face]
           /\ face = "missing" => messages[i].medium \notin DOMAIN objects \ removed
    BY <1>16 DEF DisplayMedia, Face
  <2>2. UNCHANGED <<recording, uploads, store, messages>>
    BY <1>16 DEF DisplayMedia
  <2>3. i \in DOMAIN faces /\ faces \in Seq(Face)
        /\ DOMAIN messages = DOMAIN faces
    BY <1>t DEF MediaTypeOK
  <2>4. /\ faces' \in Seq(Face)
        /\ Len(faces') = Len(faces)
        /\ \A k \in DOMAIN messages : faces'[k] = IF k = i THEN face ELSE faces[k]
    BY <2>1, <2>3
  <2>5. MediaTypeOK' /\ RecordingsInOrder' /\ UploadsInOrder'
    BY <1>t, <2>2, <2>4 DEF MediaTypeOK, RecordingsInOrder, Begun, Sending, UploadsInOrder, Names
  <2>6. MessagesInOrder'
    BY <1>t, <2>1, <2>2, <2>4 DEF MessagesInOrder, Names
  <2> QED
    BY <2>5, <2>6 DEF MediaInv
<1> QED
  BY <1>1, <1>2, <1>3, <1>4, <1>5, <1>6, <1>7, <1>8, <1>9, <1>10, <1>11, <1>12, <1>13, <1>14, <1>15, <1>16
     DEF MediaNext, Recorder, Sender

(* A recording gives at most one message, none if it was cancelled, and the  *)
(* message names a medium of its own; for any number of recordings and       *)
(* files, any quota, and however buttons, timers, stop events, requests and  *)
(* deletions overlap (finishRecording, uploadMedia).                        *)
THEOREM NotesArriveOnceHolds == MediaSpec => []NotesArriveOnce
<1>1. MediaInv => NotesArriveOnce
  <2> SUFFICES ASSUME MediaInv, NEW i \in DOMAIN messages
               PROVE  /\ messages[i].of \in Notes \ cancelled
                      /\ \A k \in DOMAIN messages : messages[k].of = messages[i].of => k = i
                      /\ messages[i].medium \in DOMAIN objects /\ objects[messages[i].medium] = messages[i].of
                      /\ faces[i] = "missing" => messages[i].medium \in removed
    BY DEF NotesArriveOnce
  <2>1. messages[i].of \in Notes
    BY MessageTyped DEF MediaInv
  <2>2. messages[i].of \notin cancelled
    BY <2>1 DEF MediaInv, RecordingsInOrder, Sending
  <2> QED
    BY <2>1, <2>2 DEF MediaInv, MessagesInOrder, Names
<1> QED
  BY <1>1, MediaInvInit, MediaInvStep, PTL DEF MediaSpec
=============================================================================
