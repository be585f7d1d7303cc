------------------------- MODULE BGECapacityProofs -------------------------
(***************************************************************************)
(* The counters of every Capacity tell the truth and admission is bounded, *)
(* for any finite sets of requests and any limits.                         *)
(***************************************************************************)
EXTENDS BGECapacity, Integers, FiniteSetTheorems, TLAPS

\* r asks the Capacity c for a slot.
Uses(r, c) == c \in {Mode(r), "total"}

\* The waiters of c are requests that wait there, each once.
LineOK(c) ==
  /\ \A i \in DOMAIN line[c] : at[line[c][i]] = Waiting(c) /\ Uses(line[c][i], c)
  /\ \A i, j \in DOMAIN line[c] : line[c][i] = line[c][j] => i = j

\* The guards of acquire.
WithinLimits ==
  \A c \in Caps : inflight[c] <= MaxInflight(c) /\ queued[c] <= MaxQueued(c)

CapacityInv ==
  /\ TypeOK
  /\ \A c \in Caps : LineOK(c)
  /\ CountersExact
  /\ WithinLimits

----------------------------------------------------------------------------
(* Facts about the constants. *)
LEMMA ModeIsCap ==
  ASSUME NEW r \in Requests
  PROVE  Mode(r) \in Caps /\ Mode(r) # "total"
BY DEF Mode, Caps, Modes

LEMMA LimitsAreNat ==
  ASSUME NEW c \in Caps
  PROVE  MaxInflight(c) \in Nat \ {0} /\ MaxQueued(c) \in Nat
BY CapacityAssumption DEF MaxInflight, MaxQueued, Caps, Modes

LEMMA CountedSetsAreFinite ==
  ASSUME NEW c
  PROVE  /\ IsFiniteSet(Holders(c)) /\ Cardinality(Holders(c)) \in Nat
         /\ IsFiniteSet(InQueue(c)) /\ Cardinality(InQueue(c)) \in Nat
<1>1. IsFiniteSet(Requests)
  BY CapacityAssumption, FS_Union DEF Requests
<1>2. Holders(c) \subseteq Requests /\ InQueue(c) \subseteq Requests
  BY DEF Holders, InQueue
<1> QED BY <1>1, <1>2, FS_Subset, FS_CardinalityType

(* The size of a set whose elements other than r stay. *)
LEMMA SizeAfter ==
  ASSUME NEW S, IsFiniteSet(S), NEW T, NEW r,
         \A q : q # r => (q \in S <=> q \in T)
  PROVE  Cardinality(T) = CASE r \in T /\ r \notin S -> Cardinality(S) + 1
                            [] r \notin T /\ r \in S -> Cardinality(S) - 1
                            [] OTHER -> Cardinality(S)
<1>1. CASE r \in T /\ r \notin S
  <2>1. T = S \cup {r}
    BY <1>1
  <2> QED BY <1>1, <2>1, FS_AddElement
<1>2. CASE r \notin T /\ r \in S
  <2>1. T = S \ {r}
    BY <1>2
  <2> QED BY <1>2, <2>1, FS_RemoveElement
<1>3. CASE (r \in T) <=> (r \in S)
  <2>1. T = S
    BY <1>3
  <2> QED BY <1>3, <2>1
<1> QED BY <1>1, <1>2, <1>3

----------------------------------------------------------------------------
\* A step of r moves no other request, except from waiting to woken.
OthersKeep(r) ==
  \A q \in Requests \ {r} :
    \/ at'[q] = at[q]
    \/ \E c \in Caps : Uses(q, c) /\ at[q] = Waiting(c) /\ at'[q] = Woken(c)

(* What such a step does to the counted sets. *)
LEMMA CountsAfter ==
  ASSUME NEW r \in Requests, NEW c \in Caps, OthersKeep(r)
  PROVE  /\ Cardinality(Holders(c)') =
              CASE r \in Holders(c)' /\ r \notin Holders(c) -> Cardinality(Holders(c)) + 1
                [] r \notin Holders(c)' /\ r \in Holders(c) -> Cardinality(Holders(c)) - 1
                [] OTHER -> Cardinality(Holders(c))
         /\ Cardinality(InQueue(c)') =
              CASE r \in InQueue(c)' /\ r \notin InQueue(c) -> Cardinality(InQueue(c)) + 1
                [] r \notin InQueue(c)' /\ r \in InQueue(c) -> Cardinality(InQueue(c)) - 1
                [] OTHER -> Cardinality(InQueue(c))
<1>1. ASSUME NEW q, q # r
      PROVE  q \in Holders(c) <=> q \in Holders(c)'
  BY <1>1 DEF OthersKeep, Holders, Waiting, Woken, Uses, Caps, Modes, Mode
<1>2. ASSUME NEW q, q # r
      PROVE  q \in InQueue(c) <=> q \in InQueue(c)'
  BY <1>2 DEF OthersKeep, InQueue, Waiting, Woken, Uses, Caps, Modes, Mode
<1>3. IsFiniteSet(Holders(c)) /\ IsFiniteSet(InQueue(c))
  BY CountedSetsAreFinite
<1>4. Cardinality(Holders(c)') =
        CASE r \in Holders(c)' /\ r \notin Holders(c) -> Cardinality(Holders(c)) + 1
          [] r \notin Holders(c)' /\ r \in Holders(c) -> Cardinality(Holders(c)) - 1
          [] OTHER -> Cardinality(Holders(c))
  BY <1>1, <1>3, SizeAfter
<1>5. Cardinality(InQueue(c)') =
        CASE r \in InQueue(c)' /\ r \notin InQueue(c) -> Cardinality(InQueue(c)) + 1
          [] r \notin InQueue(c)' /\ r \in InQueue(c) -> Cardinality(InQueue(c)) - 1
          [] OTHER -> Cardinality(InQueue(c))
  BY <1>2, <1>3, SizeAfter
<1> QED BY <1>4, <1>5
----------------------------------------------------------------------------
\* Whether a request at a place holds a slot of c, or is counted in its queue.
HoldsAt(r, place, c) ==
  IF c = "total"
  THEN place \in {"encode", "leaving"}
  ELSE /\ Mode(r) = c
       /\ place \in {"totalWait", "totalWoken", "encode", "leaving", "backing"}

QueuesAt(r, place, c) == Uses(r, c) /\ place \in {Waiting(c), Woken(c)}

Delta(before, after) ==
  IF after /\ ~before THEN 1 ELSE IF before /\ ~after THEN -1 ELSE 0

(* The counters stay exact when they follow the place of the request.      *)
LEMMA ExactAfter ==
  ASSUME NEW r \in Requests, CountersExact, TypeOK,
         at' \in [Requests -> Places], OthersKeep(r),
         \A c \in Caps :
           /\ inflight'[c] = inflight[c]
                + Delta(HoldsAt(r, at[r], c), HoldsAt(r, at'[r], c))
           /\ queued'[c] = queued[c]
                + Delta(QueuesAt(r, at[r], c), QueuesAt(r, at'[r], c))
  PROVE  /\ CountersExact'
         /\ \A c \in Caps : inflight'[c] \in Nat /\ queued'[c] \in Nat
<1> SUFFICES ASSUME NEW c \in Caps
             PROVE  /\ inflight'[c] = Cardinality(Holders(c)')
                    /\ queued'[c] = Cardinality(InQueue(c)')
                    /\ inflight'[c] \in Nat /\ queued'[c] \in Nat
  BY DEF CountersExact
<1> DEFINE h == Cardinality(Holders(c))   hh == Cardinality(Holders(c)')
           w == Cardinality(InQueue(c))   ww == Cardinality(InQueue(c)')
<1>1. /\ r \in Holders(c) <=> HoldsAt(r, at[r], c)
      /\ r \in Holders(c)' <=> HoldsAt(r, at'[r], c)
      /\ r \in InQueue(c) <=> QueuesAt(r, at[r], c)
      /\ r \in InQueue(c)' <=> QueuesAt(r, at'[r], c)
  BY DEF Holders, InQueue, HoldsAt, QueuesAt, Uses
<1>2. h \in Nat /\ w \in Nat
  BY CountedSetsAreFinite
<1>3. hh \in Nat /\ ww \in Nat
  <2>1. IsFiniteSet(Requests)
    BY CapacityAssumption, FS_Union DEF Requests
  <2>2. Holders(c)' \subseteq Requests /\ InQueue(c)' \subseteq Requests
    BY DEF Holders, InQueue
  <2> QED BY <2>1, <2>2, FS_Subset, FS_CardinalityType
<1>4. inflight[c] = h /\ queued[c] = w
  BY DEF CountersExact
<1>5. /\ hh = h + Delta(r \in Holders(c), r \in Holders(c)')
      /\ ww = w + Delta(r \in InQueue(c), r \in InQueue(c)')
  <2> HIDE DEF h, hh, w, ww
  <2>1. /\ hh = CASE r \in Holders(c)' /\ r \notin Holders(c) -> h + 1
                  [] r \notin Holders(c)' /\ r \in Holders(c) -> h - 1
                  [] OTHER -> h
        /\ ww = CASE r \in InQueue(c)' /\ r \notin InQueue(c) -> w + 1
                  [] r \notin InQueue(c)' /\ r \in InQueue(c) -> w - 1
                  [] OTHER -> w
    BY CountsAfter DEF h, hh, w, ww
  <2> QED BY <2>1, <1>2 DEF Delta
<1>6. /\ hh = h + Delta(HoldsAt(r, at[r], c), HoldsAt(r, at'[r], c))
      /\ ww = w + Delta(QueuesAt(r, at[r], c), QueuesAt(r, at'[r], c))
  <2> HIDE DEF h, hh, w, ww
  <2> QED BY <1>1, <1>5 DEF Delta
<1>7. inflight'[c] = hh /\ queued'[c] = ww
  BY <1>4, <1>6
<1> QED BY <1>3, <1>7

----------------------------------------------------------------------------
(* The four things a step does to a line of waiters. *)
LEMMA LineSame ==
  ASSUME NEW c \in Caps, LineOK(c), line'[c] = line[c],
         \A i \in DOMAIN line[c] : at'[line[c][i]] = at[line[c][i]]
  PROVE  LineOK(c)'
BY DEF LineOK, Uses, Waiting

LEMMA LineJoined ==
  ASSUME NEW c \in Caps, NEW r \in Requests, LineOK(c), TypeOK,
         line'[c] = Append(line[c], r),
         at[r] # Waiting(c), at'[r] = Waiting(c), Uses(r, c),
         \A q \in Requests \ {r} : at'[q] = at[q]
  PROVE  LineOK(c)'
BY DEF LineOK, Uses, Waiting, TypeOK

LEMMA LineLeft ==
  ASSUME NEW c \in Caps, NEW r \in Requests, LineOK(c), TypeOK,
         NEW k \in DOMAIN line[c], line[c][k] = r,
         line'[c] = DropAt(line[c], k),
         \A q \in Requests \ {r} : at'[q] = at[q]
  PROVE  LineOK(c)' /\ line'[c] \in Seq(Requests)
<1> DEFINE s == line[c]
<1>1. s \in Seq(Requests) /\ k \in 1..Len(s)
  BY DEF TypeOK
<1>2. /\ line'[c] \in Seq(Requests) /\ Len(line'[c]) = Len(s) - 1
      /\ \A j \in 1..(Len(s) - 1) :
           line'[c][j] = IF j < k THEN s[j] ELSE s[j + 1]
  BY <1>1 DEF DropAt
<1>3. \A j \in 1..(Len(s) - 1) : line'[c][j] \in Requests \ {r}
  BY <1>1, <1>2 DEF LineOK
<1>4. \A j \in 1..(Len(s) - 1) :
        at'[line'[c][j]] = Waiting(c) /\ Uses(line'[c][j], c)
  BY <1>1, <1>2, <1>3 DEF LineOK
<1>5. \A i, j \in 1..(Len(s) - 1) : line'[c][i] = line'[c][j] => i = j
  <2> SUFFICES ASSUME NEW i \in 1..(Len(s) - 1), NEW j \in 1..(Len(s) - 1),
                      line'[c][i] = line'[c][j]
               PROVE  i = j
    OBVIOUS
  <2> DEFINE from(n) == IF n < k THEN n ELSE n + 1
  <2>1. from(i) \in DOMAIN s /\ from(j) \in DOMAIN s
    BY <1>1
  <2>2. s[from(i)] = s[from(j)]
    BY <1>2
  <2>3. from(i) = from(j)
    <3> HIDE DEF from
    <3> QED BY <2>1, <2>2 DEF LineOK
  <2> QED BY <1>1, <2>3
<1>6. DOMAIN line'[c] = 1..(Len(s) - 1)
  BY <1>1, <1>2
<1> HIDE DEF s
<1> QED BY <1>2, <1>4, <1>5, <1>6 DEF LineOK, Uses, Waiting

LEMMA LineNotified ==
  ASSUME NEW c \in Caps, LineOK(c), TypeOK, line'[c] = Rest(c),
         \A i \in DOMAIN line[c] : i # 1 => at'[line[c][i]] = at[line[c][i]]
  PROVE  LineOK(c)' /\ line'[c] \in Seq(Requests)
<1> DEFINE s == line[c]
<1>1. s \in Seq(Requests)
  BY DEF TypeOK
<1>2. CASE s = <<>>
  BY <1>2 DEF LineOK, Rest
<1>3. CASE s # <<>>
  <2>1. /\ line'[c] \in Seq(Requests) /\ Len(line'[c]) = Len(s) - 1
        /\ \A j \in 1..(Len(s) - 1) : line'[c][j] = s[j + 1]
    BY <1>1, <1>3 DEF Rest
  <2>2. DOMAIN line'[c] = 1..(Len(s) - 1)
    BY <1>1, <2>1
  <2>3. \A j \in 1..(Len(s) - 1) : j + 1 \in DOMAIN s /\ j + 1 # 1
    BY <1>1
  <2>4. \A j \in 1..(Len(s) - 1) :
          at'[line'[c][j]] = Waiting(c) /\ Uses(line'[c][j], c)
    BY <2>1, <2>3 DEF LineOK
  <2>5. \A i, j \in 1..(Len(s) - 1) : line'[c][i] = line'[c][j] => i = j
    BY <2>1, <2>3 DEF LineOK
  <2> HIDE DEF s
  <2> QED BY <2>1, <2>2, <2>4, <2>5 DEF LineOK, Uses, Waiting
<1> QED BY <1>2, <1>3
----------------------------------------------------------------------------
(* The conditions that make a step of r keep the invariant. *)
CountersFollow(r) ==
  /\ inflight' \in [Caps -> Int] /\ queued' \in [Caps -> Int]
  /\ \A c \in Caps :
       /\ inflight'[c] = inflight[c]
            + Delta(HoldsAt(r, at[r], c), HoldsAt(r, at'[r], c))
       /\ queued'[c] = queued[c]
            + Delta(QueuesAt(r, at[r], c), QueuesAt(r, at'[r], c))

LEMMA InvAfter ==
  ASSUME NEW r \in Requests, CapacityInv,
         at' \in [Requests -> Places], reply' \in [Requests -> Replies],
         OthersKeep(r), CountersFollow(r),
         line' \in [Caps -> Seq(Requests)], \A c \in Caps : LineOK(c)',
         WithinLimits'
  PROVE  CapacityInv'
<1>1. CountersExact' /\ \A c \in Caps : inflight'[c] \in Nat /\ queued'[c] \in Nat
  BY ExactAfter DEF CapacityInv, CountersFollow
<1>2. inflight' \in [Caps -> Nat] /\ queued' \in [Caps -> Nat]
  BY <1>1 DEF CountersFollow
<1> QED BY <1>1, <1>2 DEF CapacityInv, TypeOK

(* A request that moves alone, between places that are in no line. *)
LEMMA LinesStand ==
  ASSUME NEW r \in Requests, CapacityInv, line' = line,
         \A c \in Caps : Uses(r, c) => at[r] # Waiting(c),
         \A q \in Requests \ {r} : at'[q] = at[q]
  PROVE  line' \in [Caps -> Seq(Requests)] /\ \A c \in Caps : LineOK(c)'
<1> SUFFICES ASSUME NEW c \in Caps PROVE LineOK(c)'
  BY DEF CapacityInv, TypeOK
<1>1. LineOK(c) /\ line[c] \in Seq(Requests)
  BY DEF CapacityInv, TypeOK
<1>2. \A i \in DOMAIN line[c] : line[c][i] \in Requests \ {r}
  BY <1>1 DEF LineOK
<1> QED BY <1>1, <1>2, LineSame

(* A request that joins the line of c. *)
LEMMA LinesJoined ==
  ASSUME NEW r \in Requests, NEW c \in Caps, CapacityInv, Uses(r, c),
         line' = [line EXCEPT ![c] = Append(@, r)],
         at[r] \notin {"modeWait", "totalWait"}, at'[r] = Waiting(c),
         \A q \in Requests \ {r} : at'[q] = at[q]
  PROVE  line' \in [Caps -> Seq(Requests)] /\ \A d \in Caps : LineOK(d)'
<1>1. line' \in [Caps -> Seq(Requests)]
  BY DEF CapacityInv, TypeOK
<1>2. LineOK(c)'
  BY LineJoined DEF CapacityInv, TypeOK, Waiting
<1>3. ASSUME NEW d \in Caps, d # c PROVE LineOK(d)'
  <2>1. LineOK(d) /\ line[d] \in Seq(Requests) /\ line'[d] = line[d]
    BY <1>3 DEF CapacityInv, TypeOK
  <2>2. \A i \in DOMAIN line[d] : line[d][i] \in Requests \ {r}
    BY <2>1 DEF LineOK, Waiting
  <2> QED BY <2>1, <2>2, LineSame
<1> QED BY <1>1, <1>2, <1>3

(* Asking the total for a slot, with one of the mode just taken. *)
LEMMA EnterTotalStep ==
  ASSUME NEW r \in Requests, CapacityInv, ~Busy(Mode(r)), NEW que,
         \/ at[r] = "away" /\ que = queued
         \/ at[r] = "modeWoken" /\ que = [queued EXCEPT ![Mode(r)] = @ - 1],
         EnterTotal(r, [inflight EXCEPT ![Mode(r)] = @ + 1], que)
  PROVE  CapacityInv'
<1> DEFINE c == Mode(r)
           inf == [inflight EXCEPT ![c] = @ + 1]
<1>0. /\ TypeOK /\ WithinLimits /\ c \in Caps /\ c # "total" /\ "total" \in Caps
      /\ c \in {"query", "batch"}
  BY ModeIsCap DEF CapacityInv, Caps, Modes, Mode
<1>a. \A d \in Caps : inf[d] \in Nat /\ inf[d] <= MaxInflight(d)
  <2> SUFFICES ASSUME NEW d \in Caps
               PROVE  inf[d] \in Nat /\ inf[d] <= MaxInflight(d)
    OBVIOUS
  <2>1. /\ inflight[d] \in Nat /\ MaxInflight(d) \in Nat
        /\ inflight[d] <= MaxInflight(d)
        /\ d = c => inflight[d] < MaxInflight(d)
    BY <1>0, LimitsAreNat DEF WithinLimits, Busy, TypeOK
  <2>2. inf[d] = IF d = c THEN inflight[d] + 1 ELSE inflight[d]
    BY <1>0 DEF TypeOK
  <2> HIDE DEF inf, c
  <2> QED BY <2>1, <2>2
<1>b. \A d \in Caps : que[d] \in Int /\ que[d] <= MaxQueued(d)
  <2> SUFFICES ASSUME NEW d \in Caps
               PROVE  que[d] \in Int /\ que[d] <= MaxQueued(d)
    OBVIOUS
  <2>1. queued[d] \in Nat /\ MaxQueued(d) \in Nat /\ queued[d] <= MaxQueued(d)
    BY <1>0, LimitsAreNat DEF WithinLimits, TypeOK
  <2>2. que[d] \in {queued[d], queued[d] - 1}
    BY <1>0 DEF TypeOK
  <2> HIDE DEF inf, c
  <2> QED BY <2>1, <2>2
<1>d. DOMAIN inf = Caps /\ DOMAIN que = Caps
  BY <1>0 DEF TypeOK
<1>1. CASE Full("total") /\ Moves(r, "backing", "full")
           /\ inflight' = inf /\ queued' = que /\ UNCHANGED line
  <2>1. /\ at' \in [Requests -> Places] /\ reply' \in [Requests -> Replies]
        /\ at'[r] = "backing" /\ \A q \in Requests \ {r} : at'[q] = at[q]
    BY <1>0, <1>1 DEF Moves, TypeOK, Places, Replies
  <2>2. CountersFollow(r)
    BY <1>0, <1>1, <2>1
    DEF CountersFollow, Delta, HoldsAt, QueuesAt, Uses, Waiting, Woken, TypeOK
  <2>3. WithinLimits'
    BY <1>1, <1>a, <1>b DEF WithinLimits
  <2>4. line' \in [Caps -> Seq(Requests)] /\ \A d \in Caps : LineOK(d)'
    BY <1>1, <2>1, LinesStand DEF Waiting
  <2> QED BY <2>1, <2>2, <2>3, <2>4, InvAfter DEF OthersKeep
<1>2. CASE /\ ~Full("total") /\ Moves(r, "totalWait", "none")
           /\ inflight' = inf
           /\ queued' = [que EXCEPT !["total"] = @ + 1]
           /\ line' = [line EXCEPT !["total"] = Append(@, r)]
  <2>1. /\ at' \in [Requests -> Places] /\ reply' \in [Requests -> Replies]
        /\ at'[r] = "totalWait" /\ \A q \in Requests \ {r} : at'[q] = at[q]
    BY <1>0, <1>2 DEF Moves, TypeOK, Places, Replies
  <2>2. CountersFollow(r)
    BY <1>0, <1>2, <2>1
    DEF CountersFollow, Delta, HoldsAt, QueuesAt, Uses, Waiting, Woken, TypeOK
  <2>3. WithinLimits'
    <3>1. \A d \in Caps : inflight'[d] <= MaxInflight(d)
      BY <1>2, <1>a
    <3>2. ASSUME NEW d \in Caps PROVE queued'[d] <= MaxQueued(d)
      <4>1. CASE d = "total"
        <5>1. que["total"] = queued["total"] /\ queued["total"] < MaxQueued("total")
          BY <1>0, <1>2, LimitsAreNat DEF Full, TypeOK
        <5>2. queued'["total"] = que["total"] + 1
          BY <1>0, <1>2, <1>d
        <5>3. queued["total"] \in Nat /\ MaxQueued("total") \in Nat
          BY <1>0, LimitsAreNat DEF TypeOK
        <5> HIDE DEF inf
        <5> QED BY <4>1, <5>1, <5>2, <5>3
      <4>2. CASE d # "total"
        <5>1. queued'[d] = que[d]
          BY <1>2, <1>d, <4>2
        <5> QED BY <1>b, <5>1
      <4> QED BY <4>1, <4>2
    <3> QED BY <3>1, <3>2 DEF WithinLimits
  <2>4. line' \in [Caps -> Seq(Requests)] /\ \A d \in Caps : LineOK(d)'
    BY <1>0, <1>2, <2>1, LinesJoined DEF Waiting, Uses
  <2> QED BY <2>1, <2>2, <2>3, <2>4, InvAfter DEF OthersKeep
<1>3. CASE /\ ~Busy("total") /\ Moves(r, "encode", "none")
           /\ inflight' = [inf EXCEPT !["total"] = @ + 1]
           /\ queued' = que
           /\ UNCHANGED line
  <2>1. /\ at' \in [Requests -> Places] /\ reply' \in [Requests -> Replies]
        /\ at'[r] = "encode" /\ \A q \in Requests \ {r} : at'[q] = at[q]
    BY <1>0, <1>3 DEF Moves, TypeOK, Places, Replies
  <2>2. CountersFollow(r)
    <3>1. inflight' \in [Caps -> Int] /\ queued' \in [Caps -> Int]
      BY <1>0, <1>3 DEF TypeOK
    <3>2. \A d \in Caps :
            inflight'[d] = inflight[d]
              + Delta(HoldsAt(r, at[r], d), HoldsAt(r, at'[r], d))
      BY <1>0, <1>3, <2>1 DEF Delta, HoldsAt, TypeOK, Caps, Modes
    <3>3. \A d \in Caps :
            queued'[d] = queued[d]
              + Delta(QueuesAt(r, at[r], d), QueuesAt(r, at'[r], d))
      BY <1>0, <1>3, <2>1 DEF Delta, QueuesAt, Uses, Waiting, Woken, TypeOK
    <3> QED BY <3>1, <3>2, <3>3 DEF CountersFollow
  <2>3. WithinLimits'
    <3> SUFFICES ASSUME NEW d \in Caps
                 PROVE  inflight'[d] <= MaxInflight(d) /\ queued'[d] <= MaxQueued(d)
      BY DEF WithinLimits
    <3>1. /\ inflight[d] \in Nat /\ queued[d] \in Nat
          /\ MaxInflight(d) \in Nat /\ MaxQueued(d) \in Nat
          /\ inflight[d] <= MaxInflight(d) /\ queued[d] <= MaxQueued(d)
          /\ d \in {c, "total"} => inflight[d] < MaxInflight(d)
      BY <1>0, <1>3, LimitsAreNat DEF WithinLimits, Busy, TypeOK
    <3>2. inflight'[d] = IF d \in {c, "total"} THEN inflight[d] + 1 ELSE inflight[d]
      BY <1>0, <1>3 DEF TypeOK
    <3>3. queued'[d] \in {queued[d], queued[d] - 1}
      BY <1>0, <1>3 DEF TypeOK
    <3> QED BY <3>1, <3>2, <3>3
  <2>4. line' \in [Caps -> Seq(Requests)] /\ \A d \in Caps : LineOK(d)'
    BY <1>3, <2>1, LinesStand DEF Waiting
  <2> QED BY <2>1, <2>2, <2>3, <2>4, InvAfter DEF OthersKeep
<1> QED BY <1>1, <1>2, <1>3 DEF EnterTotal
----------------------------------------------------------------------------
(* A step of r that notifies the first waiter of every Capacity of N. *)
LEMMA Notifying ==
  ASSUME NEW r \in Requests, NEW N \in SUBSET Caps, CapacityInv,
         at[r] \notin {"modeWait", "totalWait"},
         line' = [d \in Caps |-> IF d \in N THEN Rest(d) ELSE line[d]],
         \A q \in Requests \ {r} :
           \/ \E d \in N : q \in Notified(d) /\ at'[q] = Woken(d)
           \/ (\A d \in N : q \notin Notified(d)) /\ at'[q] = at[q]
  PROVE  /\ OthersKeep(r)
         /\ line' \in [Caps -> Seq(Requests)]
         /\ \A d \in Caps : LineOK(d)'
<1>1. ASSUME NEW d \in Caps, NEW i \in DOMAIN line[d]
      PROVE  /\ line[d][i] \in Requests \ {r}
             /\ at[line[d][i]] = Waiting(d) /\ Uses(line[d][i], d)
  BY <1>1 DEF CapacityInv, LineOK, TypeOK, Waiting
<1>2. ASSUME NEW d \in Caps, NEW q \in Notified(d)
      PROVE  1 \in DOMAIN line[d] /\ q = line[d][1] /\ at[q] = Waiting(d) /\ Uses(q, d)
  <2>1. line[d] \in Seq(Requests) /\ line[d] # <<>> /\ q = Head(line[d])
    BY <1>2 DEF Notified, CapacityInv, TypeOK
  <2>2. 1 \in DOMAIN line[d] /\ q = line[d][1]
    BY <2>1
  <2> QED BY <1>1, <2>2
<1>3. OthersKeep(r)
  BY <1>2 DEF OthersKeep
<1>4. ASSUME NEW d \in Caps PROVE LineOK(d)' /\ line'[d] \in Seq(Requests)
  <2>1. \A i \in DOMAIN line[d] :
          (i # 1 \/ d \notin N) => at'[line[d][i]] = at[line[d][i]]
    <3> SUFFICES ASSUME NEW i \in DOMAIN line[d], i # 1 \/ d \notin N
                 PROVE  at'[line[d][i]] = at[line[d][i]]
      OBVIOUS
    <3> DEFINE q == line[d][i]
    <3>1. q \in Requests \ {r} /\ at[q] = Waiting(d) /\ Uses(q, d)
      BY <1>1
    <3>2. ASSUME NEW e \in N, q \in Notified(e) PROVE FALSE
      <4>1. 1 \in DOMAIN line[e] /\ q = line[e][1] /\ at[q] = Waiting(e) /\ Uses(q, e)
        BY <1>2, <3>2
      <4>2. e = d
        BY <3>1, <4>1, ModeIsCap DEF Waiting, Uses
      <4> QED BY <4>1, <4>2 DEF CapacityInv, LineOK
    <3> QED BY <3>1, <3>2
  <2>2. LineOK(d) /\ TypeOK /\ line[d] \in Seq(Requests)
    BY DEF CapacityInv, TypeOK
  <2>3. CASE d \in N
    BY <2>1, <2>2, <2>3, LineNotified
  <2>4. CASE d \notin N
    BY <2>1, <2>2, <2>4, LineSame
  <2> QED BY <2>3, <2>4
<1>5. line' \in [Caps -> Seq(Requests)]
  BY <1>4
<1> QED BY <1>3, <1>4, <1>5
----------------------------------------------------------------------------
LEMMA ArriveStep ==
  ASSUME NEW r \in Requests, CapacityInv, Arrive(r)
  PROVE  CapacityInv'
<1> DEFINE c == Mode(r)
<1>0. /\ TypeOK /\ WithinLimits /\ c \in Caps /\ c # "total" /\ "total" \in Caps
      /\ c \in {"query", "batch"} /\ at[r] = "away"
  BY ModeIsCap DEF CapacityInv, Caps, Modes, Mode, Arrive
<1>1. CASE Moves(r, "away", "full") /\ UNCHANGED <<inflight, queued, line>>
  <2>1. /\ at' \in [Requests -> Places] /\ reply' \in [Requests -> Replies]
        /\ at'[r] = at[r] /\ \A q \in Requests \ {r} : at'[q] = at[q]
    BY <1>0, <1>1 DEF Moves, TypeOK, Places, Replies
  <2>2. CountersFollow(r)
    BY <1>0, <1>1, <2>1 DEF CountersFollow, Delta, TypeOK
  <2>3. WithinLimits'
    BY <1>0, <1>1 DEF WithinLimits
  <2>4. line' \in [Caps -> Seq(Requests)] /\ \A d \in Caps : LineOK(d)'
    BY <1>0, <1>1, <2>1, LinesStand DEF Waiting
  <2> QED BY <2>1, <2>2, <2>3, <2>4, InvAfter DEF OthersKeep
<1>2. CASE /\ ~Full(c) /\ Moves(r, "modeWait", "none")
           /\ queued' = [queued EXCEPT ![c] = @ + 1]
           /\ line' = [line EXCEPT ![c] = Append(@, r)]
           /\ UNCHANGED inflight
  <2>1. /\ at' \in [Requests -> Places] /\ reply' \in [Requests -> Replies]
        /\ at'[r] = "modeWait" /\ \A q \in Requests \ {r} : at'[q] = at[q]
    BY <1>0, <1>2 DEF Moves, TypeOK, Places, Replies
  <2>2. CountersFollow(r)
    BY <1>0, <1>2, <2>1
    DEF CountersFollow, Delta, HoldsAt, QueuesAt, Uses, Waiting, Woken, TypeOK
  <2>3. WithinLimits'
    BY <1>0, <1>2, LimitsAreNat DEF WithinLimits, Full, TypeOK
  <2>4. line' \in [Caps -> Seq(Requests)] /\ \A d \in Caps : LineOK(d)'
    BY <1>0, <1>2, <2>1, LinesJoined DEF Waiting, Uses
  <2> QED BY <2>1, <2>2, <2>3, <2>4, InvAfter DEF OthersKeep
<1>3. CASE ~Busy(c) /\ EnterTotal(r, [inflight EXCEPT ![c] = @ + 1], queued)
  BY <1>0, <1>3, EnterTotalStep
<1> QED BY <1>1, <1>2, <1>3 DEF Arrive

LEMMA ResumeModeStep ==
  ASSUME NEW r \in Requests, CapacityInv, ResumeMode(r)
  PROVE  CapacityInv'
<1> DEFINE c == Mode(r)
<1>0. /\ TypeOK /\ WithinLimits /\ c \in Caps /\ c # "total" /\ "total" \in Caps
      /\ c \in {"query", "batch"} /\ at[r] = "modeWoken"
  BY ModeIsCap DEF CapacityInv, Caps, Modes, Mode, ResumeMode
<1>1. CASE /\ Moves(r, "away", "unavailable")
           /\ queued' = [queued EXCEPT ![c] = @ - 1]
           /\ UNCHANGED <<inflight, line>>
  <2>1. /\ at' \in [Requests -> Places] /\ reply' \in [Requests -> Replies]
        /\ at'[r] = "away" /\ \A q \in Requests \ {r} : at'[q] = at[q]
    BY <1>0, <1>1 DEF Moves, TypeOK, Places, Replies
  <2>2. CountersFollow(r)
    BY <1>0, <1>1, <2>1
    DEF CountersFollow, Delta, HoldsAt, QueuesAt, Uses, Waiting, Woken, TypeOK
  <2>3. WithinLimits'
    BY <1>0, <1>1, LimitsAreNat DEF WithinLimits, TypeOK
  <2>4. line' \in [Caps -> Seq(Requests)] /\ \A d \in Caps : LineOK(d)'
    BY <1>0, <1>1, <2>1, LinesStand DEF Waiting
  <2> QED BY <2>1, <2>2, <2>3, <2>4, InvAfter DEF OthersKeep
<1>2. CASE /\ ~Busy(c)
           /\ EnterTotal(r, [inflight EXCEPT ![c] = @ + 1],
                            [queued EXCEPT ![c] = @ - 1])
  BY <1>0, <1>2, EnterTotalStep
<1> QED BY <1>1, <1>2 DEF ResumeMode

LEMMA ResumeTotalStep ==
  ASSUME NEW r \in Requests, CapacityInv, ResumeTotal(r)
  PROVE  CapacityInv'
<1> DEFINE c == Mode(r)
<1>0. /\ TypeOK /\ WithinLimits /\ c \in Caps /\ c # "total" /\ "total" \in Caps
      /\ c \in {"query", "batch"} /\ at[r] = "totalWoken"
      /\ queued' = [queued EXCEPT !["total"] = @ - 1] /\ line' = line
  BY ModeIsCap DEF CapacityInv, Caps, Modes, Mode, ResumeTotal
<1>1. /\ at' \in [Requests -> Places] /\ reply' \in [Requests -> Replies]
      /\ at'[r] \in {"backing", "encode"}
      /\ at'[r] = "backing" => inflight' = inflight
      /\ at'[r] = "encode" =>
           /\ ~Busy("total")
           /\ inflight' = [inflight EXCEPT !["total"] = @ + 1]
      /\ \A q \in Requests \ {r} : at'[q] = at[q]
  BY <1>0 DEF ResumeTotal, Moves, TypeOK, Places, Replies
<1>2. CountersFollow(r)
  <2>1. CASE at'[r] = "backing"
    BY <1>0, <1>1, <2>1
    DEF CountersFollow, Delta, HoldsAt, QueuesAt, Uses, Waiting, Woken, TypeOK
  <2>2. CASE at'[r] = "encode"
    BY <1>0, <1>1, <2>2
    DEF CountersFollow, Delta, HoldsAt, QueuesAt, Uses, Waiting, Woken, TypeOK
  <2> QED BY <1>1, <2>1, <2>2
<1>3. WithinLimits'
  BY <1>0, <1>1, LimitsAreNat DEF WithinLimits, Busy, TypeOK
<1>4. line' \in [Caps -> Seq(Requests)] /\ \A d \in Caps : LineOK(d)'
  BY <1>0, <1>1, LinesStand DEF Waiting
<1> QED BY <1>1, <1>2, <1>3, <1>4, InvAfter DEF OthersKeep

LEMMA TimeoutWaitingStep ==
  ASSUME NEW r \in Requests, NEW c \in Caps, CapacityInv, TimeoutWaiting(r, c)
  PROVE  CapacityInv'
<1>0. /\ TypeOK /\ WithinLimits /\ Uses(r, c) /\ at[r] = Waiting(c)
      /\ Mode(r) \in {"query", "batch"} /\ inflight' = inflight
      /\ queued' = [queued EXCEPT ![c] = @ - 1]
  BY ModeIsCap DEF CapacityInv, Mode, TimeoutWaiting, Uses
<1>1. /\ at' \in [Requests -> Places] /\ reply' \in [Requests -> Replies]
      /\ at'[r] = Refused(c) /\ \A q \in Requests \ {r} : at'[q] = at[q]
  BY <1>0 DEF TimeoutWaiting, Moves, TypeOK, Places, Replies, Refused
<1>2. CountersFollow(r)
  BY <1>0, <1>1
  DEF CountersFollow, Delta, HoldsAt, QueuesAt, Uses, Waiting, Woken, Refused, TypeOK
<1>3. WithinLimits'
  BY <1>0, LimitsAreNat DEF WithinLimits, TypeOK
<1>4. PICK k \in DOMAIN line[c] :
        line[c][k] = r /\ line' = [line EXCEPT ![c] = DropAt(@, k)]
  BY DEF TimeoutWaiting
<1>5. LineOK(c)' /\ line'[c] \in Seq(Requests)
  <2>1. line'[c] = DropAt(line[c], k)
    BY <1>0, <1>4 DEF TypeOK
  <2> QED BY <1>0, <1>1, <1>4, <2>1, LineLeft DEF CapacityInv
<1>6. ASSUME NEW d \in Caps, d # c PROVE LineOK(d)' /\ line'[d] \in Seq(Requests)
  <2>1. LineOK(d) /\ line[d] \in Seq(Requests) /\ line'[d] = line[d]
    BY <1>4, <1>6 DEF CapacityInv, TypeOK
  <2>2. \A i \in DOMAIN line[d] : line[d][i] \in Requests \ {r}
    BY <1>0, <1>6, <2>1 DEF LineOK, Waiting, Uses
  <2> QED BY <1>1, <2>1, <2>2, LineSame
<1>7. line' \in [Caps -> Seq(Requests)] /\ \A d \in Caps : LineOK(d)'
  BY <1>0, <1>4, <1>5, <1>6 DEF TypeOK
<1> QED BY <1>1, <1>2, <1>3, <1>7, InvAfter DEF OthersKeep

LEMMA TimeoutWokenStep ==
  ASSUME NEW r \in Requests, NEW c \in Caps, CapacityInv, TimeoutWoken(r, c)
  PROVE  CapacityInv'
<1>0. /\ TypeOK /\ WithinLimits /\ Uses(r, c) /\ at[r] = Woken(c)
      /\ Mode(r) \in {"query", "batch"} /\ inflight' = inflight
      /\ queued' = [queued EXCEPT ![c] = @ - 1]
      /\ reply' \in [Requests -> Replies]
  BY ModeIsCap DEF CapacityInv, Mode, TimeoutWoken, Uses, TypeOK, Replies
<1>1. at' \in [Requests -> Places] /\ at'[r] = Refused(c)
  <2>1. Refused(c) \in Places /\ Woken(c) \in Places /\ at \in [Requests -> Places]
    BY <1>0 DEF Refused, Woken, Places, TypeOK
  <2>2. \/ at' = [at EXCEPT ![r] = Refused(c)]
        \/ at' = [q \in Requests |-> IF q = r THEN Refused(c)
                                       ELSE IF q \in Notified(c) THEN Woken(c)
                                       ELSE at[q]]
    BY DEF TimeoutWoken
  <2> DEFINE place(q) == IF q = r THEN Refused(c)
                            ELSE IF q \in Notified(c) THEN Woken(c)
                            ELSE at[q]
  <2>3. place(r) = Refused(c) /\ \A q \in Requests : place(q) \in Places
    BY <2>1
  <2>4. \/ at' = [at EXCEPT ![r] = Refused(c)]
        \/ at' = [q \in Requests |-> place(q)]
    BY <2>2
  <2> HIDE DEF place
  <2> QED BY <2>1, <2>3, <2>4
<1>2. CountersFollow(r)
  BY <1>0, <1>1
  DEF CountersFollow, Delta, HoldsAt, QueuesAt, Uses, Waiting, Woken, Refused, TypeOK
<1>3. WithinLimits'
  BY <1>0, LimitsAreNat DEF WithinLimits, TypeOK
<1>4. CASE at' = [at EXCEPT ![r] = Refused(c)] /\ UNCHANGED line
  <2>1. \A q \in Requests \ {r} : at'[q] = at[q]
    BY <1>0, <1>4 DEF TypeOK
  <2>2. line' \in [Caps -> Seq(Requests)] /\ \A d \in Caps : LineOK(d)'
    BY <1>0, <1>4, <2>1, LinesStand DEF Waiting, Woken
  <2> QED BY <1>1, <1>0, <1>2, <1>3, <2>1, <2>2, InvAfter DEF OthersKeep
<1>5. CASE /\ at' = [q \in Requests |-> IF q = r THEN Refused(c)
                                          ELSE IF q \in Notified(c) THEN Woken(c)
                                          ELSE at[q]]
           /\ line' = [line EXCEPT ![c] = Rest(c)]
  <2>1. line' = [d \in Caps |-> IF d \in {c} THEN Rest(d) ELSE line[d]]
    BY <1>0, <1>5 DEF TypeOK
  <2>2. \A q \in Requests \ {r} :
          \/ \E d \in {c} : q \in Notified(d) /\ at'[q] = Woken(d)
          \/ (\A d \in {c} : q \notin Notified(d)) /\ at'[q] = at[q]
    BY <1>5
  <2>3. at[r] \notin {"modeWait", "totalWait"} /\ {c} \in SUBSET Caps
    BY <1>0 DEF Woken
  <2>4. /\ OthersKeep(r) /\ line' \in [Caps -> Seq(Requests)]
        /\ \A d \in Caps : LineOK(d)'
    BY <2>1, <2>2, <2>3, Notifying
  <2> QED BY <1>0, <1>1, <1>2, <1>3, <2>4, InvAfter
<1> QED BY <1>4, <1>5 DEF TimeoutWoken

LEMMA FinishEncodingStep ==
  ASSUME NEW r \in Requests, CapacityInv, FinishEncoding(r)
  PROVE  CapacityInv'
<1>0. /\ TypeOK /\ WithinLimits /\ at[r] = "encode"
      /\ Mode(r) \in {"query", "batch"}
      /\ inflight' = inflight /\ queued' = queued /\ line' = line
  BY DEF CapacityInv, Mode, FinishEncoding
<1>1. /\ at' \in [Requests -> Places] /\ reply' \in [Requests -> Replies]
      /\ at'[r] = "leaving" /\ \A q \in Requests \ {r} : at'[q] = at[q]
  BY <1>0 DEF FinishEncoding, Moves, TypeOK, Places, Replies
<1>2. CountersFollow(r)
  BY <1>0, <1>1
  DEF CountersFollow, Delta, HoldsAt, QueuesAt, Uses, Waiting, Woken, TypeOK
<1>3. WithinLimits'
  BY <1>0 DEF WithinLimits
<1>4. line' \in [Caps -> Seq(Requests)] /\ \A d \in Caps : LineOK(d)'
  BY <1>0, <1>1, LinesStand DEF Waiting
<1> QED BY <1>1, <1>2, <1>3, <1>4, InvAfter DEF OthersKeep

LEMMA ReleaseBothStep ==
  ASSUME NEW r \in Requests, CapacityInv, ReleaseBoth(r)
  PROVE  CapacityInv'
<1> DEFINE c == Mode(r)
<1>0. /\ TypeOK /\ WithinLimits /\ at[r] = "leaving"
      /\ c \in Caps /\ c # "total" /\ "total" \in Caps /\ c \in {"query", "batch"}
      /\ inflight' = [inflight EXCEPT !["total"] = @ - 1, ![c] = @ - 1]
      /\ line' = [line EXCEPT !["total"] = Rest("total"), ![c] = Rest(c)]
      /\ at' = [q \in Requests |-> IF q = r THEN "away"
                                     ELSE IF q \in Notified("total") THEN "totalWoken"
                                     ELSE IF q \in Notified(c) THEN "modeWoken"
                                     ELSE at[q]]
      /\ queued' = queued /\ reply' = reply
  BY ModeIsCap DEF CapacityInv, Caps, Modes, Mode, ReleaseBoth
<1>1. at' \in [Requests -> Places] /\ at'[r] = "away" /\ reply' \in [Requests -> Replies]
  <2> DEFINE place(q) == IF q = r THEN "away"
                            ELSE IF q \in Notified("total") THEN "totalWoken"
                            ELSE IF q \in Notified(c) THEN "modeWoken"
                            ELSE at[q]
  <2>1. at \in [Requests -> Places] /\ reply' \in [Requests -> Replies]
    BY <1>0 DEF TypeOK
  <2>2. place(r) = "away" /\ \A q \in Requests : place(q) \in Places
    BY <2>1 DEF Places
  <2>3. at' = [q \in Requests |-> place(q)]
    BY <1>0
  <2> HIDE DEF place
  <2> QED BY <2>1, <2>2, <2>3
<1>2. CountersFollow(r)
  <2>1. inflight' \in [Caps -> Int] /\ queued' \in [Caps -> Int]
    BY <1>0 DEF TypeOK
  <2>2. \A d \in Caps :
          inflight'[d] = inflight[d]
            + Delta(HoldsAt(r, at[r], d), HoldsAt(r, at'[r], d))
    BY <1>0, <1>1 DEF Delta, HoldsAt, TypeOK
  <2>3. \A d \in Caps :
          queued'[d] = queued[d]
            + Delta(QueuesAt(r, at[r], d), QueuesAt(r, at'[r], d))
    BY <1>0, <1>1 DEF Delta, QueuesAt, Uses, Waiting, Woken, TypeOK
  <2> QED BY <2>1, <2>2, <2>3 DEF CountersFollow
<1>3. WithinLimits'
  <2> SUFFICES ASSUME NEW d \in Caps
               PROVE  inflight'[d] <= MaxInflight(d) /\ queued'[d] <= MaxQueued(d)
    BY DEF WithinLimits
  <2>1. inflight'[d] \in {inflight[d], inflight[d] - 1} /\ queued'[d] = queued[d]
    BY <1>0 DEF TypeOK
  <2>2. /\ inflight[d] \in Nat /\ MaxInflight(d) \in Nat
        /\ inflight[d] <= MaxInflight(d) /\ queued[d] <= MaxQueued(d)
    BY <1>0, LimitsAreNat DEF WithinLimits, TypeOK
  <2> QED BY <2>1, <2>2
<1>4. line' = [d \in Caps |-> IF d \in {c, "total"} THEN Rest(d) ELSE line[d]]
  BY <1>0 DEF TypeOK
<1>5. ASSUME NEW q \in Notified("total") PROVE q \notin Notified(c)
  <2>1. ASSUME NEW d \in Caps, q \in Notified(d) PROVE at[q] = Waiting(d)
    BY <2>1 DEF Notified, CapacityInv, TypeOK, LineOK
  <2> QED BY <1>0, <1>5, <2>1 DEF Waiting
<1>6. \A q \in Requests \ {r} :
        \/ \E d \in {c, "total"} : q \in Notified(d) /\ at'[q] = Woken(d)
        \/ (\A d \in {c, "total"} : q \notin Notified(d)) /\ at'[q] = at[q]
  BY <1>0, <1>5 DEF Woken
<1>7. at[r] \notin {"modeWait", "totalWait"} /\ {c, "total"} \in SUBSET Caps
  BY <1>0
<1>8. /\ OthersKeep(r) /\ line' \in [Caps -> Seq(Requests)]
      /\ \A d \in Caps : LineOK(d)'
  BY <1>4, <1>6, <1>7, Notifying
<1> QED BY <1>1, <1>2, <1>3, <1>8, InvAfter

LEMMA ReleaseModeStep ==
  ASSUME NEW r \in Requests, CapacityInv, ReleaseMode(r)
  PROVE  CapacityInv'
<1> DEFINE c == Mode(r)
<1>0. /\ TypeOK /\ WithinLimits /\ at[r] = "backing"
      /\ c \in Caps /\ c # "total" /\ c \in {"query", "batch"}
      /\ inflight' = [inflight EXCEPT ![c] = @ - 1]
      /\ line' = [line EXCEPT ![c] = Rest(c)]
      /\ at' = [q \in Requests |-> IF q = r THEN "away"
                                     ELSE IF q \in Notified(c) THEN "modeWoken"
                                     ELSE at[q]]
      /\ queued' = queued /\ reply' = reply
  BY ModeIsCap DEF CapacityInv, Mode, ReleaseMode
<1>1. at' \in [Requests -> Places] /\ at'[r] = "away" /\ reply' \in [Requests -> Replies]
  <2> DEFINE place(q) == IF q = r THEN "away"
                            ELSE IF q \in Notified(c) THEN "modeWoken"
                            ELSE at[q]
  <2>1. at \in [Requests -> Places] /\ reply' \in [Requests -> Replies]
    BY <1>0 DEF TypeOK
  <2>2. place(r) = "away" /\ \A q \in Requests : place(q) \in Places
    BY <2>1 DEF Places
  <2>3. at' = [q \in Requests |-> place(q)]
    BY <1>0
  <2> HIDE DEF place
  <2> QED BY <2>1, <2>2, <2>3
<1>2. CountersFollow(r)
  BY <1>0, <1>1
  DEF CountersFollow, Delta, HoldsAt, QueuesAt, Uses, Waiting, Woken, TypeOK
<1>3. WithinLimits'
  BY <1>0, LimitsAreNat DEF WithinLimits, TypeOK
<1>4. line' = [d \in Caps |-> IF d \in {c} THEN Rest(d) ELSE line[d]]
  BY <1>0 DEF TypeOK
<1>5. \A q \in Requests \ {r} :
        \/ \E d \in {c} : q \in Notified(d) /\ at'[q] = Woken(d)
        \/ (\A d \in {c} : q \notin Notified(d)) /\ at'[q] = at[q]
  BY <1>0 DEF Woken
<1>6. at[r] \notin {"modeWait", "totalWait"} /\ {c} \in SUBSET Caps
  BY <1>0
<1>7. /\ OthersKeep(r) /\ line' \in [Caps -> Seq(Requests)]
      /\ \A d \in Caps : LineOK(d)'
  BY <1>4, <1>5, <1>6, Notifying
<1> QED BY <1>1, <1>2, <1>3, <1>7, InvAfter

----------------------------------------------------------------------------
LEMMA CapacityInit == Init => CapacityInv
<1> SUFFICES ASSUME Init PROVE CapacityInv
  OBVIOUS
<1>1. TypeOK
  BY DEF Init, TypeOK, Places, Replies
<1>2. \A c \in Caps : LineOK(c)
  BY DEF Init, LineOK
<1>3. CountersExact
  <2> SUFFICES ASSUME NEW c \in Caps
               PROVE  Holders(c) = {} /\ InQueue(c) = {}
    BY FS_EmptySet DEF CountersExact, Init
  <2> QED BY DEF Init, Holders, InQueue, Waiting, Woken
<1>4. WithinLimits
  BY LimitsAreNat DEF Init, WithinLimits
<1> QED BY <1>1, <1>2, <1>3, <1>4 DEF CapacityInv

LEMMA CapacityStep ==
  ASSUME CapacityInv, [Next]_vars
  PROVE  CapacityInv'
<1>1. ASSUME NEW r \in Requests, Step(r) PROVE CapacityInv'
  BY <1>1, ArriveStep, ResumeModeStep, ResumeTotalStep, TimeoutWaitingStep,
    TimeoutWokenStep, FinishEncodingStep, ReleaseBothStep, ReleaseModeStep
  DEF Step
<1>2. CASE UNCHANGED vars
  <2>1. \A c \in Caps : Holders(c)' = Holders(c) /\ InQueue(c)' = InQueue(c)
    BY <1>2 DEF vars, Holders, InQueue
  <2>2. CountersExact'
    BY <1>2, <2>1 DEF vars, CapacityInv, CountersExact
  <2>3. TypeOK' /\ WithinLimits' /\ \A c \in Caps : LineOK(c)'
    BY <1>2 DEF vars, CapacityInv, TypeOK, LineOK, WithinLimits
  <2> QED BY <2>2, <2>3 DEF CapacityInv
<1> QED BY <1>1, <1>2 DEF Next

(* Every slot and every place in a queue that is counted is held by a      *)
(* request, and no Capacity exceeds its limits.                            *)
THEOREM AdmissionIsExactAndBounded ==
  Spec => [](TypeOK /\ CountersExact /\ AdmissionBounded)
<1>1. CapacityInv => TypeOK /\ CountersExact /\ AdmissionBounded
  BY DEF CapacityInv, CountersExact, AdmissionBounded, WithinLimits
<1> QED
  BY CapacityInit, CapacityStep, <1>1, PTL DEF Spec

(* No Capacity admits or queues more requests than it is configured for.   *)
THEOREM AdmissionStaysBounded == Spec => []AdmissionBounded
BY AdmissionIsExactAndBounded, PTL

----------------------------------------------------------------------------
(* When the model is busy, queries hold what batches never can. *)
LEMMA BusyLeavesQueries ==
  ASSUME CapacityInv, Busy("total")
  PROVE  Cardinality(Holders("total") \cap Queries) >= TotalMax - BatchMax
<1> DEFINE H == Holders("total")
<1>1. /\ Cardinality(H) >= TotalMax
      /\ Cardinality(Holders("batch")) <= BatchMax
  BY DEF CapacityInv, CountersExact, WithinLimits, Busy, MaxInflight, Caps, Modes
<1>2. H = (H \cap Queries) \cup (H \cap Batches)
  BY DEF Holders, Requests
<1>3. H \cap Batches \subseteq Holders("batch")
  BY CapacityAssumption DEF Holders, Mode, Requests
<1>4. /\ IsFiniteSet(H) /\ IsFiniteSet(Holders("batch"))
      /\ IsFiniteSet(H \cap Queries) /\ IsFiniteSet(H \cap Batches)
  BY CountedSetsAreFinite, FS_Subset
<1>5. (H \cap Queries) \cap (H \cap Batches) = {}
  BY CapacityAssumption
<1>6. Cardinality(H) = Cardinality(H \cap Queries) + Cardinality(H \cap Batches)
  <2>1. Cardinality((H \cap Queries) \cup (H \cap Batches)) =
          Cardinality(H \cap Queries) + Cardinality(H \cap Batches)
            - Cardinality((H \cap Queries) \cap (H \cap Batches))
    BY <1>4, FS_Union
  <2>2. Cardinality((H \cap Queries) \cap (H \cap Batches)) = 0
    BY <1>5, FS_EmptySet
  <2>3. Cardinality(H \cap Queries) \in Nat /\ Cardinality(H \cap Batches) \in Nat
    BY <1>4, FS_CardinalityType
  <2>4. Cardinality(H) = Cardinality((H \cap Queries) \cup (H \cap Batches))
    BY <1>2, Zenon
  <2> HIDE DEF H
  <2> QED BY <2>1, <2>2, <2>3, <2>4
<1>7. /\ Cardinality(H \cap Batches) <= Cardinality(Holders("batch"))
      /\ Cardinality(H \cap Batches) \in Nat /\ Cardinality(H \cap Queries) \in Nat
      /\ Cardinality(Holders("batch")) \in Nat
  BY <1>3, <1>4, FS_Subset, FS_CardinalityType
<1>8. TotalMax \in Nat /\ BatchMax \in Nat
  BY CapacityAssumption
<1>9. Cardinality(H \cap Queries) >= TotalMax - BatchMax
  <2> HIDE DEF H
  <2> QED BY <1>1, <1>6, <1>7, <1>8
<1> QED BY <1>9

(* Only a busy model makes a query wait or turns a woken one away.         *)
LEMMA TurnedAwayMeansBusy ==
  ASSUME CapacityInv, NEW r \in Requests, Step(r), NEW q \in Queries,
         at'[q] \in {"totalWait", "backing"}, at'[q] # at[q],
         reply'[q] \in {"none", "unavailable"}
  PROVE  Busy("total")
<1> USE DEF Moves
<1>0. TypeOK /\ q \in Requests
  BY DEF CapacityInv, Requests
<1>1. CASE Arrive(r)
  BY <1>0, <1>1 DEF Arrive, EnterTotal, TypeOK
<1>2. CASE ResumeMode(r)
  BY <1>0, <1>2 DEF ResumeMode, EnterTotal, TypeOK
<1>3. CASE ResumeTotal(r)
  BY <1>0, <1>3 DEF ResumeTotal, TypeOK
<1>4. ASSUME NEW c \in Caps, TimeoutWaiting(r, c) PROVE FALSE
  BY <1>0, <1>4 DEF TimeoutWaiting, TypeOK
<1>5. ASSUME NEW c \in Caps, TimeoutWoken(r, c) PROVE FALSE
  <2>1. reply' = [reply EXCEPT ![r] = "timeout"]
    BY <1>5 DEF TimeoutWoken
  <2>2. q # r
    BY <1>0, <2>1 DEF TypeOK
  <2>3. at'[q] \in {at[q], Woken(c)}
    BY <1>0, <1>5, <2>2 DEF TimeoutWoken, TypeOK
  <2> QED BY <2>3 DEF Woken
<1>6. CASE FinishEncoding(r)
  BY <1>0, <1>6 DEF FinishEncoding, TypeOK
<1>7. CASE ReleaseBoth(r)
  BY <1>0, <1>7 DEF ReleaseBoth
<1>8. CASE ReleaseMode(r)
  BY <1>0, <1>8 DEF ReleaseMode
<1> QED BY <1>1, <1>2, <1>3, <1>4, <1>5, <1>6, <1>7, <1>8 DEF Step

(* Batches never keep queries from the slots beyond BatchMax.              *)
THEOREM QueryCapacityIsPreserved == Spec => QueryCapacityPreserved
<1>1. CapacityInv /\ [Next]_vars =>
        [\A r \in Queries :
           at'[r] \in {"totalWait", "backing"} /\ at'[r] # at[r]
             /\ reply'[r] \in {"none", "unavailable"}
           => Cardinality(Holders("total") \cap Queries) >= TotalMax - BatchMax]_vars
  <2> SUFFICES ASSUME CapacityInv, Next, NEW q \in Queries,
                      at'[q] \in {"totalWait", "backing"}, at'[q] # at[q],
                      reply'[q] \in {"none", "unavailable"}
               PROVE  Cardinality(Holders("total") \cap Queries) >= TotalMax - BatchMax
    OBVIOUS
  <2>1. PICK r \in Requests : Step(r)
    BY DEF Next
  <2>2. Busy("total")
    BY <2>1, TurnedAwayMeansBusy
  <2> QED BY <2>2, BusyLeavesQueries
<1> QED
  BY CapacityInit, CapacityStep, <1>1, PTL DEF Spec, QueryCapacityPreserved
=============================================================================
