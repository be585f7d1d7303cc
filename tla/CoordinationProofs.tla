------------------------- MODULE CoordinationProofs -------------------------
(***************************************************************************)
(* No slot is lost or made twice, the daily limit holds, answers stay and  *)
(* historical threads are left alone: for any numbers of questions, slots, *)
(* days and threads, and through restarts.                                 *)
(***************************************************************************)
EXTENDS Conversation, Integers, FiniteSetTheorems, SequenceTheorems, TLAPS

\* The questions in s wait, each at one place.
InLine(s) ==
  /\ \A i, j \in DOMAIN s : s[i] = s[j] => i = j
  /\ \A i \in DOMAIN s : pc[s[i]] = "waiting"

(* The semaphore: who waits is in line and in no other step, so that a     *)
(* slot handed over is taken by a question that has none.                  *)
SlotInv ==
  /\ free \in Nat
  /\ line \in Seq(Questions)
  /\ pc \in [Questions -> Steps]
  /\ InLine(line)
  /\ SlotsAddUp

\* Questions that have read date d and are not counted yet.
Late(d) == {q \in Questions : pc[q] = "counting" /\ stamp[q] = d}

\* A later day has counted a question, and deleted the row of d.
Superseded(d) == \E e \in Days : e > d /\ admitted[e] > 0

(* The counter: a row agrees with what was admitted until it is deleted;   *)
(* after that only those that had read its date come on top.               *)
BudgetInv ==
  /\ today \in Days
  /\ stamp \in [Questions -> Days]
  /\ rows \in [Days -> Nat]
  /\ admitted \in [Days -> Nat]
  /\ \A q \in Questions : stamp[q] <= today
  /\ \A d \in Days : admitted[d] > 0 => d <= today
  /\ \A d \in Days :
       IF Superseded(d)
       THEN admitted[d] + Cardinality(Late(d)) <= DailyLimit + (Concurrency - 1)
       ELSE rows[d] = admitted[d] /\ admitted[d] <= DailyLimit

CoordInv == SlotInv /\ BudgetInv

----------------------------------------------------------------------------
LEMMA QuestionsAreFinite ==
  ASSUME NEW S \in SUBSET Questions
  PROVE  IsFiniteSet(S) /\ Cardinality(S) \in Nat
<1>1. IsFiniteSet(Questions)
  BY CoordinationAssumption, FS_Union DEF Questions
<1> QED BY <1>1, FS_Subset, FS_CardinalityType

LEMMA DisjointSizes ==
  ASSUME NEW S \in SUBSET Questions, NEW T \in SUBSET Questions, S \cap T = {}
  PROVE  Cardinality(S \cup T) = Cardinality(S) + Cardinality(T)
<1>1. IsFiniteSet(S) /\ IsFiniteSet(T) /\ Cardinality(S) \in Nat /\ Cardinality(T) \in Nat
  BY QuestionsAreFinite
<1>2. Cardinality(S \cup T) = Cardinality(S) + Cardinality(T) - Cardinality({})
  BY <1>1, FS_Union
<1> QED BY <1>1, <1>2, FS_EmptySet

(* The first k of a line are k questions. *)
LEMMA FirstOfLine ==
  ASSUME NEW s \in Seq(Questions), InLine(s), NEW k \in 0..Len(s)
  PROVE  Cardinality({s[i] : i \in 1..k}) = k
<1> DEFINE W == {s[i] : i \in 1..k}
           f == [i \in 1..k |-> s[i]]
<1>1. f \in Bijection(1..k, W)
  <2>1. f \in [1..k -> W]
    OBVIOUS
  <2>2. \A i, j \in 1..k : f[i] = f[j] => i = j
    BY DEF InLine
  <2>3. \A w \in W : \E i \in 1..k : f[i] = w
    OBVIOUS
  <2> QED BY <2>1, <2>2, <2>3, Zenon DEF Bijection, Injection, Surjection, IsInjective
<1>2. IsFiniteSet(1..k) /\ Cardinality(1..k) = k
  BY FS_Interval
<1> QED BY <1>1, <1>2, FS_Bijection DEF ExistsBijection

(* A question leaves or takes a slot, and the first waiters are handed     *)
(* what is free.                                                           *)
LEMMA MoveStep ==
  ASSUME SlotInv, NEW q \in Questions, NEW step \in {"away", "slot"},
         NEW n \in Nat, NEW f \in Nat, NEW s \in Seq(Questions), InLine(s),
         \A i \in DOMAIN s : s[i] # q,
         f + Cardinality(Holders \ {q}) + (IF step = "slot" THEN 1 ELSE 0) = Concurrency,
         MoveAndWake(q, step, n, f, s)
  PROVE  SlotInv'
<1> DEFINE k == Lesser(n, Lesser(f, Len(s)))
           woken == {s[i] : i \in 1..k}
           rest == Holders \ {q}
           mine == IF step = "slot" THEN {q} ELSE {}
<1>1. k \in 0..Len(s) /\ k <= f
  BY DEF Lesser
<1>2. /\ free' = f - k
      /\ line' = SubSeq(s, k + 1, Len(s))
      /\ pc' = [p \in Questions |-> IF p = q THEN step
                                    ELSE IF p \in woken THEN "granted" ELSE pc[p]]
  BY DEF MoveAndWake
<1> HIDE DEF k
<1>3. \A w \in woken : w \in Questions /\ w # q /\ pc[w] = "waiting"
  BY <1>1 DEF InLine
<1>4. line' \in Seq(Questions) /\ pc' \in [Questions -> Steps]
  BY <1>1, <1>2 DEF SlotInv, Steps
<1>5. InLine(line)'
  <2>1. \A i \in DOMAIN line' : i + k \in DOMAIN s /\ line'[i] = s[i + k] /\ i \in Nat /\ i > 0
    BY <1>1, <1>2
  <2>2. \A i, j \in DOMAIN line' : line'[i] = line'[j] => i = j
    BY <1>1, <2>1 DEF InLine
  <2>3. ASSUME NEW i \in DOMAIN line' PROVE pc'[line'[i]] = "waiting"
    <3>1. s[i + k] \in Questions /\ s[i + k] # q /\ pc[s[i + k]] = "waiting"
      BY <2>1 DEF InLine
    <3>2. s[i + k] \notin woken
      BY <1>1, <2>1 DEF InLine
    <3> QED BY <1>2, <2>1, <3>1, <3>2
  <2> QED BY <2>2, <2>3 DEF InLine
<1>6. Holders' = (rest \cup woken) \cup mine
  BY <1>2, <1>3 DEF Holders
<1>7. /\ rest \cap woken = {} /\ (rest \cup woken) \cap mine = {}
      /\ rest \in SUBSET Questions /\ woken \in SUBSET Questions
      /\ mine \in SUBSET Questions /\ rest \cup woken \in SUBSET Questions
  BY <1>3 DEF Holders
<1>8. Cardinality(woken) = k
  BY <1>1, FirstOfLine
<1>9. Cardinality(mine) = IF step = "slot" THEN 1 ELSE 0
  BY FS_EmptySet, FS_Singleton
<1>10. Cardinality(rest \cup woken) = Cardinality(rest) + k
  BY <1>7, <1>8, DisjointSizes
<1>11. Cardinality(Holders') = Cardinality(rest) + k + Cardinality(mine)
  BY <1>6, <1>7, <1>10, DisjointSizes
<1>12. free' \in Nat /\ SlotsAddUp'
  <2>1. Cardinality(rest) \in Nat
    BY <1>7, QuestionsAreFinite
  <2> HIDE DEF rest, woken, mine
  <2>2. f + Cardinality(rest) + Cardinality(mine) = Concurrency
    BY <1>9 DEF rest
  <2> QED BY <1>1, <1>2, <1>9, <1>11, <2>1, <2>2 DEF SlotsAddUp
<1> QED BY <1>4, <1>5, <1>12 DEF SlotInv

(* A question with a slot goes on with it. *)
LEMMA KeepStep ==
  ASSUME SlotInv, NEW q \in Questions, pc[q] \notin {"away", "waiting"},
         NEW step \in Steps \ {"away", "waiting"},
         pc' = [pc EXCEPT ![q] = step], UNCHANGED <<free, line>>
  PROVE  SlotInv'
<1>1. pc' \in [Questions -> Steps] /\ Holders' = Holders
  BY DEF SlotInv, Holders
<1>2. InLine(line)'
  BY DEF SlotInv, InLine
<1> QED BY <1>1, <1>2 DEF SlotInv, SlotsAddUp

LEMMA ArriveSlot ==
  ASSUME SlotInv, NEW q \in Questions, Arrive(q)
  PROVE  SlotInv'
<1>1. pc[q] = "away" /\ q \notin Holders
  BY DEF Arrive, Holders
<1>2. CASE /\ free > 0 /\ free' = free - 1
           /\ pc' = [pc EXCEPT ![q] = "slot"] /\ line' = line
  <2>1. Holders' = Holders \cup {q} /\ Holders \in SUBSET Questions
    BY <1>1, <1>2 DEF SlotInv, Holders
  <2>2. Cardinality(Holders') = Cardinality(Holders) + 1
    BY <1>1, <2>1, QuestionsAreFinite, FS_AddElement
  <2>3. InLine(line)' /\ pc' \in [Questions -> Steps]
    BY <1>1, <1>2 DEF SlotInv, InLine, Steps
  <2>4. Cardinality(Holders) \in Nat
    BY <2>1, QuestionsAreFinite
  <2> QED BY <1>2, <2>2, <2>3, <2>4 DEF SlotInv, SlotsAddUp
<1>3. CASE /\ line' = Append(line, q)
           /\ pc' = [pc EXCEPT ![q] = "waiting"] /\ free' = free
  <2>1. Holders' = Holders
    BY <1>1, <1>3 DEF SlotInv, Holders
  <2>2. line' \in Seq(Questions) /\ pc' \in [Questions -> Steps]
    BY <1>3 DEF SlotInv, Steps
  <2>3. /\ Len(line) \in Nat /\ DOMAIN line = 1..Len(line)
        /\ DOMAIN line' = 1..(Len(line) + 1) /\ line'[Len(line) + 1] = q
        /\ \A i \in DOMAIN line : line'[i] = line[i] /\ line[i] # q
    BY <1>1, <1>3 DEF SlotInv, InLine
  <2>4. \A i, j \in DOMAIN line' : line'[i] = line'[j] => i = j
    BY <2>3 DEF SlotInv, InLine
  <2>5. \A i \in DOMAIN line' : pc'[line'[i]] = "waiting"
    BY <1>3, <2>3 DEF SlotInv, InLine
  <2> QED BY <1>3, <2>1, <2>2, <2>4, <2>5 DEF SlotInv, SlotsAddUp, InLine
<1> QED BY <1>2, <1>3 DEF Arrive

(* A question that has a slot gives it back. *)
LEMMA LeaveSlot ==
  ASSUME SlotInv, NEW q \in Questions, pc[q] \notin {"away", "waiting"},
         NEW n \in Nat, MoveAndWake(q, "away", n, free + 1, line)
  PROVE  SlotInv'
<1>1. q \in Holders /\ Holders \in SUBSET Questions
  BY DEF Holders
<1>2. /\ Cardinality(Holders \ {q}) = Cardinality(Holders) - 1
      /\ Cardinality(Holders) \in Nat
  BY <1>1, QuestionsAreFinite, FS_RemoveElement
<1>3. /\ line \in Seq(Questions) /\ InLine(line) /\ free + 1 \in Nat
      /\ \A i \in DOMAIN line : line[i] # q
  BY DEF SlotInv, InLine
<1>4. (free + 1) + Cardinality(Holders \ {q}) + 0 = Concurrency
  BY <1>2 DEF SlotInv, SlotsAddUp
<1> HIDE DEF Holders
<1> QED BY <1>3, <1>4, MoveStep

LEMMA ResumeSlot ==
  ASSUME SlotInv, NEW q \in Questions, Resume(q)
  PROVE  SlotInv'
<1>1. pc[q] = "granted" /\ MoveAndWake(q, "slot", Len(line), free, line)
  BY DEF Resume
<1>2. q \in Holders /\ Holders \in SUBSET Questions
  BY <1>1 DEF Holders
<1>3. /\ Cardinality(Holders \ {q}) = Cardinality(Holders) - 1
      /\ Cardinality(Holders) \in Nat
  BY <1>2, QuestionsAreFinite, FS_RemoveElement
<1>4. /\ line \in Seq(Questions) /\ InLine(line) /\ free \in Nat /\ Len(line) \in Nat
      /\ \A i \in DOMAIN line : line[i] # q
  BY <1>1 DEF SlotInv, InLine
<1>5. free + Cardinality(Holders \ {q}) + 1 = Concurrency
  BY <1>3, <1>4 DEF SlotInv, SlotsAddUp
<1> QED BY <1>1, <1>4, <1>5, MoveStep

(* A line without one of its places. *)
LEMMA DropAtLine ==
  ASSUME line \in Seq(Questions), NEW i \in DOMAIN line
  PROVE  LET s == DropAt(line, i) IN
         /\ s \in Seq(Questions) /\ Len(s) = Len(line) - 1 /\ Len(s) \in Nat
         /\ \A j \in DOMAIN s : j \in Nat /\ j > 0 /\ j <= Len(line) - 1
         /\ \A j \in DOMAIN s : s[j] = line[IF j < i THEN j ELSE j + 1]
         /\ \A j \in 1..Len(s) : \E m \in DOMAIN line : s[j] = line[m]
<1> DEFINE s == DropAt(line, i)
<1>0. line \in Seq(Questions) /\ i \in 1..Len(line) /\ Len(line) \in Nat
  OBVIOUS
<1> DEFINE a == SubSeq(line, 1, i - 1)
           b == SubSeq(line, i + 1, Len(line))
<1>1. /\ a \in Seq(Questions) /\ Len(a) = i - 1
      /\ \A j \in 1..(i - 1) : a[j] = line[j]
  BY <1>0
<1>2. /\ b \in Seq(Questions) /\ Len(b) = Len(line) - i
      /\ \A j \in 1..(Len(line) - i) : b[j] = line[j + i]
  BY <1>0
<1>3. s = a \o b
  BY DEF DropAt
<1> HIDE DEF a, b, s
<1>4. s \in Seq(Questions) /\ Len(s) = Len(line) - 1 /\ Len(s) \in Nat
      /\ DOMAIN s = 1..(Len(line) - 1)
  BY <1>0, <1>1, <1>2, <1>3
<1>5. ASSUME NEW j \in 1..(Len(line) - 1)
      PROVE  s[j] = line[IF j < i THEN j ELSE j + 1]
  <2>1. CASE j < i
    BY <1>0, <1>1, <1>2, <1>3, <2>1
  <2>2. CASE ~(j < i)
    <3>0. j \in 1..(Len(a) + Len(b)) /\ ~(j <= Len(a))
      BY <1>0, <1>1, <1>2, <2>2
    <3>1. s[j] = b[j - (i - 1)]
      BY <1>1, <1>2, <1>3, <3>0, ConcatProperties
    <3>2. j - (i - 1) \in 1..(Len(line) - i) /\ (j - (i - 1)) + i = j + 1
      BY <1>0, <2>2
    <3>3. b[j - (i - 1)] = line[(j - (i - 1)) + i]
      BY <1>2, <3>2
    <3> QED BY <2>2, <3>1, <3>2, <3>3
  <2> QED BY <2>1, <2>2
<1>6. ASSUME NEW j \in 1..Len(s)
      PROVE  \E m \in DOMAIN line : s[j] = line[m]
  <2>1. j \in 1..(Len(line) - 1) /\ (IF j < i THEN j ELSE j + 1) \in DOMAIN line
    BY <1>0, <1>4
  <2> QED BY <1>5, <2>1
<1>7. \A j \in DOMAIN s : j \in Nat /\ j > 0 /\ j <= Len(line) - 1
  BY <1>0, <1>4
<1> QED BY <1>4, <1>5, <1>6, <1>7 DEF s

LEMMA GiveUpSlot ==
  ASSUME SlotInv, NEW q \in Questions, GiveUpWaiting(q)
  PROVE  SlotInv'
<1>1. PICK i \in DOMAIN line :
        /\ pc[q] = "waiting" /\ line[i] = q
        /\ MoveAndWake(q, "away", Len(DropAt(line, i)), free, DropAt(line, i))
  BY DEF GiveUpWaiting
<1> DEFINE s == DropAt(line, i)
<1>2. line \in Seq(Questions) /\ InLine(line) /\ free \in Nat
      /\ i \in 1..Len(line) /\ Len(line) \in Nat
  BY DEF SlotInv
<1>3. /\ s \in Seq(Questions) /\ Len(s) = Len(line) - 1 /\ Len(s) \in Nat
      /\ \A j \in DOMAIN s : j \in Nat /\ j > 0 /\ j <= Len(line) - 1
      /\ \A j \in DOMAIN s : s[j] = line[IF j < i THEN j ELSE j + 1]
  BY <1>2, DropAtLine
<1> HIDE DEF s
<1>4. InLine(s) /\ \A j \in DOMAIN s : s[j] # q
  <2>1. \A j \in DOMAIN s :
          \E m \in DOMAIN line : m = (IF j < i THEN j ELSE j + 1) /\ m # i /\ s[j] = line[m]
    BY <1>2, <1>3
  <2>2. \A j, l \in DOMAIN s : s[j] = s[l] => j = l
    BY <1>2, <1>3, <2>1 DEF InLine
  <2>3. \A j \in DOMAIN s : pc[s[j]] = "waiting" /\ s[j] # q
    BY <1>1, <1>2, <2>1 DEF InLine
  <2> QED BY <2>2, <2>3 DEF InLine
<1>5. Cardinality(Holders \ {q}) = Cardinality(Holders) /\ Cardinality(Holders) \in Nat
  <2>1. Holders \in SUBSET Questions /\ q \notin Holders
    BY <1>1 DEF Holders
  <2> QED BY <2>1, QuestionsAreFinite, FS_RemoveElement
<1>6. free + Cardinality(Holders \ {q}) + 0 = Concurrency
  BY <1>2, <1>5 DEF SlotInv, SlotsAddUp
<1>7. MoveAndWake(q, "away", Len(s), free, s)
  BY <1>1 DEF s
<1> QED BY <1>2, <1>3, <1>4, <1>6, <1>7, MoveStep

LEMMA RestartSlot ==
  ASSUME SlotInv, Restart
  PROVE  SlotInv'
<1>1. Holders' = {} /\ line' = <<>> /\ free' = Concurrency
      /\ pc' \in [Questions -> Steps]
  BY DEF Restart, Holders, Steps
<1> QED BY <1>1, FS_EmptySet, CoordinationAssumption DEF SlotInv, SlotsAddUp, InLine

----------------------------------------------------------------------------
(* The counter. *)
LEMMA LateShrinks ==
  ASSUME NEW d, NEW S, S \subseteq Late(d)
  PROVE  Cardinality(S) \in Nat /\ Cardinality(S) <= Cardinality(Late(d))
<1>1. Late(d) \in SUBSET Questions
  BY DEF Late
<1> QED BY <1>1, QuestionsAreFinite, FS_Subset

(* Nothing is counted, and no question reads the date. *)
LEMMA QuietBudget ==
  ASSUME BudgetInv, today' \in Days, today <= today', UNCHANGED <<rows, admitted>>,
         stamp' \in [Questions -> Days], \A q \in Questions : stamp'[q] <= today',
         \A q \in Questions :
           pc'[q] = "counting" => pc[q] = "counting" /\ stamp'[q] = stamp[q]
  PROVE  BudgetInv'
<1>1. \A d \in Days : admitted'[d] > 0 => d <= today'
  BY CoordinationAssumption DEF BudgetInv, Days
<1>2. ASSUME NEW d \in Days
      PROVE  IF Superseded(d)'
             THEN admitted'[d] + Cardinality(Late(d)') <= DailyLimit + (Concurrency - 1)
             ELSE rows'[d] = admitted'[d] /\ admitted'[d] <= DailyLimit
  <2>1. Superseded(d)' <=> Superseded(d)
    BY DEF Superseded
  <2>2. /\ Cardinality(Late(d)') \in Nat /\ Cardinality(Late(d)) \in Nat
        /\ Cardinality(Late(d)') <= Cardinality(Late(d))
    <3>1. Late(d)' \subseteq Late(d)
      BY DEF Late
    <3> QED BY <3>1, LateShrinks
  <2>3. CASE Superseded(d)
    <3>1. admitted[d] + Cardinality(Late(d)) <= DailyLimit + (Concurrency - 1)
          /\ admitted[d] \in Nat /\ admitted'[d] = admitted[d]
      BY <2>3 DEF BudgetInv
    <3> QED BY <2>1, <2>2, <2>3, <3>1, CoordinationAssumption
  <2>4. CASE ~Superseded(d)
    BY <2>1, <2>4 DEF BudgetInv
  <2> QED BY <2>3, <2>4
<1> QED BY <1>1, <1>2 DEF BudgetInv

LEMMA ReadDateBudget ==
  ASSUME BudgetInv, NEW q \in Questions, ReadDate(q)
  PROVE  BudgetInv'
<1>1. /\ stamp' = [stamp EXCEPT ![q] = today] /\ pc' = [pc EXCEPT ![q] = "counting"]
      /\ UNCHANGED <<today, rows, admitted>>
  BY DEF ReadDate
<1>2. stamp' \in [Questions -> Days] /\ \A p \in Questions : stamp'[p] <= today
  BY <1>1 DEF BudgetInv, Days
<1>3. ASSUME NEW d \in Days
      PROVE  IF Superseded(d)'
             THEN admitted'[d] + Cardinality(Late(d)') <= DailyLimit + (Concurrency - 1)
             ELSE rows'[d] = admitted'[d] /\ admitted'[d] <= DailyLimit
  <2>1. Superseded(d)' <=> Superseded(d)
    BY <1>1 DEF Superseded
  <2>2. CASE Superseded(d)
    <3>1. d < today
      BY <2>2 DEF BudgetInv, Superseded, Days
    <3>2. Late(d)' \subseteq Late(d)
      BY <1>1, <3>1 DEF BudgetInv, Late, Days
    <3>3. /\ Cardinality(Late(d)') \in Nat /\ Cardinality(Late(d)) \in Nat
          /\ Cardinality(Late(d)') <= Cardinality(Late(d))
      BY <3>2, LateShrinks
    <3>4. admitted[d] + Cardinality(Late(d)) <= DailyLimit + (Concurrency - 1)
          /\ admitted[d] \in Nat
      BY <2>2 DEF BudgetInv
    <3> QED BY <1>1, <2>1, <2>2, <3>3, <3>4, CoordinationAssumption
  <2>3. CASE ~Superseded(d)
    BY <1>1, <2>1, <2>3 DEF BudgetInv
  <2> QED BY <2>2, <2>3
<1> QED BY <1>1, <1>2, <1>3 DEF BudgetInv

(* A question is counted: on a day no later one has superseded, its row is *)
(* exact; else the question is one of those that were late.  If it         *)
(* supersedes an earlier day itself, it has one of the slots that those    *)
(* late for that day could have.                                           *)
LEMMA TakeBudgetStep ==
  ASSUME SlotInv, BudgetInv, NEW q \in Questions, TakeBudget(q)
  PROVE  BudgetInv'
<1> DEFINE e == stamp[q]
<1>1. /\ pc[q] = "counting" /\ pc'[q] # "counting"
      /\ \A p \in Questions \ {q} : pc'[p] = pc[p] /\ stamp'[p] = stamp[p]
      /\ stamp' \in [Questions -> Days] /\ stamp'[q] = 0
      /\ today' = today
  BY CoordinationAssumption DEF TakeBudget, SlotInv, BudgetInv, Days
<1>2. /\ e \in Days /\ e <= today /\ rows[e] < DailyLimit
      /\ admitted' = [admitted EXCEPT ![e] = @ + 1]
      /\ rows' = [d \in Days |-> IF d = e THEN rows[d] + 1
                                 ELSE IF d < e THEN 0 ELSE rows[d]]
  BY CoordinationAssumption DEF TakeBudget, Exhausted, Counted, BudgetInv, Days
<1> HIDE DEF e
<1>3. /\ admitted' \in [Days -> Nat] /\ rows' \in [Days -> Nat]
      /\ \A d \in Days : admitted'[d] = IF d = e THEN admitted[d] + 1 ELSE admitted[d]
  BY <1>2 DEF BudgetInv
<1>4. \A p \in Questions : stamp'[p] <= today'
  <2>1. 0 <= today /\ \A p \in Questions : stamp[p] <= today
    BY CoordinationAssumption DEF BudgetInv, Days
  <2> QED BY <1>1, <2>1
<1>5. \A d \in Days : admitted'[d] > 0 => d <= today'
  BY <1>1, <1>2, <1>3 DEF BudgetInv
<1>6. ASSUME NEW d \in Days
      PROVE  IF Superseded(d)'
             THEN admitted'[d] + Cardinality(Late(d)') <= DailyLimit + (Concurrency - 1)
             ELSE rows'[d] = admitted'[d] /\ admitted'[d] <= DailyLimit
  <2>0. d \in Nat /\ e \in Nat /\ Days \subseteq Nat
    BY <1>2 DEF Days
  <2>1. Late(d)' \subseteq Late(d) \ {q} /\ Late(d) \in SUBSET Questions
    BY <1>1 DEF Late
  <2>2. /\ Cardinality(Late(d)') \in Nat /\ Cardinality(Late(d)) \in Nat
        /\ Cardinality(Late(d)') <= Cardinality(Late(d))
    BY <2>1, LateShrinks
  <2>3. CASE d = e
    <3>1. Superseded(d)' <=> Superseded(d)
      BY <1>3, <2>0, <2>3 DEF Superseded
    <3>2. q \in Late(d)
      BY <1>1, <2>3 DEF Late, e
    <3>3. Cardinality(Late(d)') <= Cardinality(Late(d)) - 1
      <4>1. IsFiniteSet(Late(d)) /\ Late(d)' \in SUBSET (Late(d) \ {q})
        BY <2>1, QuestionsAreFinite
      <4>2. /\ IsFiniteSet(Late(d) \ {q})
            /\ Cardinality(Late(d) \ {q}) = Cardinality(Late(d)) - 1
        BY <3>2, <4>1, FS_RemoveElement
      <4> QED BY <4>1, <4>2, FS_Subset
    <3>4. CASE Superseded(d)
      <4>1. admitted[d] + Cardinality(Late(d)) <= DailyLimit + (Concurrency - 1)
            /\ admitted[d] \in Nat /\ admitted'[d] = admitted[d] + 1
        BY <1>3, <2>3, <3>4 DEF BudgetInv
      <4> QED BY <2>2, <3>1, <3>3, <3>4, <4>1, CoordinationAssumption
    <3>5. CASE ~Superseded(d)
      <4>1. rows[d] = admitted[d] /\ admitted[d] \in Nat
        BY <3>5 DEF BudgetInv
      <4> QED BY <1>2, <1>3, <2>3, <3>1, <3>5, <4>1, CoordinationAssumption
    <3> QED BY <3>4, <3>5
  <2>4. CASE d > e
    <3>1. Superseded(d)' <=> Superseded(d)
      BY <1>3, <2>0, <2>4 DEF Superseded
    <3>2. admitted'[d] = admitted[d] /\ rows'[d] = rows[d] /\ admitted[d] \in Nat
      BY <1>2, <1>3, <2>0, <2>4 DEF BudgetInv
    <3>3. CASE Superseded(d)
      <4>1. admitted[d] + Cardinality(Late(d)) <= DailyLimit + (Concurrency - 1)
        BY <3>3 DEF BudgetInv
      <4> QED BY <2>2, <3>1, <3>2, <3>3, <4>1, CoordinationAssumption
    <3>4. CASE ~Superseded(d)
      BY <3>1, <3>2, <3>4 DEF BudgetInv
    <3> QED BY <3>3, <3>4
  <2>5. CASE d < e
    <3>1. Superseded(d)'
      <4>1. admitted'[e] > 0
        BY <1>2, <1>3 DEF BudgetInv
      <4> QED BY <1>2, <2>5, <4>1 DEF Superseded
    <3>2. admitted'[d] = admitted[d] /\ admitted[d] \in Nat
      BY <1>3, <2>0, <2>5 DEF BudgetInv
    <3>3. CASE Superseded(d)
      <4>1. admitted[d] + Cardinality(Late(d)) <= DailyLimit + (Concurrency - 1)
        BY <3>3 DEF BudgetInv
      <4> QED BY <2>2, <3>1, <3>2, <4>1, CoordinationAssumption
    <3>4. CASE ~Superseded(d)
      <4>1. admitted[d] <= DailyLimit
        BY <3>4 DEF BudgetInv
      <4>2. /\ Holders \in SUBSET Questions /\ q \in Holders
            /\ Late(d)' \in SUBSET (Holders \ {q})
        BY <1>1, <2>1 DEF Holders, Late
      <4>3. /\ IsFiniteSet(Holders) /\ Cardinality(Holders) \in Nat
            /\ Cardinality(Holders) <= Concurrency
        BY <4>2, QuestionsAreFinite, CoordinationAssumption DEF SlotInv, SlotsAddUp
      <4>4. /\ IsFiniteSet(Holders \ {q})
            /\ Cardinality(Holders \ {q}) = Cardinality(Holders) - 1
        BY <4>2, <4>3, FS_RemoveElement
      <4>5. Cardinality(Late(d)') <= Cardinality(Holders \ {q})
        BY <4>2, <4>4, FS_Subset
      <4> QED BY <2>2, <3>1, <3>2, <4>1, <4>3, <4>4, <4>5, CoordinationAssumption
    <3> QED BY <3>3, <3>4
  <2> QED BY <2>0, <2>3, <2>4, <2>5
<1> QED BY <1>1, <1>3, <1>4, <1>5, <1>6 DEF BudgetInv

----------------------------------------------------------------------------
(* All steps, those of conversations included. *)
LEMMA MoversCountNothing ==
  ASSUME NEW q \in Questions, NEW step \in {"away", "slot"}, NEW n, NEW f, NEW s,
         MoveAndWake(q, step, n, f, s), NEW p \in Questions, pc'[p] = "counting"
  PROVE  pc[p] = "counting" /\ p # q
BY DEF MoveAndWake

LEMMA CoordInit == Init => CoordInv
<1> SUFFICES ASSUME Init PROVE CoordInv
  OBVIOUS
<1>1. Holders = {}
  BY DEF Init, Holders
<1>2. SlotInv
  BY <1>1, FS_EmptySet, CoordinationAssumption DEF Init, SlotInv, SlotsAddUp, InLine, Steps
<1>3. BudgetInv
  BY CoordinationAssumption DEF Init, BudgetInv, Superseded, Days
<1> QED BY <1>2, <1>3 DEF CoordInv

LEMMA QuestionStep ==
  ASSUME CoordInv, NEW q \in Questions,
         Arrive(q) \/ GiveUpWaiting(q) \/ GiveUpGranted(q) \/ Proceed(q)
  PROVE  CoordInv'
<1> USE DEF CoordInv
<1>T. /\ today \in Days /\ today <= today /\ stamp \in [Questions -> Days]
      /\ 0 \in Days /\ 0 <= today
      /\ pc \in [Questions -> Steps] /\ \A p \in Questions : stamp[p] <= today
  BY CoordinationAssumption DEF BudgetInv, SlotInv, Days
<1>Q. ASSUME UNCHANGED <<today, stamp, rows, admitted>>,
             \A p \in Questions : pc'[p] = "counting" => pc[p] = "counting"
      PROVE  BudgetInv'
  BY <1>Q, <1>T, QuietBudget
<1>1. CASE Arrive(q)
  <2>1. UNCHANGED <<today, stamp, rows, admitted>>
        /\ \A p \in Questions : pc'[p] = "counting" => pc[p] = "counting"
    BY <1>1, <1>T DEF Arrive
  <2> QED BY <1>1, <1>Q, <2>1, ArriveSlot
<1>2. CASE GiveUpWaiting(q)
  <2>1. UNCHANGED <<today, stamp, rows, admitted>>
        /\ \A p \in Questions : pc'[p] = "counting" => pc[p] = "counting"
    BY <1>2, MoversCountNothing DEF GiveUpWaiting
  <2> QED BY <1>2, <1>Q, <2>1, GiveUpSlot
<1>3. CASE GiveUpGranted(q)
  <2>1. /\ UNCHANGED <<today, stamp, rows, admitted>> /\ pc[q] = "granted"
        /\ MoveAndWake(q, "away", Len(line), free + 1, line)
    BY <1>3 DEF GiveUpGranted
  <2>2. \A p \in Questions : pc'[p] = "counting" => pc[p] = "counting"
    BY <2>1, MoversCountNothing
  <2>3. Len(line) \in Nat
    BY DEF SlotInv
  <2> QED BY <1>Q, <2>1, <2>2, <2>3, LeaveSlot
<1>4. CASE Resume(q)
  <2>1. UNCHANGED <<today, stamp, rows, admitted>>
        /\ \A p \in Questions : pc'[p] = "counting" => pc[p] = "counting"
    BY <1>4, MoversCountNothing DEF Resume
  <2> QED BY <1>4, <1>Q, <2>1, ResumeSlot
<1>5. CASE ReadDate(q)
  <2>1. SlotInv'
    BY <1>5, KeepStep DEF ReadDate, Steps
  <2> QED BY <1>5, <2>1, ReadDateBudget
<1>6. CASE TakeBudget(q)
  <2>1. SlotInv'
    BY <1>6, KeepStep DEF TakeBudget, Steps
  <2> QED BY <1>6, <2>1, TakeBudgetStep
<1>7. CASE RefuseBudget(q)
  <2>1. /\ UNCHANGED <<today, rows, admitted>> /\ pc[q] = "counting"
        /\ stamp' = [stamp EXCEPT ![q] = 0]
        /\ MoveAndWake(q, "away", 1, free + 1, line)
    BY <1>7 DEF RefuseBudget, Leave
  <2>2. \A p \in Questions :
          pc'[p] = "counting" => pc[p] = "counting" /\ stamp'[p] = stamp[p]
    BY <1>T, <2>1, MoversCountNothing
  <2>3. stamp' \in [Questions -> Days] /\ \A p \in Questions : stamp'[p] <= today'
    BY <1>T, <2>1
  <2>4. BudgetInv'
    BY <1>T, <2>1, <2>2, <2>3, QuietBudget
  <2> QED BY <2>1, <2>4, LeaveSlot
<1>8. CASE StartStream(q) \/ DropResponse(q)
  <2>1. UNCHANGED <<today, stamp, rows, admitted>>
        /\ \A p \in Questions : pc'[p] = "counting" => pc[p] = "counting"
    BY <1>8, <1>T DEF StartStream, DropResponse
  <2>2. SlotInv'
    BY <1>8, KeepStep DEF StartStream, DropResponse, Steps
  <2> QED BY <1>Q, <2>1, <2>2
<1>9. CASE FinishAsk(q) \/ FinishStream(q)
  <2>1. /\ UNCHANGED <<today, stamp, rows, admitted>> /\ pc[q] = "running"
        /\ MoveAndWake(q, "away", 1, free + 1, line)
    BY <1>9 DEF FinishAsk, FinishStream, Leave
  <2>2. \A p \in Questions : pc'[p] = "counting" => pc[p] = "counting"
    BY <2>1, MoversCountNothing
  <2> QED BY <1>Q, <2>1, <2>2, LeaveSlot
<1> QED BY <1>1, <1>2, <1>3, <1>4, <1>5, <1>6, <1>7, <1>8, <1>9 DEF Proceed

LEMMA CoordStep ==
  ASSUME CoordInv, [Next]_vars \/ Restart
  PROVE  CoordInv'
<1>1. CASE Midnight
  <2>1. SlotInv'
    BY <1>1 DEF Midnight, CoordInv, SlotInv, InLine, SlotsAddUp, Holders
  <2>2. /\ today' \in Days /\ today <= today' /\ UNCHANGED <<pc, stamp, rows, admitted>>
        /\ stamp \in [Questions -> Days] /\ \A q \in Questions : stamp[q] <= today'
    BY <1>1, CoordinationAssumption DEF Midnight, CoordInv, BudgetInv, Days
  <2> QED BY <2>1, <2>2, QuietBudget DEF CoordInv
<1>2. CASE \E q \in Questions :
             Arrive(q) \/ GiveUpWaiting(q) \/ GiveUpGranted(q) \/ Proceed(q)
  BY <1>2, QuestionStep
<1>3. CASE Restart
  <2>1. /\ stamp' = [q \in Questions |-> 0] /\ pc' = [q \in Questions |-> "away"]
        /\ UNCHANGED <<today, rows, admitted>>
    BY <1>3 DEF Restart
  <2>2. /\ today' \in Days /\ today <= today' /\ stamp' \in [Questions -> Days]
        /\ \A q \in Questions : stamp'[q] <= today' /\ pc'[q] # "counting"
    BY <2>1, CoordinationAssumption DEF CoordInv, BudgetInv, Days
  <2> QED BY <1>3, <2>1, <2>2, RestartSlot, QuietBudget DEF CoordInv
<1>4. CASE UNCHANGED vars
  <2>1. SlotInv'
    BY <1>4 DEF vars, CoordInv, SlotInv, InLine, SlotsAddUp, Holders
  <2>2. BudgetInv'
    BY <1>4 DEF vars, CoordInv, BudgetInv, Superseded, Late
  <2> QED BY <2>1, <2>2 DEF CoordInv
<1> QED BY <1>1, <1>2, <1>3, <1>4 DEF Next

(* What a conversation does to the slots and the counter. *)
LEMMA TalkSteps == [CNext]_cvars => [Next]_vars \/ Restart
<1> SUFFICES ASSUME [CNext]_cvars PROVE [Next]_vars \/ Restart
  OBVIOUS
<1>1. ASSUME NEW q \in Questions, CProceed(q) PROVE Proceed(q)
  BY <1>1 DEF CProceed, Finish, Proceed
<1>2. ASSUME NEW q \in Questions,
             Ask(q) \/ Load(q) \/ Checkpoint(q) \/ SaveAnswer(q)
             \/ ((GiveUpWaiting(q) \/ GiveUpGranted(q)) /\ UNCHANGED <<owner, talk>>)
      PROVE  Arrive(q) \/ GiveUpWaiting(q) \/ GiveUpGranted(q) \/ UNCHANGED vars
  BY <1>2 DEF Ask, RequireOwner, Load, Checkpoint, SaveAnswer
<1>3. ASSUME UNCHANGED cvars PROVE UNCHANGED vars
  BY <1>3 DEF cvars, vars
<1>4. ASSUME NEW t \in Threads, ReadHistory(t) PROVE UNCHANGED vars
  BY <1>4 DEF ReadHistory
<1> QED BY <1>1, <1>2, <1>3, <1>4 DEF CNext, Next

LEMMA TalkInvariance == CSpec => []CoordInv
<1>1. CInit => CoordInv
  BY CoordInit DEF CInit
<1>2. CoordInv /\ [CNext]_cvars => CoordInv'
  BY TalkSteps, CoordStep
<1> QED BY <1>1, <1>2, PTL DEF CSpec

(* Every slot is free or has its question, whatever times out, is refused, *)
(* fails, is abandoned or restarted.                                       *)
THEOREM SlotsAlwaysAddUp == CSpec => []SlotsAddUp
BY TalkInvariance, PTL DEF CoordInv, SlotInv

LEMMA LimitFollows == CoordInv => DailyLimitHolds
<1> SUFFICES ASSUME CoordInv, NEW d \in Days
             PROVE  admitted[d] <= DailyLimit + (Concurrency - 1)
  BY DEF DailyLimitHolds
<1>1. Cardinality(Late(d)) \in Nat
  BY LateShrinks
<1> QED BY <1>1, CoordinationAssumption DEF CoordInv, BudgetInv

(* The daily limit is exceeded by one question less than there are slots   *)
(* at most: with one slot it is exact.                                     *)
THEOREM DailyLimitAlwaysHolds == CSpec => []DailyLimitHolds
BY TalkInvariance, LimitFollows, PTL

LEMMA TypesFollow == CoordInv => TypeOK
<1> SUFFICES ASSUME CoordInv PROVE TypeOK
  OBVIOUS
<1>1. Holders \in SUBSET Questions
  BY DEF Holders
<1>2. Cardinality(Holders) \in Nat
  BY <1>1, QuestionsAreFinite
<1>3. free \in 0..Concurrency
  BY <1>2, CoordinationAssumption DEF CoordInv, SlotInv, SlotsAddUp
<1> QED BY <1>3 DEF CoordInv, SlotInv, BudgetInv, TypeOK

(* The variables of admission keep their types. *)
THEOREM CoordinationTypes == CSpec => []TypeOK
BY TalkInvariance, TypesFollow, PTL

----------------------------------------------------------------------------
\* Who waits has a place in s.
PlacesIn(s) == \A q \in Questions : pc[q] = "waiting" => \E i \in DOMAIN s : s[i] = q

(* The line: everybody who waits is in it, and while it is not empty a     *)
(* free slot has somebody on the way to it.                                *)
WaitInv ==
  /\ PlacesIn(line)
  /\ line # <<>> /\ free > 0 => At("granted") # {}

(* A move that may wake at least one leaves nobody to wait beside a free   *)
(* slot: it wakes one, or all, or there is no slot left.                   *)
LEMMA MoveWait ==
  ASSUME SlotInv, NEW q \in Questions, NEW step \in {"away", "slot"},
         NEW n \in Nat, NEW f \in Nat, NEW s \in Seq(Questions), n > 0 \/ s = <<>>,
         \A i \in DOMAIN s : s[i] # q,
         \A p \in Questions \ {q} : pc[p] = "waiting" => \E i \in DOMAIN s : s[i] = p,
         MoveAndWake(q, step, n, f, s)
  PROVE  WaitInv'
<1> DEFINE k == Lesser(n, Lesser(f, Len(s)))
           woken == {s[i] : i \in 1..k}
<1>1. /\ k \in 0..Len(s) /\ Len(s) \in Nat
      /\ k = n \/ k = f \/ k = Len(s)
  BY DEF Lesser
<1>2. /\ free' = f - k
      /\ line' = SubSeq(s, k + 1, Len(s))
      /\ \A p \in Questions : pc'[p] = IF p = q THEN step
                                       ELSE IF p \in woken THEN "granted" ELSE pc[p]
  BY DEF MoveAndWake
<1> HIDE DEF k
<1>3. Len(line') = Len(s) - k /\ \A i \in 1..(Len(s) - k) : line'[i] = s[i + k]
  BY <1>1, <1>2
<1>4. PlacesIn(line)'
  <2> SUFFICES ASSUME NEW p \in Questions, pc'[p] = "waiting"
               PROVE  \E i \in DOMAIN line' : line'[i] = p
    BY DEF PlacesIn
  <2>1. p # q /\ p \notin woken /\ pc[p] = "waiting"
    BY <1>2
  <2>2. PICK i \in 1..Len(s) : s[i] = p
    BY <2>1
  <2>3. i \notin 1..k
    BY <2>1, <2>2
  <2>4. i - k \in 1..(Len(s) - k) /\ (i - k) + k = i
    BY <1>1, <2>2, <2>3
  <2>5. DOMAIN line' = 1..(Len(s) - k)
    BY <1>1, <1>2, <1>3
  <2> QED BY <1>3, <2>2, <2>4, <2>5
<1>5. ASSUME line' # <<>>, free' > 0
      PROVE  At("granted")' # {}
  <2>1. k # Len(s)
    BY <1>1, <1>2, <1>5
  <2>2. k # f
    BY <1>2, <1>5
  <2>3. s # <<>>
    BY <1>1, <2>1
  <2>4. 1 \in 1..k /\ 1 \in DOMAIN s
    BY <1>1, <2>1, <2>2, <2>3
  <2>5. s[1] \in woken /\ s[1] # q /\ s[1] \in Questions
    BY <2>4
  <2> QED BY <1>2, <2>5 DEF At
<1> QED BY <1>4, <1>5 DEF WaitInv

(* A question that has a slot keeps it, or joins from elsewhere.           *)
LEMMA StayWait ==
  ASSUME SlotInv, WaitInv, NEW q \in Questions, pc[q] # "granted",
         NEW step \in Steps \ {"waiting"},
         pc' = [pc EXCEPT ![q] = step], line' = line, free' \in Nat, free' <= free
  PROVE  WaitInv'
<1>1. \A p \in Questions : pc'[p] = IF p = q THEN step ELSE pc[p]
  BY DEF SlotInv
<1>2. PlacesIn(line)'
  BY <1>1 DEF WaitInv, PlacesIn
<1>3. ASSUME line' # <<>>, free' > 0
      PROVE  At("granted")' # {}
  <2>1. PICK p \in Questions : pc[p] = "granted"
    BY <1>3 DEF WaitInv, SlotInv, At
  <2> QED BY <1>1, <2>1 DEF At
<1> QED BY <1>2, <1>3 DEF WaitInv

LEMMA ArriveWait ==
  ASSUME SlotInv, WaitInv, NEW q \in Questions, Arrive(q)
  PROVE  WaitInv'
<1>1. pc[q] = "away"
  BY DEF Arrive
<1>2. CASE /\ free > 0 /\ free' = free - 1
           /\ pc' = [pc EXCEPT ![q] = "slot"] /\ line' = line
  <2>1. free' \in Nat /\ free' <= free /\ pc[q] # "granted"
    BY <1>1, <1>2 DEF SlotInv
  <2>2. "slot" \in Steps \ {"waiting"}
    BY DEF Steps
  <2> QED BY <1>2, <2>1, <2>2, StayWait
<1>3. CASE /\ free = 0 \/ line # <<>> \/ At("granted") # {}
           /\ line' = Append(line, q)
           /\ pc' = [pc EXCEPT ![q] = "waiting"] /\ free' = free
  <2>1. /\ Len(line) \in Nat /\ DOMAIN line = 1..Len(line)
        /\ DOMAIN line' = 1..(Len(line) + 1) /\ line'[Len(line) + 1] = q
        /\ \A i \in DOMAIN line : line'[i] = line[i]
    BY <1>3 DEF SlotInv
  <2>2. \A p \in Questions : pc'[p] = IF p = q THEN "waiting" ELSE pc[p]
    BY <1>3 DEF SlotInv
  <2>3. PlacesIn(line)'
    <3> SUFFICES ASSUME NEW p \in Questions, pc'[p] = "waiting"
                 PROVE  \E i \in DOMAIN line' : line'[i] = p
      BY DEF PlacesIn
    <3>1. CASE p = q
      BY <2>1, <3>1
    <3>2. CASE p # q
      <4>1. PICK i \in DOMAIN line : line[i] = p
        BY <2>2, <3>2 DEF WaitInv, PlacesIn
      <4> QED BY <2>1, <4>1
    <3> QED BY <3>1, <3>2
  <2>4. ASSUME free' > 0
        PROVE  At("granted")' # {}
    <3>1. free # 0
      BY <1>3, <2>4
    <3>2. free > 0
      BY <1>3, <2>4
    <3>3. PICK p \in Questions : pc[p] = "granted"
      BY <1>3, <3>1, <3>2 DEF WaitInv, At
    <3> QED BY <1>1, <2>2, <3>3 DEF At
  <2> QED BY <2>3, <2>4 DEF WaitInv
<1> QED BY <1>2, <1>3 DEF Arrive

(* A slot that comes back, or is used, wakes the next in line. *)
LEMMA LeaveWait ==
  ASSUME SlotInv, WaitInv, NEW q \in Questions, pc[q] # "waiting",
         NEW step \in {"away", "slot"}, NEW n \in Nat, n > 0 \/ line = <<>>,
         NEW f \in Nat, MoveAndWake(q, step, n, f, line)
  PROVE  WaitInv'
<1>1. line \in Seq(Questions) /\ \A i \in DOMAIN line : line[i] # q
  BY DEF SlotInv, InLine
<1>2. \A p \in Questions \ {q} : pc[p] = "waiting" => \E i \in DOMAIN line : line[i] = p
  BY DEF WaitInv, PlacesIn
<1> QED BY <1>1, <1>2, MoveWait

LEMMA GiveUpWait ==
  ASSUME SlotInv, WaitInv, NEW q \in Questions, GiveUpWaiting(q)
  PROVE  WaitInv'
<1>1. PICK i \in DOMAIN line :
        /\ pc[q] = "waiting" /\ line[i] = q
        /\ MoveAndWake(q, "away", Len(DropAt(line, i)), free, DropAt(line, i))
  BY DEF GiveUpWaiting
<1> DEFINE s == DropAt(line, i)
<1>2. line \in Seq(Questions) /\ InLine(line) /\ free \in Nat
      /\ i \in 1..Len(line) /\ Len(line) \in Nat
  BY DEF SlotInv
<1>3. /\ s \in Seq(Questions) /\ Len(s) = Len(line) - 1 /\ Len(s) \in Nat
      /\ \A j \in DOMAIN s : s[j] = line[IF j < i THEN j ELSE j + 1]
  BY <1>2, DropAtLine
<1> HIDE DEF s
<1>4. \A j \in DOMAIN s : s[j] # q
  <2>1. \A j \in DOMAIN s :
          \E m \in DOMAIN line : m = (IF j < i THEN j ELSE j + 1) /\ m # i /\ s[j] = line[m]
    BY <1>2, <1>3
  <2> QED BY <1>1, <1>2, <2>1 DEF InLine
<1>5. ASSUME NEW p \in Questions \ {q}, pc[p] = "waiting"
      PROVE  \E j \in DOMAIN s : s[j] = p
  <2>1. PICK m \in DOMAIN line : line[m] = p
    BY <1>5 DEF WaitInv, PlacesIn
  <2>2. m # i /\ m \in 1..Len(line)
    BY <1>1, <1>2, <1>5, <2>1
  <2>3. CASE m < i
    <3>1. m \in DOMAIN s
      BY <1>2, <1>3, <2>2, <2>3
    <3> QED BY <1>3, <2>1, <2>3, <3>1
  <2>4. CASE m > i
    <3>1. m - 1 \in DOMAIN s /\ ~(m - 1 < i) /\ (m - 1) + 1 = m
      BY <1>2, <1>3, <2>2, <2>4
    <3> QED BY <1>3, <2>1, <3>1
  <2> QED BY <1>2, <2>2, <2>3, <2>4
<1>6. MoveAndWake(q, "away", Len(s), free, s)
  BY <1>1 DEF s
<1>7. Len(s) > 0 \/ s = <<>>
  BY <1>3
<1> QED BY <1>2, <1>3, <1>4, <1>5, <1>6, <1>7, MoveWait

LEMMA WaitStep ==
  ASSUME SlotInv, WaitInv, [Next]_vars \/ Restart
  PROVE  WaitInv'
<1>0. /\ Len(line) \in Nat /\ free \in Nat /\ free + 1 \in Nat /\ free <= free
      /\ Len(line) > 0 \/ line = <<>>
  BY DEF SlotInv
<1>1. CASE UNCHANGED <<free, line, pc>>
  BY <1>1 DEF WaitInv, PlacesIn, At
<1>2. ASSUME NEW q \in Questions, Arrive(q) PROVE WaitInv'
  BY <1>2, ArriveWait
<1>3. ASSUME NEW q \in Questions, GiveUpWaiting(q) PROVE WaitInv'
  BY <1>3, GiveUpWait
<1>4. ASSUME NEW q \in Questions, GiveUpGranted(q) PROVE WaitInv'
  BY <1>0, <1>4, LeaveWait DEF GiveUpGranted
<1>5. ASSUME NEW q \in Questions, Resume(q) PROVE WaitInv'
  BY <1>0, <1>5, LeaveWait DEF Resume
<1>6. ASSUME NEW q \in Questions, RefuseBudget(q) \/ FinishAsk(q) \/ FinishStream(q)
      PROVE  WaitInv'
  BY <1>0, <1>6, LeaveWait DEF RefuseBudget, FinishAsk, FinishStream, Leave
<1>7. ASSUME NEW q \in Questions,
             ReadDate(q) \/ TakeBudget(q) \/ StartStream(q) \/ DropResponse(q)
      PROVE  WaitInv'
  <2>1. PICK step \in Steps \ {"waiting"} :
          pc[q] # "granted" /\ pc' = [pc EXCEPT ![q] = step] /\ UNCHANGED <<free, line>>
    BY <1>7 DEF ReadDate, TakeBudget, StartStream, DropResponse, Steps
  <2> QED BY <1>0, <2>1, StayWait
<1>8. CASE Restart
  BY <1>8, CoordinationAssumption DEF Restart, WaitInv, PlacesIn
<1>9. ASSUME NEW q \in Questions, Proceed(q) PROVE WaitInv'
  BY <1>5, <1>6, <1>7, <1>9 DEF Proceed
<1>10. CASE Midnight \/ UNCHANGED vars
  BY <1>1, <1>10 DEF Midnight, vars
<1> QED BY <1>2, <1>3, <1>4, <1>8, <1>9, <1>10 DEF Next

LEMMA NobodyForgotten == SlotInv /\ WaitInv => NoWaiterForgotten
BY DEF SlotInv, WaitInv, PlacesIn, NoWaiterForgotten, At

(* Whatever times out, is refused, fails or ends, in whatever order: no    *)
(* question waits beside a free slot with nobody to wake it.               *)
THEOREM NoWaiterIsForgotten == CSpec => []NoWaiterForgotten
<1>1. CInit => WaitInv
  BY DEF CInit, Init, WaitInv, PlacesIn
<1>2. CoordInv /\ WaitInv /\ [CNext]_cvars => WaitInv'
  BY TalkSteps, WaitStep DEF CoordInv
<1>3. CoordInv /\ WaitInv => NoWaiterForgotten
  BY NobodyForgotten DEF CoordInv
<1> QED BY TalkInvariance, <1>1, <1>2, <1>3, PTL DEF CSpec

----------------------------------------------------------------------------
(* A run that is alone on its thread works on a state with every answer    *)
(* its conversation has, and what it has saved itself is in the newest     *)
(* checkpoint.                                                             *)
AloneInv ==
  /\ saved \in [Threads -> SUBSET Questions]
  /\ base \in [Questions -> SUBSET Questions]
  /\ loaded \subseteq Questions /\ finished \subseteq Questions
  /\ \A q \in Questions \ loaded : base[q] = {}
  /\ \A q \in loaded : ThreadOf[q] \notin overlapped =>
       /\ \A p \in loaded : ThreadOf[p] = ThreadOf[q] => p = q
       /\ \A p \in finished : ThreadOf[p] = ThreadOf[q] => p \in base[q]
       /\ q \in base[q] => q \in saved[ThreadOf[q]]
  /\ AnswersStay

LEMMA AloneInit == CInit => AloneInv
BY DEF CInit, AloneInv, AnswersStay

LEMMA AloneStep ==
  ASSUME AloneInv, [CNext]_cvars
  PROVE  AloneInv'
<1> USE ConversationAssumption DEF AloneInv, AnswersStay
<1>1. CASE UNCHANGED <<saved, loaded, base, finished, overlapped>>
  BY <1>1
<1>2. ASSUME NEW q \in Questions, Load(q) PROVE AloneInv'
  <2>1. /\ q \notin loaded /\ loaded' = loaded \cup {q}
        /\ base' = [base EXCEPT ![q] = saved[ThreadOf[q]]]
        /\ overlapped' = overlapped \cup
             {t \in Threads : \E p \in loaded : t = ThreadOf[p] /\ t = ThreadOf[q]}
        /\ UNCHANGED <<saved, finished>>
    BY <1>2 DEF Load
  <2>2. base' \in [Questions -> SUBSET Questions] /\ base'[q] = saved[ThreadOf[q]]
        /\ \A p \in Questions \ {q} : base'[p] = base[p]
    BY <2>1
  <2>3. ASSUME NEW p \in loaded', ThreadOf[p] \notin overlapped'
        PROVE  /\ \A r \in loaded' : ThreadOf[r] = ThreadOf[p] => r = p
               /\ \A r \in finished' : ThreadOf[r] = ThreadOf[p] => r \in base'[p]
               /\ p \in base'[p] => p \in saved'[ThreadOf[p]]
    <3>1. ThreadOf[p] \notin overlapped /\ ThreadOf[p] \in Threads
      BY <2>1, <2>3
    <3>2. CASE p = q
      <4>1. \A r \in loaded : ThreadOf[r] # ThreadOf[q]
        BY <2>1, <2>3, <3>1, <3>2
      <4> QED BY <2>1, <2>2, <3>1, <3>2, <4>1
    <3>3. CASE p # q
      <4>1. p \in loaded /\ ThreadOf[p] # ThreadOf[q]
        BY <2>1, <2>3, <3>1, <3>3
      <4> QED BY <2>1, <2>2, <3>1, <4>1
    <3> QED BY <3>2, <3>3
  <2> QED BY <2>1, <2>2, <2>3
<1>3. ASSUME NEW q \in Questions, Checkpoint(q) \/ SaveAnswer(q) PROVE AloneInv'
  <2>1. /\ q \in loaded /\ UNCHANGED <<loaded, finished, overlapped>>
        /\ base' \in [Questions -> SUBSET Questions]
        /\ base[q] \subseteq base'[q]
        /\ \A p \in Questions \ {q} : base'[p] = base[p]
        /\ saved' = [saved EXCEPT ![ThreadOf[q]] = base'[q]]
    BY <1>3 DEF Checkpoint, SaveAnswer
  <2>2. saved' \in [Threads -> SUBSET Questions] /\ saved'[ThreadOf[q]] = base'[q]
        /\ \A t \in Threads : t # ThreadOf[q] => saved'[t] = saved[t]
    BY <2>1
  <2>3. ASSUME NEW p \in loaded, ThreadOf[p] \notin overlapped
        PROVE  /\ \A r \in loaded : ThreadOf[r] = ThreadOf[p] => r = p
               /\ \A r \in finished : ThreadOf[r] = ThreadOf[p] => r \in base'[p]
               /\ p \in base'[p] => p \in saved'[ThreadOf[p]]
    <3>1. p = q \/ ThreadOf[p] # ThreadOf[q]
      BY <2>1, <2>3
    <3> QED BY <2>1, <2>2, <2>3, <3>1
  <2>4. AnswersStay'
    BY <2>1, <2>2
  <2> QED BY <2>1, <2>2, <2>3, <2>4
<1>4. ASSUME NEW q \in Questions, RunEnds(q) PROVE AloneInv'
  <2>1. /\ finished' = IF q \in base[q] THEN finished \cup {q} ELSE finished
        /\ loaded' = loaded \ {q} /\ base' = [base EXCEPT ![q] = {}]
        /\ UNCHANGED <<saved, overlapped>>
    BY <1>4 DEF RunEnds
  <2>2. base' \in [Questions -> SUBSET Questions] /\ base'[q] = {}
        /\ \A p \in Questions \ {q} : base'[p] = base[p]
    BY <2>1
  <2>3. q \in base[q] => q \in loaded
    OBVIOUS
  <2>4. ASSUME NEW p \in loaded', ThreadOf[p] \notin overlapped
        PROVE  /\ \A r \in loaded' : ThreadOf[r] = ThreadOf[p] => r = p
               /\ \A r \in finished' : ThreadOf[r] = ThreadOf[p] => r \in base'[p]
               /\ p \in base'[p] => p \in saved'[ThreadOf[p]]
    <3>1. p \in loaded /\ p # q /\ (q \in loaded => ThreadOf[q] # ThreadOf[p])
      BY <2>1, <2>4
    <3> QED BY <2>1, <2>2, <2>3, <2>4, <3>1
  <2>5. AnswersStay'
    BY <2>1, <2>3
  <2> QED BY <2>1, <2>2, <2>4, <2>5
<1>5. CASE Restart
  <2>1. loaded' = {} /\ base' = [q \in Questions |-> {}]
        /\ UNCHANGED <<saved, finished, overlapped>>
    BY <1>5 DEF Restart
  <2> QED BY <2>1
<1>6. ASSUME NEW q \in Questions, CProceed(q) PROVE AloneInv'
  BY <1>1, <1>4, <1>6 DEF CProceed, Finish, talk
<1>7. CASE UNCHANGED cvars
  BY <1>1, <1>7 DEF cvars
<1>8. ASSUME NEW q \in Questions, Ask(q) PROVE AloneInv'
  BY <1>1, <1>8 DEF Ask, RequireOwner, talk
<1>9. ASSUME NEW t \in Threads, ReadHistory(t) PROVE AloneInv'
  BY <1>1, <1>9 DEF ReadHistory, talk
<1> QED BY <1>1, <1>2, <1>3, <1>5, <1>6, <1>7, <1>8, <1>9 DEF CNext, talk

(* An answer once saved by a run that ended stays in its conversation,     *)
(* through restarts as well, until two runs of its thread overlap.         *)
THEOREM AnswersAlwaysStay == CSpec => []AnswersStay
<1>1. AloneInv => AnswersStay
  BY DEF AloneInv
<1> QED BY AloneInit, AloneStep, <1>1, PTL DEF CSpec

----------------------------------------------------------------------------
(* No question of a historical thread gets past its claim. *)
ClaimInv ==
  /\ owner \in [Threads -> Owners]
  /\ DOMAIN saved = Threads
  /\ loaded \subseteq Questions
  /\ \A q \in Questions : owner[ThreadOf[q]] = "historical" =>
       pc[q] = "away" /\ q \notin loaded

\* What HistoricalThreadsUntouched says of a step.
LeftAlone ==
  \A t \in Threads :
    owner[t] = "historical" =>
      /\ owner'[t] = "historical"
      /\ saved'[t] = saved[t]
      /\ \A q \in Questions : ThreadOf[q] = t => pc'[q] = "away"

LEMMA ClaimInit == CInit => ClaimInv
BY DEF CInit, Init, ClaimInv, Owners

(* A claim gives an owner to a thread that has none. *)
LEMMA ClaimKeepsOwners ==
  ASSUME ClaimInv, NEW t \in Threads, owner' = Claimed(t)
  PROVE  /\ owner' \in [Threads -> Owners]
         /\ \A u \in Threads : owner'[u] = "historical" <=> owner[u] = "historical"
BY DEF ClaimInv, Claimed, Owners

(* Admission moves no question that is away, but for the one that asks.    *)
LEMMA AwayStaysAway ==
  ASSUME CoordInv, NEW q \in Questions,
         \/ Arrive(q) \/ GiveUpWaiting(q) \/ GiveUpGranted(q) \/ Proceed(q),
         NEW p \in Questions, pc[p] = "away", pc'[p] # "away"
  PROVE  p = q /\ Arrive(q)
<1> SUFFICES ASSUME ~(p = q /\ Arrive(q)) PROVE FALSE
  OBVIOUS
<1>0. pc \in [Questions -> Steps] /\ line \in Seq(Questions) /\ InLine(line)
      /\ free \in Nat /\ Len(line) \in Nat
  BY DEF CoordInv, SlotInv
<1>1. ASSUME NEW n \in Nat, NEW f \in Nat, NEW step, MoveAndWake(q, step, n, f, line), p # q
      PROVE  FALSE
  <2>1. Lesser(n, Lesser(f, Len(line))) \in 0..Len(line)
    BY <1>0 DEF Lesser
  <2> QED BY <1>0, <1>1, <2>1 DEF MoveAndWake, InLine
<1>2. CASE Arrive(q) \/ ReadDate(q) \/ TakeBudget(q) \/ StartStream(q) \/ DropResponse(q)
  BY <1>0, <1>2 DEF Arrive, ReadDate, TakeBudget, StartStream, DropResponse
<1>3. CASE GiveUpGranted(q) \/ Resume(q) \/ RefuseBudget(q) \/ FinishAsk(q) \/ FinishStream(q)
  <2>1. p # q
    BY <1>3 DEF GiveUpGranted, Resume, RefuseBudget, FinishAsk, FinishStream
  <2> QED BY <1>0, <1>1, <1>3, <2>1
          DEF GiveUpGranted, Resume, RefuseBudget, FinishAsk, FinishStream, Leave
<1>4. CASE GiveUpWaiting(q)
  <2>1. PICK i \in DOMAIN line :
          /\ pc[q] = "waiting" /\ line[i] = q
          /\ MoveAndWake(q, "away", Len(DropAt(line, i)), free, DropAt(line, i))
    BY <1>4 DEF GiveUpWaiting
  <2> DEFINE s == DropAt(line, i)
  <2>2. s \in Seq(Questions) /\ \A j \in 1..Len(s) : \E m \in DOMAIN line : s[j] = line[m]
    BY <1>0, DropAtLine
  <2>3. Lesser(Len(s), Lesser(free, Len(s))) \in 0..Len(s)
    BY <1>0, <2>2 DEF Lesser
  <2>4. p # q
    BY <2>1
  <2> HIDE DEF s
  <2>5. MoveAndWake(q, "away", Len(s), free, s)
    BY <2>1 DEF s
  <2>6. p \notin {s[j] : j \in 1..Lesser(Len(s), Lesser(free, Len(s)))}
    BY <1>0, <2>2, <2>3 DEF InLine
  <2> QED BY <2>4, <2>5, <2>6 DEF MoveAndWake
<1> QED BY <1>2, <1>3, <1>4 DEF Proceed

LEMMA ClaimStep ==
  ASSUME CoordInv, ClaimInv, [CNext]_cvars
  PROVE  ClaimInv' /\ LeftAlone
<1> USE ConversationAssumption DEF ClaimInv, LeftAlone
<1>1. CASE UNCHANGED <<pc, owner, saved, loaded>>
  BY <1>1
<1>2. ASSUME NEW q \in Questions, Ask(q) PROVE ClaimInv' /\ LeftAlone
  <2>1. /\ owner' = Claimed(ThreadOf[q]) /\ owner'[ThreadOf[q]] = "assistant"
        /\ Arrive(q) /\ UNCHANGED <<saved, loaded>>
    BY <1>2 DEF Ask, RequireOwner, talk
  <2>2. \A p \in Questions \ {q} : pc'[p] = "away" \/ pc[p] # "away"
    BY <2>1, AwayStaysAway
  <2> QED BY <2>1, <2>2, ClaimKeepsOwners
<1>3. ASSUME NEW t \in Threads, ReadHistory(t) PROVE ClaimInv' /\ LeftAlone
  BY <1>3, ClaimKeepsOwners DEF ReadHistory, vars, talk
<1>4. ASSUME NEW q \in Questions, Load(q) \/ Checkpoint(q) \/ SaveAnswer(q)
      PROVE  ClaimInv' /\ LeftAlone
  <2>1. /\ UNCHANGED <<pc, owner>> /\ owner[ThreadOf[q]] # "historical"
        /\ loaded' \subseteq loaded \cup {q}
    BY <1>4 DEF Load, Checkpoint, SaveAnswer, vars
  <2>2. /\ DOMAIN saved' = Threads
        /\ \A t \in Threads : t # ThreadOf[q] => saved'[t] = saved[t]
    BY <1>4 DEF Load, Checkpoint, SaveAnswer
  <2> QED BY <2>1, <2>2
<1>5. ASSUME NEW q \in Questions, UNCHANGED <<owner, saved>>, loaded' \subseteq loaded,
             GiveUpWaiting(q) \/ GiveUpGranted(q) \/ Proceed(q), ~Arrive(q)
      PROVE  ClaimInv' /\ LeftAlone
  <2>1. \A p \in Questions : pc[p] = "away" => pc'[p] = "away"
    BY <1>5, AwayStaysAway
  <2> QED BY <1>5, <2>1
<1>6. ASSUME NEW q \in Questions,
             \/ CProceed(q)
             \/ (GiveUpWaiting(q) \/ GiveUpGranted(q)) /\ UNCHANGED <<owner, talk>>
      PROVE  ClaimInv' /\ LeftAlone
  <2>1. UNCHANGED <<owner, saved>> /\ loaded' \subseteq loaded
    BY <1>6 DEF CProceed, Finish, RunEnds, talk
  <2>2. GiveUpWaiting(q) \/ GiveUpGranted(q) \/ Proceed(q)
    BY <1>6 DEF CProceed, Finish, Proceed
  <2>3. ~Arrive(q)
    BY <2>2 DEF Arrive, GiveUpWaiting, GiveUpGranted, Proceed, Resume, ReadDate,
               TakeBudget, RefuseBudget, StartStream, DropResponse, FinishAsk, FinishStream
  <2> QED BY <1>5, <2>1, <2>2, <2>3
<1>7. CASE Restart
  <2>1. /\ pc' = [q \in Questions |-> "away"] /\ loaded' = {}
        /\ UNCHANGED <<owner, saved>>
    BY <1>7 DEF Restart
  <2> QED BY <2>1
<1>8. CASE Midnight /\ UNCHANGED <<owner, talk>>
  BY <1>1, <1>8 DEF Midnight, talk
<1>9. CASE UNCHANGED cvars
  BY <1>1, <1>9 DEF cvars
<1> QED BY <1>2, <1>3, <1>4, <1>6, <1>7, <1>8, <1>9 DEF CNext

(* A thread of a historical owner is left as it is by every claim,         *)
(* question and restart.                                                   *)
THEOREM HistoricalThreadsStay == CSpec => HistoricalThreadsUntouched
<1>1. CoordInv /\ ClaimInv /\ [CNext]_cvars =>
        [\A t \in Threads :
           owner[t] = "historical" =>
             /\ owner'[t] = "historical"
             /\ saved'[t] = saved[t]
             /\ \A q \in Questions : ThreadOf[q] = t => pc'[q] = "away"]_cvars
  BY ClaimStep DEF LeftAlone
<1>2. CoordInv /\ ClaimInv /\ [CNext]_cvars => ClaimInv'
  BY ClaimStep
<1>3. CSpec => [](CoordInv /\ ClaimInv)
  BY <1>2, TalkInvariance, ClaimInit, PTL DEF CSpec
<1> QED BY <1>1, <1>3, PTL DEF CSpec, HistoricalThreadsUntouched
=============================================================================
