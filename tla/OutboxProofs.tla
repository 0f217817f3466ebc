----------------------------- MODULE OutboxProofs -----------------------------
(***************************************************************************)
(* Proofs about Outbox: the cursor passes nothing over that was pushed in  *)
(* its place, and an item is told once and once more at most for each      *)
(* crash.                                                                   *)
(*                                                                         *)
(* A line that was written may be put out of hud-chat.json again, but only  *)
(* by a write that fails or overlaps another (Drafts).                      *)
(*                                                                         *)
(* Both rest on how the answer a pull works on relates to the outbox.  An   *)
(* item in place either is later than what the pull still has to tell, or  *)
(* is there before whatever is later than it (Ordered); so the cursor never *)
(* overtakes it.                                                            *)
(***************************************************************************)
EXTENDS Outbox, TLAPS

Pushed == {outbox[i] : i \in DOMAIN outbox} \cup dropped

\* What a thread pushes next is later than what it pushed before.
Stamped ==
  \A p \in Pushers : stamp[p] # 0 => \A x \in Pushed : x.id = p => x.ts < stamp[p]

Distinct == \A i, j \in DOMAIN outbox : i # j => outbox[i] # outbox[j]

Asked(p) == pull[p].pc = "append"

\* A cursor, and what is left of an answer, come from items that were pushed.
Known ==
  /\ cursor \in Pushed \cup {Start}
  /\ \A p \in Pullers :
       /\ pull[p].cursor \in Pushed \cup {Start}
       /\ \A k \in DOMAIN pull[p].items : pull[p].items[k] \in Pushed
       /\ ~Asked(p) => DOMAIN pull[p].items = {}

\* A notice of the item was appended, and is there or was put out again.
Written(x) == x \in hud \cup lost

\* A cursor tells the truth: what it is past is told.
Truthful(c) ==
  \A i \in DOMAIN outbox : InPlace(i) /\ ~Later(outbox[i], c) => Written(outbox[i])

CursorsTrue == Truthful(cursor) /\ \A p \in Pullers : Truthful(pull[p].cursor)

Comes(x, items, k) == Later(x, items[k]) \/ \E m \in DOMAIN items : m <= k /\ items[m] = x

Ordered ==
  \A p \in Pullers : \A i \in DOMAIN outbox : InPlace(i) =>
    \/ Written(outbox[i])
    \/ \A k \in DOMAIN pull[p].items : Comes(outbox[i], pull[p].items, k)

Told == \A x \in Item : notices[x] <= 1 + slips

Fresh(x) == notices[x] <= slips

\* What a pull that is alone has before it was told no more often than the daemon died.
FreshIn(p) ==
  /\ \A k \in DOMAIN pull[p].items : Later(pull[p].items[k], cursor)
  /\ \A k, l \in DOMAIN pull[p].items : k # l => pull[p].items[k] # pull[p].items[l]
  /\ \A k \in DOMAIN pull[p].items : Fresh(pull[p].items[k])
  /\ \A x \in Item : Later(x, pull[p].cursor) => Fresh(x)

Single ==
  /\ \A p, q \in Pullers : p # q => pull[p] = Idle \/ pull[q] = Idle
  /\ Told
  /\ (\A p \in Pullers : ~Asked(p)) => \A x \in Item : Later(x, cursor) => Fresh(x)
  /\ \A p \in Pullers : pull[p].pc = "get" => pull[p].cursor = cursor
  /\ \A p \in Pullers : Asked(p) => FreshIn(p)

\* Who is about to write has in its draft what it adds, and until a write fails or
\* overlaps another also what the file has.
Drafts ==
  /\ \A p \in Pullers : p \in writing =>
       /\ Asked(p) /\ DOMAIN pull[p].items # {}
       /\ \A i \in 1..Capacity : IsFirst(p, i) => pull[p].items[i] \in draft[p]
  /\ ~clash => lost = {} /\ \A w \in writing : hud \subseteq draft[w]

IInv ==
  /\ TypeOK
  /\ Stamped /\ Distinct /\ Known
  /\ CursorsTrue /\ Ordered
  /\ ~overlap => Single

-----------------------------------------------------------------------------
(* The order of the cursor. *)

LEMMA KeyParts ==
  ASSUME NEW a \in Key
  PROVE  a \in [ts : Nat, id : Nat]
<1>1. 1..MaxClock \subseteq Nat /\ Pushers \subseteq Nat
  BY OutboxAssumption
<1>2. CASE a \in Item
  BY <1>1, <1>2 DEF Item
<1>3. CASE a = Start
  BY <1>3 DEF Start
<1> QED BY <1>2, <1>3 DEF Key

LEMMA LaterTransitive ==
  ASSUME NEW a \in Key, NEW b \in Key, NEW c \in Key, Later(a, b), Later(b, c)
  PROVE  Later(a, c)
BY KeyParts DEF Later

LEMMA LaterTotal ==
  ASSUME NEW a \in Key, NEW b \in Key
  PROVE  a = b \/ Later(a, b) \/ Later(b, a)
BY KeyParts DEF Later

LEMMA LaterStrict ==
  ASSUME NEW a \in Key, NEW b \in Key, Later(a, b)
  PROVE  ~Later(b, a) /\ a # b
BY KeyParts DEF Later

\* Every item is later than the beginning.
LEMMA LaterThanStart ==
  ASSUME NEW x \in Item
  PROVE  Later(x, Start)
BY DEF Later, Item, Start

\* The cursor after an item is the later of the two.
LEMMA Advances ==
  ASSUME NEW c \in Key, NEW x \in Item, NEW y \in Item
  PROVE  /\ AdvancedCursor(c, x) \in {c, x}
         /\ Later(y, AdvancedCursor(c, x)) => Later(y, c) /\ Later(y, x)
<1>1. AdvancedCursor(c, x) \in {c, x}
  BY DEF AdvancedCursor
<1>2. ASSUME Later(y, AdvancedCursor(c, x)) PROVE Later(y, c) /\ Later(y, x)
  <2>0. x \in Key /\ y \in Key BY DEF Key
  <2>1. CASE Later(x, c)
    BY <1>2, <2>0, <2>1, LaterTransitive DEF AdvancedCursor
  <2>2. CASE ~Later(x, c)
    <3>1. Later(y, c) BY <1>2, <2>2 DEF AdvancedCursor
    <3>2. x = c \/ Later(c, x) BY <2>0, <2>2, LaterTotal
    <3> QED BY <3>1, <3>2, <2>0, LaterTransitive
  <2> QED BY <2>1, <2>2
<1> QED BY <1>1, <1>2

-----------------------------------------------------------------------------
(* Types. *)

LEMMA Typed ==
  ASSUME TypeOK
  PROVE  /\ Pushed \subseteq Item /\ Item \subseteq Key
         /\ \A i \in DOMAIN outbox : outbox[i] \in Item
         /\ \A p \in Pullers : pull[p].cursor \in Key
         /\ \A p \in Pullers : \A k \in DOMAIN pull[p].items :
              k \in 1..Capacity /\ pull[p].items[k] \in Item
<1>1. \A i \in DOMAIN outbox : outbox[i] \in Item
  BY DEF TypeOK
<1>2. \A p \in Pullers : pull[p].items \in Answers /\ pull[p].cursor \in Key
  BY DEF TypeOK
<1>3. \A p \in Pullers : \A k \in DOMAIN pull[p].items :
        k \in 1..Capacity /\ pull[p].items[k] \in Item
  BY <1>2 DEF Answers
<1> QED BY <1>1, <1>2, <1>3 DEF TypeOK, Pushed, Key

LEMMA InitIInv == Init => IInv
<1> SUFFICES ASSUME Init PROVE IInv OBVIOUS
<1>1. DOMAIN outbox = {} /\ outbox \in Seq(Item) /\ Len(outbox) = 0
  BY DEF Init
<1>2. <<>> \in Answers
  <2>1. <<>> \in [{} -> Item] BY DEF Item
  <2> QED BY <2>1 DEF Answers
<1>3. Idle \in [pc : {"idle", "get", "append"}, cursor : Key, items : Answers]
  BY <1>2 DEF Idle, Key
<1>4. TypeOK
  <2>1. clock \in 0..MaxClock /\ slips \in 0..MaxSlips /\ overlap \in BOOLEAN /\ clash \in BOOLEAN
    <3>1. MaxClock \in Nat /\ MaxSlips \in Nat BY OutboxAssumption
    <3>2. clock = 0 /\ slips = 0 /\ overlap = FALSE /\ clash = FALSE BY DEF Init
    <3>3. 0 \in 0..MaxClock /\ 0 \in 0..MaxSlips BY <3>1
    <3> QED BY <3>2, <3>3
  <2>2. stamp \in [Pushers -> 0..clock] /\ dropped \subseteq Item /\ cursor \in Key
    BY DEF Init, Key
  <2>3. pull \in [Pullers -> [pc : {"idle", "get", "append"}, cursor : Key, items : Answers]]
    BY <1>3 DEF Init
  <2>5. notices \in [Item -> Nat] /\ draft \in [Writer -> SUBSET Item]
        /\ hud \subseteq Item /\ lost \subseteq Item /\ writing \subseteq Writer
    BY DEF Init
  <2>6. Len(outbox) <= Capacity
    BY <1>1, OutboxAssumption
  <2> QED BY <1>1, <2>1, <2>2, <2>3, <2>5, <2>6 DEF TypeOK
<1>5. \A p \in Pullers : pull[p] = Idle
  BY DEF Init
<1>6. \A p \in Pullers : pull[p].cursor = Start /\ DOMAIN pull[p].items = {} /\ ~Asked(p)
                         /\ pull[p].pc # "get"
  BY <1>5 DEF Idle, Asked
<1>7. Stamped /\ Distinct
  BY <1>1 DEF Init, Stamped, Distinct
<1>8. Known
  BY <1>6 DEF Init, Known
<1>9. CursorsTrue /\ Ordered
  BY <1>1, <1>6 DEF CursorsTrue, Truthful, Ordered
<1>10. Single
  BY <1>5, <1>6, OutboxAssumption DEF Init, Single, Told, Fresh, FreshIn
<1> QED BY <1>4, <1>7, <1>8, <1>9, <1>10 DEF IInv

-----------------------------------------------------------------------------
(* The node's steps. *)

\* Steps that leave the outbox and the laptop alone.
LEMMA QuietPart ==
  ASSUME IInv, TypeOK', Stamped', UNCHANGED <<outbox, dropped, pullVars, hudVars>>
  PROVE  IInv'
<1>1. (Distinct /\ Known)' = (Distinct /\ Known)
  BY DEF pullVars, hudVars, Distinct, Known, Pushed, Asked
<1>2. (CursorsTrue /\ Ordered)' = (CursorsTrue /\ Ordered)
  BY DEF pullVars, hudVars, CursorsTrue, Truthful, Ordered, InPlace, Comes, Written
<1>3. (Single' = Single) /\ (overlap' = overlap)
  BY DEF pullVars, hudVars, Single, Told, Fresh, FreshIn, Asked
<1> QED BY <1>1, <1>2, <1>3 DEF IInv

LEMMA StampKeeps ==
  ASSUME IInv, NEW p \in Pushers, Stamp(p)
  PROVE  IInv'
<1>1. UNCHANGED <<clock, outbox, dropped, pullVars, hudVars>>
  BY DEF Stamp
<1>2. TypeOK'
  BY <1>1, OutboxAssumption DEF IInv, TypeOK, Stamp, pullVars, hudVars
<1>3. \A x \in Pushed : x.id = p => x.ts < clock
  BY DEF Stamp, Pushed
<1>4. Stamped'
  BY <1>1, <1>3 DEF IInv, TypeOK, Stamped, Stamp, Pushed
<1> QED BY <1>1, <1>2, <1>4, QuietPart

LEMMA ClockKeeps ==
  ASSUME IInv, ClockTicks
  PROVE  IInv'
<1>1. UNCHANGED <<stamp, outbox, dropped, pullVars, hudVars>>
  BY DEF ClockTicks
<1>2. TypeOK'
  <2>1. clock' \in 0..MaxClock /\ clock' = clock + 1
    BY OutboxAssumption DEF IInv, TypeOK, ClockTicks
  <2>2. stamp' \in [Pushers -> 0..clock']
    BY <1>1, <2>1 DEF IInv, TypeOK
  <2> QED BY <1>1, <2>1, <2>2 DEF IInv, TypeOK, pullVars, hudVars
<1>3. Stamped'
  BY <1>1 DEF IInv, Stamped, Pushed
<1> QED BY <1>1, <1>2, <1>3, QuietPart

\* What push_outbox does to the outbox: an item more at its end, and the first one
\* gone if there is no room.
LEMMA PushShape ==
  ASSUME TypeOK, NEW p \in Pushers, Push(p),
         NEW x, x = [ts |-> stamp[p], id |-> p]
  PROVE  /\ x \in Item
         /\ outbox' \in Seq(Item) /\ Len(outbox') <= Capacity
         /\ dropped' \subseteq Item
         /\ Pushed' = Pushed \cup {x}
         /\ dropped \subseteq dropped'
         /\ \E d \in {0, 1} :
              /\ Len(outbox') = Len(outbox) + 1 - d
              /\ d = 1 => dropped' = dropped \cup {outbox[1]} /\ Len(outbox) >= 1
              /\ \A i \in 1 .. Len(outbox') - 1 : outbox'[i] = outbox[i + d]
              /\ outbox'[Len(outbox')] = x
<1> DEFINE longer == Append(outbox, x)
<1>0. Capacity \in Nat /\ Capacity >= 1
  BY OutboxAssumption
<1>1. x \in Item
  BY OutboxAssumption DEF TypeOK, Push, Item
<1>2. outbox \in Seq(Item) /\ Len(outbox) <= Capacity /\ Len(outbox) \in Nat
  BY DEF TypeOK
<1>3. /\ longer \in Seq(Item) /\ Len(longer) = Len(outbox) + 1
      /\ \A i \in 1..Len(outbox) : longer[i] = outbox[i]
      /\ longer[Len(outbox) + 1] = x
  BY <1>1, <1>2
<1>4. CASE Overfull(longer)
  <2>1. outbox' = Tail(longer) /\ dropped' = dropped \cup {Head(longer)}
    BY <1>4 DEF Push
  <2>2. Len(outbox) >= 1
    BY <1>0, <1>2, <1>3, <1>4 DEF Overfull
  <2> HIDE DEF longer
  <2>3. Head(longer) = outbox[1]
    BY <1>3, <2>2
  <2>4. /\ outbox' \in Seq(Item) /\ Len(outbox') = Len(outbox)
        /\ \A i \in 1..Len(outbox) : outbox'[i] = longer[i + 1]
    BY <1>2, <1>3, <2>1
  <2>5. \A i \in 1 .. Len(outbox') - 1 : outbox'[i] = outbox[i + 1]
    BY <1>2, <1>3, <2>4
  <2>6. outbox'[Len(outbox')] = x
    BY <1>2, <1>3, <2>2, <2>4
  <2>7. dropped' \subseteq Item /\ dropped' = dropped \cup {outbox[1]}
    BY <1>2, <2>1, <2>2, <2>3 DEF TypeOK
  <2>8. \A y : (y \in Pushed' <=> y \in Pushed \cup {x})
    <3>1. ASSUME NEW i \in DOMAIN outbox'
          PROVE  outbox'[i] \in Pushed \cup {x}
      <4>1. i \in 1..Len(outbox') /\ Len(outbox') \in Nat
        BY <2>4
      <4>2. CASE i = Len(outbox')
        BY <4>2, <2>6
      <4>3. CASE i # Len(outbox')
        <5>1. i \in 1 .. Len(outbox') - 1 /\ i + 1 \in DOMAIN outbox
          BY <1>2, <2>4, <4>1, <4>3
        <5> QED BY <5>1, <2>5 DEF Pushed
      <4> QED BY <4>2, <4>3
    <3>2. ASSUME NEW i \in DOMAIN outbox
          PROVE  outbox[i] \in Pushed'
      <4>1. CASE i = 1
        BY <4>1, <2>7 DEF Pushed
      <4>2. CASE i # 1
        <5>1. i - 1 \in 1 .. Len(outbox') - 1 /\ (i - 1) + 1 = i /\ i - 1 \in DOMAIN outbox'
          BY <4>2, <1>2, <2>4
        <5>2. outbox[i] = outbox'[i - 1]
          BY <5>1, <2>5
        <5> QED BY <5>1, <5>2 DEF Pushed
      <4> QED BY <4>1, <4>2
    <3>3. x \in Pushed'
      <4>1. Len(outbox') \in DOMAIN outbox' BY <1>2, <2>2, <2>4
      <4> QED BY <4>1, <2>6 DEF Pushed
    <3>4. outbox[1] \in Pushed
      BY <1>2, <2>2 DEF Pushed
    <3> QED BY <3>1, <3>2, <3>3, <3>4, <2>7 DEF Pushed
  <2> QED BY <1>1, <1>2, <2>2, <2>4, <2>5, <2>6, <2>7, <2>8
<1>5. CASE ~Overfull(longer)
  <2>1. outbox' = longer /\ dropped' = dropped
    BY <1>5 DEF Push
  <2>2. Len(longer) <= Capacity
    BY <1>0, <1>2, <1>3, <1>5 DEF Overfull
  <2> HIDE DEF longer
  <2>3. \A y : (y \in Pushed' <=> y \in Pushed \cup {x})
    <3>1. ASSUME NEW i \in DOMAIN outbox' PROVE outbox'[i] \in Pushed \cup {x}
      BY <1>2, <1>3, <2>1 DEF Pushed
    <3>2. ASSUME NEW i \in DOMAIN outbox PROVE outbox[i] \in Pushed'
      <4>1. i \in DOMAIN outbox' /\ outbox'[i] = outbox[i] BY <1>2, <1>3, <2>1
      <4> QED BY <4>1 DEF Pushed
    <3>3. x \in Pushed'
      <4>1. Len(outbox) + 1 \in DOMAIN outbox' BY <1>2, <1>3, <2>1
      <4> QED BY <4>1, <1>3, <2>1 DEF Pushed
    <3> QED BY <3>1, <3>2, <3>3, <2>1 DEF Pushed
  <2>4. /\ Len(outbox') = Len(outbox) + 1 - 0
        /\ \A i \in 1 .. Len(outbox') - 1 : outbox'[i] = outbox[i + 0]
        /\ outbox'[Len(outbox')] = x
    BY <1>2, <1>3, <2>1
  <2> QED BY <1>1, <1>3, <2>1, <2>2, <2>3, <2>4 DEF TypeOK
<1> QED BY <1>4, <1>5

LEMMA PushKeeps ==
  ASSUME IInv, NEW p \in Pushers, Push(p)
  PROVE  IInv'
<1>0. PICK last, x : last = Len(outbox') /\ x = [ts |-> stamp[p], id |-> p]
  OBVIOUS
<1>1. TypeOK /\ Stamped /\ Distinct /\ Known /\ CursorsTrue /\ Ordered
  BY DEF IInv
<1>2. stamp[p] # 0 /\ stamp' = [stamp EXCEPT ![p] = 0] /\ UNCHANGED <<clock, pullVars, hudVars>>
  BY DEF Push
<1>3. x = [ts |-> stamp[p], id |-> p] /\ x.ts = stamp[p] /\ x.id = p
  BY <1>0
<1>4. /\ x \in Item /\ outbox' \in Seq(Item) /\ Len(outbox') <= Capacity
      /\ dropped' \subseteq Item
      /\ Pushed' = Pushed \cup {x} /\ dropped \subseteq dropped'
  BY <1>1, <1>3, PushShape
<1>5. PICK d \in {0, 1} :
        /\ last = Len(outbox) + 1 - d
        /\ d = 1 => dropped' = dropped \cup {outbox[1]} /\ Len(outbox) >= 1
        /\ \A i \in 1 .. last - 1 : outbox'[i] = outbox[i + d]
        /\ outbox'[last] = x
  BY <1>0, <1>1, <1>3, PushShape
<1>6. /\ outbox \in Seq(Item) /\ Len(outbox) \in Nat /\ last \in Nat
      /\ DOMAIN outbox = 1..Len(outbox) /\ DOMAIN outbox' = 1..last
      /\ last >= 1
  <2>1. outbox \in Seq(Item)
    BY <1>1 DEF TypeOK
  <2>2. Len(outbox) \in Nat /\ DOMAIN outbox = 1..Len(outbox)
    BY <2>1
  <2>3. last \in Nat /\ DOMAIN outbox' = 1..last
    BY <1>0, <1>4
  <2>4. last >= 1
    BY <2>2, <2>3, <1>5
  <2> QED BY <2>1, <2>2, <2>3, <2>4
<1>7. Pushed \subseteq Item /\ Item \subseteq Key /\ x \in Key
      /\ \A q \in Pullers : \A k \in DOMAIN pull[q].items : pull[q].items[k] \in Item
  BY <1>1, <1>4, Typed
<1>8. TypeOK'
  <2>1. stamp' \in [Pushers -> 0..clock]
    BY <1>1, <1>2, OutboxAssumption DEF TypeOK
  <2> QED BY <1>1, <1>2, <1>4, <2>1 DEF TypeOK, pullVars, hudVars
<1>9. Stamped'
  <2>1. ASSUME NEW q \in Pushers, stamp'[q] # 0
        PROVE  q # p /\ stamp'[q] = stamp[q]
    BY <1>1, <1>2, <2>1 DEF TypeOK
  <2> QED BY <2>1, <1>1, <1>3, <1>4 DEF Stamped
<1>10. \A i \in 1 .. last - 1 : i + d \in DOMAIN outbox /\ outbox'[i] = outbox[i + d]
  BY <1>5, <1>6
<1>11. \A i \in DOMAIN outbox : outbox[i] \in Pushed /\ outbox[i] # x
  <2>1. ASSUME NEW i \in DOMAIN outbox PROVE outbox[i] \in Pushed
    BY DEF Pushed
  <2>2. stamp[p] \in Nat
    BY <1>1 DEF TypeOK
  <2>3. ASSUME NEW y \in Pushed PROVE y # x
    <3>1. y.id = p => y.ts < stamp[p]
      BY <1>1, <1>2 DEF Stamped
    <3>2. ~(stamp[p] < stamp[p])
      BY <2>2
    <3> QED BY <3>1, <3>2, <1>3
  <2> QED BY <2>1, <2>3
<1>12. Distinct'
  <2>1. ASSUME NEW i \in 1..last, NEW j \in 1..last, i # j
        PROVE  outbox'[i] # outbox'[j]
    <3>1. CASE i = last
      <4>1. j \in 1 .. last - 1 BY <3>1, <2>1, <1>6
      <4> QED BY <4>1, <3>1, <1>5, <1>10, <1>11
    <3>2. CASE j = last
      <4>1. i \in 1 .. last - 1 BY <3>2, <2>1, <1>6
      <4> QED BY <4>1, <3>2, <1>5, <1>10, <1>11
    <3>3. CASE i # last /\ j # last
      <4>1. i \in 1 .. last - 1 /\ j \in 1 .. last - 1 BY <3>3, <1>6
      <4>2. i + d # j + d BY <2>1, <1>5, <1>6
      <4> QED BY <4>1, <4>2, <1>1, <1>10 DEF Distinct
    <3> QED BY <3>1, <3>2, <3>3
  <2> QED BY <2>1, <1>6 DEF Distinct
<1>13. Known'
  BY <1>1, <1>2, <1>4 DEF Known, Asked, pullVars, hudVars
\* Who is in place now was so before.
<1>14. ASSUME NEW i \in 1 .. last - 1, InPlace(i)'
       PROVE  InPlace(i + d)
  <2>1. ASSUME NEW j \in 1 .. (i + d) - 1
        PROVE  Later(outbox[i + d], outbox[j])
    <3>1. CASE j - d \in 1 .. i - 1
      <4>1. j - d \in 1 .. last - 1 /\ (j - d) + d = j BY <3>1, <1>5, <1>6
      <4>2. outbox'[j - d] = outbox[j] BY <4>1, <1>10
      <4> QED BY <3>1, <4>2, <1>10, <1>14 DEF InPlace
    <3>2. CASE j - d \notin 1 .. i - 1
      <4>1. d = 1 /\ j = 1 BY <3>2, <1>5, <1>6
      <4> QED BY <4>1, <1>5, <1>10, <1>14 DEF InPlace
    <3> QED BY <3>1, <3>2
  <2>2. ASSUME NEW y \in dropped
        PROVE  Later(outbox[i + d], y)
    BY <1>4, <1>10, <1>14 DEF InPlace
  <2> QED BY <2>1, <2>2 DEF InPlace
<1>15. ASSUME InPlace(last)', NEW y \in Pushed
       PROVE  Later(x, y)
  <2>1. CASE y \in dropped
    BY <2>1, <1>4, <1>5, <1>15 DEF InPlace
  <2>2. ASSUME NEW k \in DOMAIN outbox, y = outbox[k]
        PROVE  Later(x, y)
    <3>1. CASE k - d \in 1 .. last - 1
      <4>1. (k - d) + d = k BY <1>5, <1>6
      <4>2. outbox'[k - d] = outbox[k] BY <3>1, <4>1, <1>10
      <4> QED BY <3>1, <4>2, <2>2, <1>5, <1>15 DEF InPlace
    <3>2. CASE k - d \notin 1 .. last - 1
      <4>1. d = 1 /\ k = 1 BY <3>2, <1>5, <1>6
      <4> QED BY <4>1, <2>2, <1>5, <1>15 DEF InPlace
    <3> QED BY <3>1, <3>2
  <2> QED BY <2>1, <2>2 DEF Pushed
<1>16. notices' = notices /\ cursor' = cursor /\ pull' = pull /\ overlap' = overlap
       /\ hud' = hud /\ lost' = lost
       /\ slips' = slips
  BY <1>2 DEF pullVars, hudVars
<1>17. ASSUME NEW c \in Pushed \cup {Start}, Truthful(c)
       PROVE  Truthful(c)'
  <2> SUFFICES ASSUME NEW i \in 1..last, InPlace(i)', ~Later(outbox'[i], c)
               PROVE  Written(outbox'[i])
    BY <1>6, <1>16 DEF Truthful, Written
  <2>1. CASE i = last
    BY <2>1, <1>4, <1>5, <1>15, LaterThanStart
  <2>2. CASE i # last
    <3>1. i \in 1 .. last - 1 BY <2>2, <1>6
    <3> QED BY <3>1, <1>10, <1>14, <1>17 DEF Truthful
  <2> QED BY <2>1, <2>2
<1>18. CursorsTrue'
  <2>1. Truthful(cursor)'
    <3>1. cursor \in Pushed \cup {Start} /\ Truthful(cursor)
      BY <1>1 DEF Known, CursorsTrue
    <3> QED BY <3>1, <1>16, <1>17 DEF Truthful
  <2>2. ASSUME NEW q \in Pullers PROVE Truthful(pull[q].cursor)'
    <3>1. pull[q].cursor \in Pushed \cup {Start} /\ Truthful(pull[q].cursor)
      BY <1>1 DEF Known, CursorsTrue
    <3> QED BY <3>1, <1>16, <1>17 DEF Truthful
  <2> QED BY <2>1, <2>2, <1>16 DEF CursorsTrue, Truthful
<1>19. Ordered'
  <2> SUFFICES ASSUME NEW q \in Pullers, NEW i \in 1..last, InPlace(i)',
                      ~(Written(outbox'[i])), NEW k \in DOMAIN pull[q].items
               PROVE  Comes(outbox'[i], pull[q].items, k)
    BY <1>6, <1>16 DEF Ordered, Comes, Written
  <2>1. CASE i = last
    <3>1. pull[q].items[k] \in Pushed BY <1>1 DEF Known
    <3> QED BY <2>1, <3>1, <1>5, <1>15 DEF Comes
  <2>2. CASE i # last
    <3>1. i \in 1 .. last - 1 BY <2>2, <1>6
    <3> QED BY <3>1, <1>1, <1>10, <1>14 DEF Ordered
  <2> QED BY <2>1, <2>2
<1>20. ~overlap' => Single'
  BY <1>16 DEF IInv, Single, Told, Fresh, FreshIn, Asked
<1> QED BY <1>8, <1>9, <1>12, <1>13, <1>18, <1>19, <1>20 DEF IInv

-----------------------------------------------------------------------------
(* The laptop's steps: the node stands still. *)

LEMMA NodeStands ==
  ASSUME nodeVars' = nodeVars
  PROVE  /\ Stamped' = Stamped /\ Distinct' = Distinct /\ Pushed' = Pushed
         /\ outbox' = outbox
         /\ \A i : InPlace(i)' <=> InPlace(i)
<1>1. clock' = clock /\ stamp' = stamp /\ outbox' = outbox /\ dropped' = dropped
  BY DEF nodeVars
<1> QED BY <1>1 DEF Stamped, Distinct, Pushed, InPlace

\* What stays of the order of things where no notice is written.
LEMMA Remains ==
  ASSUME IInv, nodeVars' = nodeVars, hud' = hud, lost' = lost
  PROVE  /\ Stamped' /\ Distinct'
         /\ \A c : Truthful(c) => Truthful(c)'
         /\ \A p \in Pullers : pull'[p] = pull[p] =>
              \A i \in DOMAIN outbox : InPlace(i) =>
                \/ Written(outbox[i])
                \/ \A k \in DOMAIN pull'[p].items : Comes(outbox[i], pull'[p].items, k)
<1>1. Stamped /\ Distinct /\ Ordered
  BY DEF IInv
<1>2. Stamped' /\ Distinct'
  BY <1>1, NodeStands
<1>3. ASSUME NEW c, Truthful(c) PROVE Truthful(c)'
  BY <1>3, NodeStands DEF Truthful, Written
<1> QED BY <1>1, <1>2, <1>3 DEF Ordered

LEMMA EmptyAnswer == <<>> \in Answers /\ DOMAIN <<>> = {}
<1>1. <<>> \in [{} -> Item] BY DEF Item
<1> QED BY <1>1 DEF Answers

LEMMA Stages ==
  ASSUME NEW c, NEW items
  PROVE  /\ Idle.pc = "idle" /\ Idle.cursor = Start /\ Idle.items = <<>>
         /\ Asking(c).pc = "get" /\ Asking(c).cursor = c /\ Asking(c).items = <<>>
         /\ Appending(c, items).pc = "append"
         /\ Appending(c, items).cursor = c /\ Appending(c, items).items = items
         /\ Idle # Asking(c) /\ Idle # Appending(c, items)
BY DEF Idle, Asking, Appending

PullStates == [pc : {"idle", "get", "append"}, cursor : Key, items : Answers]

LEMMA StageTypes ==
  ASSUME NEW c \in Key, NEW items \in Answers
  PROVE  Idle \in PullStates /\ Asking(c) \in PullStates /\ Appending(c, items) \in PullStates
BY EmptyAnswer DEF Idle, Asking, Appending, PullStates, Key

\* A pull that was put at a stage; the others are where they were.
LEMMA PullSet ==
  ASSUME TypeOK, NEW p \in Pullers, NEW s, pull' = [pull EXCEPT ![p] = s]
  PROVE  /\ pull'[p] = s
         /\ \A q \in Pullers : q # p => pull'[q] = pull[q]
         /\ s \in PullStates => pull' \in [Pullers -> PullStates]
BY DEF TypeOK, PullStates

\* Where a pull goes to a stage at which nothing of an answer is left.
LEMMA Emptied ==
  ASSUME IInv, NEW p \in Pullers, NEW s, pull' = [pull EXCEPT ![p] = s],
         nodeVars' = nodeVars, hudVars' = hudVars, notices' \in [Item -> Nat],
         s \in PullStates, s.items = <<>>,
         s.cursor \in Pushed \cup {Start}, Truthful(s.cursor),
         cursor' \in Pushed \cup {Start}, Truthful(cursor'),
         overlap' \in BOOLEAN, slips' \in 0..MaxSlips
  PROVE  TypeOK' /\ Stamped' /\ Distinct' /\ Known' /\ CursorsTrue' /\ Ordered'
<1>1. TypeOK /\ Known /\ CursorsTrue
  BY DEF IInv
<1>2. pull'[p] = s /\ (\A q \in Pullers : q # p => pull'[q] = pull[q])
      /\ pull' \in [Pullers -> PullStates]
  BY <1>1, PullSet
<1>3. Pushed \subseteq Key /\ Start \in Key
  BY <1>1, Typed DEF Key
<1>4. TypeOK'
  BY <1>1, <1>2, <1>3 DEF TypeOK, PullStates, nodeVars, hudVars
<1>5. DOMAIN pull'[p].items = {}
  BY <1>2, EmptyAnswer
<1>6. Known'
  <2>1. ASSUME NEW q \in Pullers
        PROVE  /\ pull'[q].cursor \in Pushed \cup {Start}
               /\ \A k \in DOMAIN pull'[q].items : pull'[q].items[k] \in Pushed
               /\ ~Asked(q)' => DOMAIN pull'[q].items = {}
    BY <1>1, <1>2, <1>5 DEF Known, Asked
  <2> QED BY <2>1, NodeStands DEF Known
<1>7. CursorsTrue'
  <2>1. ASSUME NEW q \in Pullers PROVE Truthful(pull'[q].cursor)
    BY <1>1, <1>2 DEF CursorsTrue
  <2>2. outbox' = outbox /\ \A i : InPlace(i)' <=> InPlace(i)
    BY NodeStands
  <2> QED BY <2>1, <2>2 DEF CursorsTrue, Truthful, Written, hudVars
<1>8. Ordered'
  <2>1. ASSUME NEW q \in Pullers, NEW i \in DOMAIN outbox, InPlace(i)
        PROVE  \/ Written(outbox[i])
               \/ \A k \in DOMAIN pull'[q].items : Comes(outbox[i], pull'[q].items, k)
    BY <2>1, <1>2, <1>5, Remains DEF hudVars
  <2> QED BY <2>1, NodeStands DEF Ordered, Comes, Written, hudVars
<1> QED BY <1>4, <1>6, <1>7, <1>8, Remains DEF hudVars

LEMMA LoadKeeps ==
  ASSUME IInv, NEW p \in Pullers, LoadCursor(p)
  PROVE  IInv'
<1>1. TypeOK /\ Known /\ CursorsTrue
  BY DEF IInv
<1>2. PICK c \in CursorFile({q \in Pullers : Pulled(q)}) : pull' = [pull EXCEPT ![p] = Asking(c)]
  BY DEF LoadCursor
<1>3. /\ nodeVars' = nodeVars /\ cursor' = cursor /\ hudVars' = hudVars
      /\ slips' = slips /\ pull[p] = Idle
      /\ overlap' = (overlap \/ \E q \in Pullers : pull[q] # Idle)
      /\ notices' = [x \in Item |-> IF overlap' THEN 0 ELSE notices[x]]
  BY DEF LoadCursor
<1>4. /\ c \in Pushed \cup {Start} /\ Truthful(c) /\ c \in Key
      /\ cursor \in Pushed \cup {Start} /\ Truthful(cursor)
  <2>1. cursor \in Pushed \cup {Start} /\ Truthful(cursor) /\ cursor \in Key
    BY <1>1 DEF Known, CursorsTrue, TypeOK
  <2>2. Truthful(Start) /\ Start \in Key
    BY <1>1, LaterThanStart, Typed DEF Truthful, Key
  <2>3. c = cursor \/ c = Start
    BY <1>2 DEF CursorFile
  <2> QED BY <2>1, <2>2, <2>3
<1>5. Asking(c) \in PullStates /\ Asking(c).items = <<>>
      /\ Asking(c).cursor = c /\ Asking(c).pc = "get"
  BY <1>4, Stages, StageTypes, EmptyAnswer
<1>6. overlap' \in BOOLEAN /\ notices' \in [Item -> Nat] /\ slips' \in 0..MaxSlips
  BY <1>1, <1>3 DEF TypeOK
<1>7. TypeOK' /\ Stamped' /\ Distinct' /\ Known' /\ CursorsTrue' /\ Ordered'
  BY <1>2, <1>3, <1>4, <1>5, <1>6, Emptied
<1>8. ASSUME ~overlap' PROVE Single'
  <2>1. ~overlap /\ \A q \in Pullers : pull[q] = Idle
    BY <1>3, <1>8
  <2>2. Single
    BY <2>1 DEF IInv
  <2>3. c = cursor
    BY <1>2, <2>1, Stages DEF CursorFile, Pulled
  <2>4. pull'[p] = Asking(c) /\ \A q \in Pullers : q # p => pull'[q] = Idle
    BY <1>1, <1>2, <2>1, PullSet
  <2>5. \A q \in Pullers : pull'[q].pc # "append" /\ (q # p => pull'[q].pc = "idle")
    BY <1>5, <2>4, Stages
  <2>6. \A x \in Item : notices'[x] = notices[x]
    BY <1>3, <1>8
  <2>7. \A x \in Item : Later(x, cursor) => notices[x] <= slips
    BY <2>1, <2>2, Stages DEF Single, Fresh, Asked
  <2>8. \A q \in Pullers : pull'[q].pc = "get" => pull'[q].cursor = cursor
    BY <1>5, <2>3, <2>4, <2>5
  <2>9. \A x \in Item : notices[x] <= 1 + slips
    BY <2>2 DEF Single, Told
  <2> QED BY <1>3, <2>4, <2>5, <2>6, <2>7, <2>8, <2>9 DEF Single, Told, Fresh, Asked
<1> QED BY <1>7, <1>8 DEF IInv

\* The answer the node gives: what is later than the cursor, each item at its place.
LEMMA SinceIs ==
  ASSUME TypeOK, NEW c
  PROVE  /\ Since(c) \in Answers
         /\ DOMAIN Since(c) \subseteq DOMAIN outbox
         /\ \A i \in DOMAIN outbox : i \in DOMAIN Since(c) <=> Later(outbox[i], c)
         /\ \A i \in DOMAIN Since(c) : Since(c)[i] = outbox[i]
<1> DEFINE D == {j \in DOMAIN outbox : Later(outbox[j], c)}
<1>1. Since(c) = [i \in D |-> outbox[i]]
  BY DEF Since
<1>2. D \subseteq 1..Capacity
  <2>1. DOMAIN outbox = 1..Len(outbox) /\ Len(outbox) \in Nat /\ Len(outbox) <= Capacity
    BY DEF TypeOK
  <2> QED BY <2>1, OutboxAssumption
<1>3. \A i \in D : outbox[i] \in Item
  BY Typed
<1>4. Since(c) \in [D -> Item]
  BY <1>1, <1>3
<1>5. Since(c) \in Answers
  BY <1>2, <1>4 DEF Answers
<1> QED BY <1>1, <1>5

LEMMA GetKeeps ==
  ASSUME IInv, NEW p \in Pullers, Get(p)
  PROVE  IInv'
<1> DEFINE c == pull[p].cursor
           s == Appending(c, Since(c))
<1>1. TypeOK /\ Known /\ CursorsTrue /\ Ordered /\ Distinct
  BY DEF IInv
<1>2. /\ nodeVars' = nodeVars /\ cursor' = cursor /\ notices' = notices /\ hudVars' = hudVars
      /\ slips' = slips /\ overlap' = overlap /\ pull[p].pc = "get"
      /\ pull' = [pull EXCEPT ![p] = s] \/ pull' = [pull EXCEPT ![p] = Idle]
  BY DEF Get
<1>3. c \in Pushed \cup {Start} /\ Truthful(c) /\ c \in Key
      /\ cursor \in Pushed \cup {Start} /\ Truthful(cursor)
  BY <1>1, Typed DEF Known, CursorsTrue
<1>4. overlap' \in BOOLEAN /\ notices' \in [Item -> Nat] /\ slips' \in 0..MaxSlips
  BY <1>1, <1>2 DEF TypeOK
<1>5. ASSUME ~overlap
      PROVE  /\ Single /\ \A q \in Pullers : q # p => pull[q] = Idle
             /\ \A q \in Pullers : pull[q].pc # "append"
             /\ c = cursor
             /\ \A x \in Item : Later(x, cursor) => notices[x] <= slips
             /\ \A x \in Item : notices[x] <= 1 + slips
  <2>1. Single
    BY <1>5 DEF IInv
  <2>2. pull[p] # Idle
    BY <1>2, Stages
  <2>3. \A q \in Pullers : q # p => pull[q] = Idle
    BY <2>1, <2>2 DEF Single
  <2>4. \A q \in Pullers : pull[q].pc # "append"
    BY <1>2, <2>3, Stages
  <2>5. c = cursor
    BY <1>2, <2>1 DEF Single
  <2>6. \A x \in Item : Later(x, cursor) => notices[x] <= slips
    BY <2>1, <2>4 DEF Single, Fresh, Asked
  <2> QED BY <2>1, <2>3, <2>4, <2>5, <2>6 DEF Single, Told
<1>6. CASE pull' = [pull EXCEPT ![p] = Idle]
  <2>1. Idle \in PullStates /\ Idle.items = <<>> /\ Idle.cursor = Start /\ Idle.pc = "idle"
    BY <1>3, EmptyAnswer, Stages, StageTypes
  <2>2. Truthful(Start)
    BY <1>1, LaterThanStart, Typed DEF Truthful
  <2>3. TypeOK' /\ Stamped' /\ Distinct' /\ Known' /\ CursorsTrue' /\ Ordered'
    BY <1>2, <1>3, <1>4, <1>6, <2>1, <2>2, Emptied
  <2>4. ASSUME ~overlap PROVE Single'
    <3>1. pull'[p] = Idle /\ \A q \in Pullers : q # p => pull'[q] = pull[q]
      BY <1>1, <1>6, PullSet
    <3>2. \A q \in Pullers : pull'[q] = Idle
      BY <3>1, <1>5, <2>4
    <3>3. \A q \in Pullers : pull'[q].pc = "idle"
      BY <3>2, <2>1
    <3> QED BY <1>2, <1>5, <2>4, <3>2, <3>3 DEF Single, Told, Fresh, Asked
  <2> QED BY <1>2, <2>3, <2>4 DEF IInv
<1>7. CASE pull' = [pull EXCEPT ![p] = s]
  <2>1. /\ Since(c) \in Answers
        /\ DOMAIN Since(c) \subseteq DOMAIN outbox
        /\ \A i \in DOMAIN outbox : i \in DOMAIN Since(c) <=> Later(outbox[i], c)
        /\ \A i \in DOMAIN Since(c) : Since(c)[i] = outbox[i]
    BY <1>1, SinceIs
  <2>2. s \in PullStates /\ s.pc = "append" /\ s.cursor = c /\ s.items = Since(c)
    BY <1>3, <2>1, Stages, StageTypes
  <2>3. pull'[p] = s /\ (\A q \in Pullers : q # p => pull'[q] = pull[q])
        /\ pull' \in [Pullers -> PullStates]
    BY <1>1, <1>7, <2>2, PullSet
  <2> HIDE DEF s, c
  <2>4. TypeOK'
    BY <1>1, <1>2, <1>4, <2>3 DEF TypeOK, PullStates, nodeVars, hudVars
  <2>5. \A k \in DOMAIN Since(c) : Since(c)[k] \in Pushed
    BY <2>1 DEF Pushed
  <2>6. Known'
    <3>1. ASSUME NEW q \in Pullers
          PROVE  /\ pull'[q].cursor \in Pushed \cup {Start}
                 /\ \A k \in DOMAIN pull'[q].items : pull'[q].items[k] \in Pushed
                 /\ ~Asked(q)' => DOMAIN pull'[q].items = {}
      BY <1>1, <1>3, <2>2, <2>3, <2>5 DEF Known, Asked
    <3> QED BY <1>2, <1>3, <3>1, NodeStands DEF Known
  <2>7. outbox' = outbox /\ \A i : InPlace(i)' <=> InPlace(i)
    BY <1>2, NodeStands
  <2>8. CursorsTrue'
    <3>1. ASSUME NEW q \in Pullers PROVE Truthful(pull'[q].cursor)
      BY <1>1, <1>3, <2>2, <2>3 DEF CursorsTrue
    <3> QED BY <1>2, <1>3, <2>7, <3>1 DEF CursorsTrue, Truthful, Written, hudVars
  <2>9. ASSUME NEW i \in DOMAIN outbox, InPlace(i), ~(Written(outbox[i])),
               NEW k \in DOMAIN Since(c)
        PROVE  Comes(outbox[i], Since(c), k)
    <3>1. Later(outbox[i], c)
      BY <1>3, <2>9 DEF Truthful
    <3>2. i \in DOMAIN Since(c) /\ Since(c)[i] = outbox[i]
      BY <2>1, <3>1
    <3>3. i \in Nat /\ k \in Nat /\ Since(c)[k] = outbox[k]
      <4>1. DOMAIN outbox = 1..Len(outbox) /\ Len(outbox) \in Nat
        BY <1>1 DEF TypeOK
      <4> QED BY <2>1, <4>1
    <3>4. CASE i <= k
      BY <3>2, <3>4 DEF Comes
    <3>5. CASE ~(i <= k)
      <4>1. k \in 1 .. i - 1
        <5>1. k \in 1..Len(outbox) BY <1>1, <2>1 DEF TypeOK
        <5> QED BY <5>1, <3>3, <3>5
      <4> QED BY <4>1, <2>9, <3>3 DEF InPlace, Comes
    <3> QED BY <3>4, <3>5
  <2>10. Ordered'
    <3>1. ASSUME NEW q \in Pullers, NEW i \in DOMAIN outbox, InPlace(i)
          PROVE  \/ Written(outbox[i])
                 \/ \A k \in DOMAIN pull'[q].items : Comes(outbox[i], pull'[q].items, k)
      <4>1. CASE q = p
        BY <2>2, <2>3, <2>9, <3>1, <4>1
      <4>2. CASE q # p
        BY <1>1, <2>3, <3>1, <4>2 DEF Ordered
      <4> QED BY <4>1, <4>2
    <3> QED BY <1>2, <2>7, <3>1 DEF Ordered, Comes, Written, hudVars
  <2>11. ASSUME ~overlap PROVE Single'
    <3>1. c = cursor /\ (\A x \in Item : Later(x, cursor) => notices[x] <= slips)
          /\ (\A x \in Item : notices[x] <= 1 + slips)
          /\ \A q \in Pullers : q # p => pull'[q] = Idle
      BY <1>5, <2>3, <2>11
    <3>2. \A q \in Pullers : q # p => pull'[q].pc = "idle"
      BY <3>1, Stages
    <3>3. \A k \in DOMAIN Since(c) : Later(Since(c)[k], cursor) /\ Since(c)[k] \in Item
      BY <1>1, <2>1, <3>1, Typed
    <3>4. \A k, l \in DOMAIN Since(c) : k # l => Since(c)[k] # Since(c)[l]
      BY <1>1, <2>1 DEF Distinct
    <3>5. FreshIn(p)'
      BY <1>2, <2>2, <2>3, <3>1, <3>3, <3>4 DEF FreshIn, Fresh
    <3>6. Asked(p)' /\ pull'[p].pc # "get"
      BY <2>2, <2>3 DEF Asked
    <3>7. \A q \in Pullers : Asked(q)' => q = p
      BY <3>2 DEF Asked
    <3> QED BY <1>2, <3>1, <3>2, <3>5, <3>6, <3>7 DEF Single, Told
  <2>12. Stamped' /\ Distinct'
    BY <1>2, Remains DEF hudVars
  <2> QED BY <1>2, <2>4, <2>6, <2>8, <2>10, <2>11, <2>12 DEF IInv
<1> QED BY <1>2, <1>6, <1>7

\* What a write makes of the HUD file: what was written stays so, and what it adds is.
LEMMA WritesDo ==
  ASSUME TypeOK, NEW w \in Writer, NEW new \in SUBSET Item, Writes(w, new)
  PROVE  /\ hud' \subseteq Item /\ lost' \subseteq Item /\ writing' \subseteq Writer
         /\ draft' \in [Writer -> SUBSET Item] /\ clash' \in BOOLEAN
         /\ hud \cup lost \cup new \subseteq hud' \cup lost'
<1>1. /\ hud \subseteq Item /\ lost \subseteq Item /\ writing \subseteq Writer
      /\ draft \in [Writer -> SUBSET Item] /\ clash \in BOOLEAN
      /\ \A v \in writing : draft[v] \subseteq Item
  BY DEF TypeOK
<1>2. hud' \subseteq Item
  BY <1>1 DEF Writes
<1>3. lost' \subseteq Item /\ writing' \subseteq Writer /\ clash' \in BOOLEAN
  BY <1>1 DEF Writes
<1>4. draft' \in [Writer -> SUBSET Item]
  BY <1>1 DEF Writes
<1>5. hud \cup lost \cup new \subseteq hud' \cup lost'
  BY DEF Writes
<1> QED BY <1>2, <1>3, <1>4, <1>5

LEMMA ReadsDo ==
  ASSUME TypeOK, NEW w \in Writer, NEW new \in SUBSET Item, Reads(w, new)
  PROVE  /\ hud' = hud /\ lost' = lost /\ writing' \subseteq Writer
         /\ draft' \in [Writer -> SUBSET Item] /\ clash' \in BOOLEAN
<1>1. draft \in [Writer -> SUBSET Item] /\ hud \cup new \in SUBSET Item /\ clash \in BOOLEAN
      /\ writing \subseteq Writer
  BY DEF TypeOK
<1> QED BY <1>1 DEF Reads

\* Where only the HUD file is at stake, and nothing that was written is forgotten.
LEMMA HudOnly ==
  ASSUME IInv, nodeVars' = nodeVars, pullVars' = pullVars,
         hud' \subseteq Item, lost' \subseteq Item, writing' \subseteq Writer,
         draft' \in [Writer -> SUBSET Item], clash' \in BOOLEAN,
         hud \cup lost \subseteq hud' \cup lost'
  PROVE  IInv'
<1>1. TypeOK /\ Stamped /\ Distinct /\ Known /\ CursorsTrue /\ Ordered /\ (~overlap => Single)
  BY DEF IInv
<1>2. /\ cursor' = cursor /\ pull' = pull /\ notices' = notices
      /\ overlap' = overlap /\ slips' = slips
  BY DEF pullVars
<1>3. TypeOK'
  BY <1>1, <1>2 DEF TypeOK, nodeVars
<1>4. /\ Stamped' /\ Distinct' /\ Pushed' = Pushed /\ outbox' = outbox
      /\ \A i : InPlace(i)' <=> InPlace(i)
  BY <1>1, NodeStands
<1>5. Known' /\ (~overlap' => Single')
  BY <1>1, <1>2, <1>4 DEF Known, Asked, Single, Told, Fresh, FreshIn
<1>6. ASSUME NEW i, Written(outbox[i]) PROVE Written(outbox[i])'
  BY <1>4, <1>6 DEF Written
<1>7. ASSUME NEW d, Truthful(d) PROVE Truthful(d)'
  BY <1>4, <1>6, <1>7 DEF Truthful
<1>8. CursorsTrue'
  <2>1. Truthful(cursor)'
    BY <1>1, <1>2, <1>7 DEF CursorsTrue, Truthful
  <2>2. ASSUME NEW q \in Pullers PROVE Truthful(pull[q].cursor)'
    BY <1>1, <1>2, <1>7 DEF CursorsTrue, Truthful
  <2> QED BY <1>2, <2>1, <2>2 DEF CursorsTrue, Truthful
<1>9. Ordered'
  BY <1>1, <1>2, <1>4, <1>6 DEF Ordered, Comes
<1> QED BY <1>3, <1>4, <1>5, <1>8, <1>9 DEF IInv

LEMMA ChatKeeps ==
  ASSUME IInv, ChatReads \/ ChatWrites
  PROVE  IInv'
<1>1. TypeOK /\ "chat" \in Writer /\ {} \in SUBSET Item
  BY DEF IInv, Writer
<1>2. CASE ChatReads
  <2>1. Reads("chat", {}) /\ nodeVars' = nodeVars /\ pullVars' = pullVars
    BY <1>2 DEF ChatReads
  <2>2. hud \subseteq Item /\ lost \subseteq Item
    BY <1>1 DEF TypeOK
  <2> QED BY <1>1, <2>1, <2>2, ReadsDo, HudOnly
<1>3. CASE ChatWrites
  <2>1. Writes("chat", {}) /\ nodeVars' = nodeVars /\ pullVars' = pullVars
    BY <1>3 DEF ChatWrites
  <2> QED BY <1>1, <2>1, WritesDo, HudOnly
<1> QED BY <1>2, <1>3

LEMMA ReadHudKeeps ==
  ASSUME IInv, NEW p \in Pullers, ReadHud(p)
  PROVE  IInv'
<1>1. TypeOK /\ p \in Writer
  BY DEF IInv, Writer
<1>2. PICK i \in 1..Capacity : IsFirst(p, i) /\ Reads(p, {pull[p].items[i]})
  BY DEF ReadHud
<1>3. {pull[p].items[i]} \in SUBSET Item
  BY <1>1, <1>2, Typed DEF IsFirst
<1>4. nodeVars' = nodeVars /\ pullVars' = pullVars /\ hud \subseteq Item /\ lost \subseteq Item
  BY <1>1 DEF ReadHud, TypeOK
<1> QED BY <1>1, <1>2, <1>3, <1>4, ReadsDo, HudOnly

LEMMA AppendKeeps ==
  ASSUME IInv, NEW p \in Pullers, AppendNotice(p)
  PROVE  IInv'
<1>1. TypeOK /\ Known /\ CursorsTrue /\ Ordered /\ Stamped /\ Distinct
  BY DEF IInv
<1>2. pull[p].pc = "append" /\ nodeVars' = nodeVars /\ cursor' = cursor
      /\ overlap' = overlap /\ slips' = slips
  BY DEF AppendNotice, IsFirst
<1> DEFINE items == pull[p].items
           c == pull[p].cursor
<1>3. items = pull[p].items /\ c = pull[p].cursor
  OBVIOUS
<1>4. PICK i \in DOMAIN items :
        /\ \A j \in DOMAIN items \ {i} : i < j
        /\ Writes(p, {items[i]})
        /\ notices' = IF overlap THEN notices ELSE [notices EXCEPT ![items[i]] = @ + 1]
        /\ pull' = [pull EXCEPT ![p] =
             Appending(AdvancedCursor(@.cursor, items[i]),
                       [j \in DOMAIN items \ {i} |-> items[j]])]
  BY DEF AppendNotice, IsFirst
<1> HIDE DEF items, c
<1>5. PICK x, left, rest, nc :
        /\ x = items[i] /\ left = DOMAIN items \ {i}
        /\ rest = [j \in left |-> items[j]] /\ nc = AdvancedCursor(c, x)
  OBVIOUS
<1>6. /\ pull' = [pull EXCEPT ![p] = Appending(nc, rest)]
      /\ DOMAIN rest = left /\ \A j \in left : rest[j] = items[j]
  BY <1>3, <1>4, <1>5
<1>7. /\ \A k \in DOMAIN items : k \in 1..Capacity /\ items[k] \in Item /\ items[k] \in Pushed
      /\ x \in Item /\ x \in Pushed /\ c \in Key /\ c \in Pushed \cup {Start} /\ Truthful(c)
      /\ cursor \in Pushed \cup {Start} /\ Truthful(cursor)
  BY <1>1, <1>3, <1>4, <1>5, Typed DEF Known, CursorsTrue
<1>8. nc \in {c, x} /\ nc \in Key /\ nc \in Pushed \cup {Start}
      /\ \A y \in Item : Later(y, nc) => Later(y, c) /\ Later(y, x)
  BY <1>5, <1>7, Advances DEF Key
<1>9. Capacity \in Nat
  BY OutboxAssumption
<1>10. /\ notices' \in [Item -> Nat]
       /\ ~overlap => /\ \A y \in Item : y # x => notices'[y] = notices[y]
                      /\ notices'[x] = notices[x] + 1
       /\ \A y \in Item : notices[y] \in Nat
  BY <1>1, <1>4, <1>5, <1>7 DEF TypeOK
<1>25. /\ hud' \subseteq Item /\ lost' \subseteq Item /\ writing' \subseteq Writer
       /\ draft' \in [Writer -> SUBSET Item] /\ clash' \in BOOLEAN
       /\ hud \cup lost \cup {x} \subseteq hud' \cup lost'
  <2>1. Writes(p, {x}) /\ {x} \in SUBSET Item /\ p \in Writer
    BY <1>4, <1>5, <1>7 DEF Writer
  <2> QED BY <1>1, <2>1, WritesDo
<1>11. rest \in Answers
  <2>1. left \subseteq 1..Capacity /\ \A j \in left : items[j] \in Item
    BY <1>5, <1>7
  <2>2. rest \in [left -> Item]
    BY <1>5, <2>1
  <2> QED BY <2>1, <2>2 DEF Answers
<1>12. /\ pull'[p].pc = "append" /\ pull'[p].cursor = nc /\ pull'[p].items = rest
       /\ \A q \in Pullers : q # p => pull'[q] = pull[q]
       /\ pull' \in [Pullers -> PullStates]
  <2>1. Appending(nc, rest) \in PullStates
    BY <1>8, <1>11, StageTypes
  <2>2. PICK s : s = Appending(nc, rest)
    OBVIOUS
  <2>3. s.pc = "append" /\ s.cursor = nc /\ s.items = rest
    BY <2>2, Stages
  <2> QED BY <1>1, <1>6, <2>1, <2>2, <2>3, PullSet
<1>13. TypeOK'
  BY <1>1, <1>2, <1>10, <1>12, <1>25 DEF TypeOK, PullStates, nodeVars
<1>14. /\ outbox' = outbox /\ Stamped' /\ Distinct' /\ Pushed' = Pushed
       /\ \A k : InPlace(k)' <=> InPlace(k)
  BY <1>1, <1>2, NodeStands
<1>15. Known'
  <2>1. ASSUME NEW q \in Pullers
        PROVE  /\ pull'[q].cursor \in Pushed \cup {Start}
               /\ \A k \in DOMAIN pull'[q].items : pull'[q].items[k] \in Pushed
               /\ ~Asked(q)' => DOMAIN pull'[q].items = {}
    <3>1. CASE q = p
      BY <1>5, <1>6, <1>7, <1>8, <1>12, <3>1 DEF Asked
    <3>2. CASE q # p
      BY <1>1, <1>12, <3>2 DEF Known, Asked
    <3> QED BY <3>1, <3>2
  <2> QED BY <1>2, <1>7, <1>14, <2>1 DEF Known
\* An item that was told stays told.
<1>16. \A k \in DOMAIN outbox : outbox[k] \in Item
         /\ (Written(outbox[k]) => Written(outbox[k])')
  <2>1. \A k \in DOMAIN outbox : outbox[k] \in Item
    BY <1>1, Typed
  <2> QED BY <1>14, <1>25, <2>1 DEF Written
<1>17. ASSUME NEW d, Truthful(d) PROVE Truthful(d)'
  BY <1>14, <1>16, <1>17 DEF Truthful
\* The cursor does not go past an item in place that is still to be told.
<1>18. ASSUME NEW k \in DOMAIN outbox, InPlace(k), ~Later(outbox[k], nc)
       PROVE  Written(outbox[k])'
  <2>1. CASE ~Later(outbox[k], c)
    BY <1>7, <1>16, <1>18, <2>1 DEF Truthful
  <2>2. CASE Later(outbox[k], c)
    <3>1. ~Later(outbox[k], x)
      BY <1>8, <1>18, <2>2
    <3>2. Written(outbox[k]) \/ Comes(outbox[k], items, i)
      BY <1>1, <1>3, <1>4, <1>18 DEF Ordered
    <3>3. ASSUME NEW m \in DOMAIN items, m <= i, items[m] = outbox[k]
          PROVE  outbox[k] = x
      <4>1. i \in Nat /\ m \in Nat
        BY <1>7, <1>9
      <4>2. m = i
        BY <1>4, <3>3, <4>1
      <4> QED BY <1>5, <3>3, <4>2
    <3>4. Written(outbox[k]) \/ outbox[k] = x
      BY <1>5, <3>1, <3>2, <3>3 DEF Comes
    <3> QED BY <1>14, <1>16, <1>25, <3>4 DEF Written
  <2> QED BY <2>1, <2>2
<1>19. CursorsTrue'
  <2>1. Truthful(cursor)'
    BY <1>2, <1>7, <1>17 DEF Truthful
  <2>2. ASSUME NEW q \in Pullers, NEW d, d = pull'[q].cursor PROVE Truthful(d)'
    <3>1. CASE q = p
      BY <1>12, <1>14, <1>18, <2>2, <3>1 DEF Truthful
    <3>2. CASE q # p
      BY <1>1, <1>12, <1>17, <2>2, <3>2 DEF CursorsTrue
    <3> QED BY <3>1, <3>2
  <2>3. \A q \in Pullers : Truthful(pull[q].cursor)'
    BY <2>2 DEF Truthful
  <2> QED BY <2>1, <2>3 DEF CursorsTrue
<1>20. Ordered'
  <2>1. ASSUME NEW q \in Pullers, NEW k \in DOMAIN outbox, InPlace(k),
               ~(Written(outbox[k])'), NEW m \in DOMAIN pull'[q].items
        PROVE  Comes(outbox[k], pull'[q].items, m)
    <3>0. ~(Written(outbox[k]))
      BY <1>16, <2>1
    <3>1. CASE q # p
      BY <1>1, <1>12, <2>1, <3>0, <3>1 DEF Ordered
    <3>2. CASE q = p
      <4>1. m \in left /\ m \in DOMAIN items /\ rest[m] = items[m] /\ pull'[q].items = rest
        BY <1>5, <1>6, <1>12, <2>1, <3>2
      <4>2. Comes(outbox[k], items, m)
        BY <1>1, <1>3, <2>1, <3>0, <4>1 DEF Ordered
      <4>3. outbox[k] # x
        BY <1>14, <1>25, <2>1 DEF Written
      <4>4. ASSUME NEW l \in DOMAIN items, l <= m, items[l] = outbox[k]
            PROVE  l \in DOMAIN rest /\ rest[l] = outbox[k]
        BY <1>5, <1>6, <4>3, <4>4
      <4> QED BY <4>1, <4>2, <4>4 DEF Comes
    <3> QED BY <3>1, <3>2
  <2> QED BY <1>14, <2>1 DEF Ordered, Comes
<1>21. ASSUME ~overlap PROVE Single'
  <2>1. Single
    BY <1>21 DEF IInv
  <2>2. \A q \in Pullers : q # p => pull'[q] = Idle
    <3>1. pull[p] # Idle BY <1>2, Stages
    <3> QED BY <1>12, <2>1, <3>1 DEF Single
  <2>3. FreshIn(p)
    BY <1>2, <2>1 DEF Single, Asked
  <2>4. \A y \in Item : notices[y] <= 1 + slips
    BY <2>1 DEF Single, Told
  <2>5. slips \in Nat /\ notices[x] <= slips
    <3>1. slips \in Nat BY <1>1, OutboxAssumption DEF TypeOK
    <3>2. items[i] = x /\ i \in DOMAIN pull[p].items /\ pull[p].items[i] = x
      BY <1>3, <1>4, <1>5
    <3>3. Fresh(x)
      BY <2>3, <3>2 DEF FreshIn
    <3> QED BY <3>1, <3>3 DEF Fresh
  <2>6. \A y \in Item : notices'[y] <= 1 + slips
    BY <1>10, <1>21, <2>4, <2>5
  <2>7. \A k \in left : items[k] # x
    BY <1>3, <1>4, <1>5, <2>3 DEF FreshIn
  <2>8. \A y \in Item : Later(y, nc) => y # x /\ notices[y] <= slips
    BY <1>3, <1>7, <1>8, <2>3, LaterStrict DEF FreshIn, Fresh, Key
  <2>9. FreshIn(p)'
    <3>1. \A k \in DOMAIN rest : Later(rest[k], cursor) /\ rest[k] = items[k] /\ k \in DOMAIN items
      BY <1>3, <1>5, <1>6, <2>3 DEF FreshIn
    <3>2. \A k, l \in DOMAIN rest : k # l => rest[k] # rest[l]
      BY <1>3, <2>3, <3>1 DEF FreshIn
    <3>3. ASSUME NEW k \in DOMAIN rest PROVE notices'[rest[k]] <= slips
      <4>1. notices[rest[k]] <= slips /\ rest[k] \in Item
        BY <1>3, <1>7, <2>3, <3>1 DEF FreshIn, Fresh
      <4>2. rest[k] # x
        BY <1>6, <2>7
      <4> QED BY <1>10, <1>21, <4>1, <4>2
    <3>4. \A y \in Item : Later(y, nc) => notices'[y] <= slips
      BY <1>10, <1>21, <2>8
    <3> QED BY <1>2, <1>12, <3>1, <3>2, <3>3, <3>4 DEF FreshIn, Fresh
  <2>10. Asked(p)' /\ pull'[p].pc # "get"
    BY <1>12 DEF Asked
  <2>11. \A q \in Pullers : q # p => pull'[q].pc = "idle"
    BY <2>2, Stages
  <2>12. \A q \in Pullers : Asked(q)' => q = p
    BY <2>11 DEF Asked
  <2> QED BY <1>2, <2>2, <2>6, <2>9, <2>10, <2>11, <2>12 DEF Single, Told
<1> QED BY <1>2, <1>13, <1>14, <1>15, <1>19, <1>20, <1>21 DEF IInv

LEMMA SaveKeeps ==
  ASSUME IInv, NEW p \in Pullers, SaveCursor(p) \/ SaveFails(p)
  PROVE  IInv'
<1>1. TypeOK /\ Known /\ CursorsTrue
  BY DEF IInv
<1>2. /\ pull' = [pull EXCEPT ![p] = Idle]
      /\ nodeVars' = nodeVars /\ notices' = notices /\ hudVars' = hudVars
      /\ overlap' = overlap
      /\ pull[p].pc = "append"
  BY DEF SaveCursor, SaveFails, Pulled
<1>3. /\ slips \in Nat /\ slips' \in 0..MaxSlips
      /\ \/ slips' = slips /\ cursor' = pull[p].cursor
         \/ slips' = slips + 1 /\ cursor' \in {cursor, Start}
  <2>1. slips \in 0..MaxSlips /\ MaxSlips \in Nat
    BY <1>1, OutboxAssumption DEF TypeOK
  <2>2. CASE SaveCursor(p)
    BY <2>1, <2>2 DEF SaveCursor
  <2>3. CASE SaveFails(p)
    BY <2>1, <2>3 DEF SaveFails, CursorFile
  <2> QED BY <2>2, <2>3
<1>5. Truthful(Start)
  BY <1>1, LaterThanStart, Typed DEF Truthful
<1>6. cursor' \in Pushed \cup {Start} /\ Truthful(cursor')
  <2>1. PICK c : c = pull[p].cursor OBVIOUS
  <2>2. c \in Pushed \cup {Start} /\ Truthful(c) /\ cursor \in Pushed \cup {Start} /\ Truthful(cursor)
    BY <1>1, <2>1 DEF Known, CursorsTrue
  <2> QED BY <1>3, <1>5, <2>1, <2>2
<1>4. Idle \in PullStates /\ Idle.items = <<>> /\ Idle.cursor = Start /\ Idle.pc = "idle"
  <2>1. Start \in Key BY DEF Key
  <2> QED BY <2>1, EmptyAnswer, Stages, StageTypes
<1>7. overlap' \in BOOLEAN /\ notices' \in [Item -> Nat] /\ \A x \in Item : notices[x] \in Nat
  BY <1>1, <1>2 DEF TypeOK
<1>8. TypeOK' /\ Stamped' /\ Distinct' /\ Known' /\ CursorsTrue' /\ Ordered'
  BY <1>2, <1>3, <1>4, <1>5, <1>6, <1>7, Emptied
<1>9. ASSUME ~overlap PROVE Single'
  <2>1. Single
    BY <1>9 DEF IInv
  <2>2. pull[p] # Idle
    BY <1>2, Stages
  <2>3. pull'[p] = Idle /\ \A q \in Pullers : q # p => pull'[q] = pull[q]
    BY <1>1, <1>2, PullSet
  <2>4. \A q \in Pullers : pull'[q] = Idle /\ pull'[q].pc = "idle"
    BY <1>4, <2>1, <2>2, <2>3 DEF Single
  <2>5. \A x \in Item : Later(x, pull[p].cursor) => notices[x] <= slips
    BY <1>2, <2>1 DEF Single, Asked, FreshIn, Fresh
  <2>6. \A x \in Item : notices[x] <= 1 + slips
    BY <2>1 DEF Single, Told
  <2>7. \A x \in Item : /\ notices'[x] <= 1 + slips'
                        /\ Later(x, cursor') => notices'[x] <= slips'
    BY <1>2, <1>3, <1>7, <2>5, <2>6
  <2> QED BY <2>4, <2>7 DEF Single, Told, Fresh, Asked
<1> QED BY <1>2, <1>8, <1>9 DEF IInv

LEMMA CrashKeeps ==
  ASSUME IInv, Crash
  PROVE  IInv'
<1>1. TypeOK /\ Known /\ CursorsTrue /\ Stamped /\ Distinct
  BY DEF IInv
<1>2. /\ slips' = slips + 1 /\ slips < MaxSlips
      /\ nodeVars' = nodeVars /\ notices' = notices /\ overlap' = overlap
      /\ hud' = hud /\ lost' = lost /\ clash' = clash
      /\ pull' = [q \in Pullers |-> Idle]
      /\ cursor' = cursor \/ cursor' = Start
      /\ writing' = writing \ Pullers
      /\ draft' = [w \in Writer |-> IF w \in Pullers THEN {} ELSE draft[w]]
  BY DEF Crash, CursorFile
<1>3. slips \in Nat /\ slips' \in 0..MaxSlips
  BY <1>1, <1>2, OutboxAssumption DEF TypeOK
<1>4. Idle \in PullStates /\ Idle.cursor = Start /\ Idle.pc = "idle" /\ DOMAIN Idle.items = {}
  <2>1. Start \in Key BY DEF Key
  <2> QED BY <2>1, EmptyAnswer, Stages, StageTypes
<1>5. \A q \in Pullers : pull'[q] = Idle /\ pull'[q].pc = "idle" /\ pull'[q].cursor = Start
                         /\ DOMAIN pull'[q].items = {}
  BY <1>2, <1>4
<1>6. TypeOK'
  <2>1. draft' \in [Writer -> SUBSET Item] /\ writing' \subseteq Writer /\ cursor' \in Key
    BY <1>1, <1>2 DEF TypeOK, Key
  <2>2. pull' \in [Pullers -> PullStates]
    BY <1>2, <1>4
  <2> QED BY <1>1, <1>2, <1>3, <2>1, <2>2 DEF TypeOK, PullStates, nodeVars
<1>7. Known'
  BY <1>1, <1>2, <1>5, NodeStands DEF Known
<1>8. CursorsTrue'
  <2>1. Truthful(Start) /\ Truthful(cursor)
    BY <1>1, LaterThanStart, Typed DEF Truthful, CursorsTrue
  <2>2. Truthful(cursor')
    BY <1>2, <2>1
  <2> QED BY <1>2, <1>5, <2>1, <2>2, NodeStands DEF CursorsTrue, Truthful, Written
<1>9. Ordered'
  BY <1>5 DEF Ordered
<1>10. ASSUME ~overlap PROVE Single'
  <2>1. \A x \in Item : notices[x] <= 1 + slips
    BY <1>10 DEF IInv, Single, Told
  <2>2. \A x \in Item : notices[x] \in Nat
    BY <1>1 DEF TypeOK
  <2>3. \A x \in Item : notices'[x] <= slips' /\ notices'[x] <= 1 + slips'
    BY <1>2, <1>3, <2>1, <2>2
  <2> QED BY <1>5, <2>3 DEF Single, Told, Fresh, Asked
<1> QED BY <1>1, <1>2, <1>6, <1>7, <1>8, <1>9, <1>10, NodeStands DEF IInv

-----------------------------------------------------------------------------
LEMMA NextIInv == IInv /\ [Next]_vars => IInv'
<1> SUFFICES ASSUME IInv, [Next]_vars PROVE IInv' OBVIOUS
<1>1. ASSUME NEW p \in Pushers, Stamp(p) PROVE IInv'
  BY <1>1, StampKeeps
<1>2. ASSUME NEW p \in Pushers, Push(p) PROVE IInv'
  BY <1>2, PushKeeps
<1>3. CASE ClockTicks
  BY <1>3, ClockKeeps
<1>4. ASSUME NEW p \in Pullers, LoadCursor(p) PROVE IInv'
  BY <1>4, LoadKeeps
<1>5. ASSUME NEW p \in Pullers, Get(p) PROVE IInv'
  BY <1>5, GetKeeps
<1>6. ASSUME NEW p \in Pullers, AppendNotice(p) PROVE IInv'
  BY <1>6, AppendKeeps
<1>7. ASSUME NEW p \in Pullers, SaveCursor(p) \/ SaveFails(p) PROVE IInv'
  BY <1>7, SaveKeeps
<1>10. ASSUME NEW p \in Pullers, ReadHud(p) PROVE IInv'
  BY <1>10, ReadHudKeeps
<1>11. CASE ChatReads \/ ChatWrites
  BY <1>11, ChatKeeps
<1>8. CASE Crash
  BY <1>8, CrashKeeps
<1>9. CASE UNCHANGED vars
  <2>1. UNCHANGED <<outbox, dropped, pullVars, hudVars>> /\ UNCHANGED <<clock, stamp>>
    BY <1>9 DEF vars, nodeVars
  <2>2. TypeOK' /\ Stamped'
    BY <2>1 DEF IInv, TypeOK, Stamped, Pushed, pullVars, hudVars
  <2> QED BY <2>1, <2>2, QuietPart
<1> QED BY <1>1, <1>2, <1>3, <1>4, <1>5, <1>6, <1>7, <1>8, <1>9, <1>10, <1>11 DEF Next

\* Everything these proofs rest on holds in every reachable state.
THEOREM Invariance == Spec => []IInv
BY InitIInv, NextIInv, PTL DEF Spec

-----------------------------------------------------------------------------
(* The drafts of the HUD file. *)

\* A pull whose stage is not changed by a step writes the same notice as before.
LEMMA SameDraft ==
  ASSUME Drafts, NEW p \in Pullers, p \in writing, pull'[p] = pull[p], draft'[p] = draft[p]
  PROVE  /\ Asked(p)' /\ DOMAIN pull'[p].items # {}
         /\ \A i \in 1..Capacity : IsFirst(p, i)' => pull'[p].items[i] \in draft'[p]
BY DEF Drafts, Asked, IsFirst

\* A pull that is not writing may go where it likes.
LEMMA IdleDraft ==
  ASSUME IInv, Drafts, NEW p \in Pullers, NEW s, pull' = [pull EXCEPT ![p] = s],
         p \notin writing, hudVars' = hudVars
  PROVE  Drafts'
<1>1. /\ writing' = writing /\ draft' = draft /\ hud' = hud /\ lost' = lost /\ clash' = clash
      /\ \A q \in Pullers : q # p => pull'[q] = pull[q]
  BY DEF hudVars, IInv, TypeOK
<1>2. ASSUME NEW q \in Pullers, q \in writing'
      PROVE  /\ Asked(q)' /\ DOMAIN pull'[q].items # {}
             /\ \A i \in 1..Capacity : IsFirst(q, i)' => pull'[q].items[i] \in draft'[q]
  BY <1>1, <1>2, SameDraft
<1> QED BY <1>1, <1>2 DEF Drafts

LEMMA ReadsDrafts ==
  ASSUME IInv, Drafts, NEW w \in Writer, NEW new, Reads(w, new), pull' = pull,
         w \in Pullers => /\ Asked(w) /\ DOMAIN pull[w].items # {}
                          /\ \A i \in 1..Capacity : IsFirst(w, i) => pull[w].items[i] \in new
  PROVE  Drafts'
<1>1. /\ writing' = writing \cup {w} /\ draft' = [draft EXCEPT ![w] = hud \cup new]
      /\ hud' = hud /\ lost' = lost /\ clash' = clash /\ w \notin writing
  BY DEF Reads
<1>2. draft'[w] = hud \cup new /\ \A v \in Writer : v # w => draft'[v] = draft[v]
  BY <1>1 DEF IInv, TypeOK
<1>3. ASSUME NEW q \in Pullers, q \in writing'
      PROVE  /\ Asked(q)' /\ DOMAIN pull'[q].items # {}
             /\ \A i \in 1..Capacity : IsFirst(q, i)' => pull'[q].items[i] \in draft'[q]
  <2>1. CASE q = w
    BY <1>2, <2>1 DEF Asked, IsFirst
  <2>2. CASE q # w
    <3>1. q \in writing /\ q \in Writer BY <1>1, <1>3, <2>2 DEF Writer
    <3> QED BY <1>2, <2>2, <3>1, SameDraft
  <2> QED BY <2>1, <2>2
<1>4. ASSUME ~clash' PROVE lost' = {} /\ \A v \in writing' : hud' \subseteq draft'[v]
  <2>1. writing \subseteq Writer BY DEF IInv, TypeOK
  <2> QED BY <1>1, <1>2, <1>4, <2>1 DEF Drafts
<1> QED BY <1>3, <1>4 DEF Drafts

LEMMA WritesDrafts ==
  ASSUME IInv, Drafts, NEW w \in Writer, NEW new, Writes(w, new),
         \A q \in Pullers : q # w => pull'[q] = pull[q],
         new \subseteq draft[w]
  PROVE  Drafts'
<1>1. /\ w \in writing /\ writing' = writing \ {w} /\ draft' = [draft EXCEPT ![w] = {}]
      /\ lost' = lost \cup ((hud \cup new) \ hud')
      /\ clash' = (clash \/ writing # {w} \/ hud' # draft[w])
  BY DEF Writes
<1>2. \A v \in Writer : v # w => draft'[v] = draft[v]
  BY <1>1 DEF IInv, TypeOK
<1>3. ASSUME NEW q \in Pullers, q \in writing'
      PROVE  /\ Asked(q)' /\ DOMAIN pull'[q].items # {}
             /\ \A i \in 1..Capacity : IsFirst(q, i)' => pull'[q].items[i] \in draft'[q]
  <2>1. q \in writing /\ q # w /\ q \in Writer BY <1>1, <1>3 DEF Writer
  <2> QED BY <1>2, <2>1, SameDraft
<1>4. ASSUME ~clash' PROVE lost' = {} /\ \A v \in writing' : hud' \subseteq draft'[v]
  <2>1. ~clash /\ writing = {w} /\ hud' = draft[w]
    BY <1>1, <1>4
  <2>2. lost = {} /\ hud \subseteq draft[w]
    BY <2>1 DEF Drafts
  <2> QED BY <1>1, <2>1, <2>2
<1> QED BY <1>3, <1>4 DEF Drafts

LEMMA NextDrafts == IInv /\ Drafts /\ [Next]_vars => Drafts'
<1> SUFFICES ASSUME IInv, Drafts, [Next]_vars PROVE Drafts' OBVIOUS
<1>0. TypeOK /\ Pullers \subseteq Writer /\ "chat" \in Writer /\ "chat" \notin Pullers
  BY OutboxAssumption DEF IInv, Writer
<1>1. ASSUME pull' = pull, hudVars' = hudVars PROVE Drafts'
  BY <1>1 DEF hudVars, Drafts, Asked, IsFirst
<1>2. ASSUME NEW p \in Pushers, Stamp(p) \/ Push(p) PROVE Drafts'
  BY <1>1, <1>2 DEF Stamp, Push, pullVars
<1>3. CASE ClockTicks \/ UNCHANGED vars
  BY <1>1, <1>3 DEF ClockTicks, vars, pullVars
<1>4. ASSUME NEW p \in Pullers, LoadCursor(p) \/ Get(p) \/ SaveCursor(p) \/ SaveFails(p)
      PROVE  Drafts'
  <2>1. hudVars' = hudVars
    BY <1>4 DEF LoadCursor, Get, SaveCursor, SaveFails
  <2>2. \E s : pull' = [pull EXCEPT ![p] = s]
    BY <1>4 DEF LoadCursor, Get, SaveCursor, SaveFails
  <2>3. pull[p].pc # "append" \/ DOMAIN pull[p].items = {}
    BY <1>4, Stages DEF LoadCursor, Get, SaveCursor, SaveFails, Pulled
  <2>4. p \notin writing
    BY <2>3 DEF Drafts, Asked
  <2> QED BY <2>1, <2>2, <2>4, IdleDraft
<1>5. ASSUME NEW p \in Pullers, ReadHud(p) PROVE Drafts'
  <2>1. PICK i \in 1..Capacity : IsFirst(p, i) /\ Reads(p, {pull[p].items[i]})
    BY <1>5 DEF ReadHud
  <2>2. pull' = pull
    BY <1>5 DEF ReadHud, pullVars
  <2>3. i \in Nat /\ Asked(p) /\ DOMAIN pull[p].items # {}
    BY <2>1, OutboxAssumption DEF IsFirst, Asked
  <2>4. ASSUME NEW j \in 1..Capacity, IsFirst(p, j) PROVE j = i
    <3>1. j \in Nat BY OutboxAssumption
    <3> QED BY <2>1, <2>3, <2>4, <3>1 DEF IsFirst
  <2> QED BY <1>0, <2>1, <2>2, <2>3, <2>4, ReadsDrafts
<1>6. ASSUME NEW p \in Pullers, AppendNotice(p) PROVE Drafts'
  <2>1. PICK i \in 1..Capacity :
          /\ IsFirst(p, i) /\ Writes(p, {pull[p].items[i]})
          /\ \E s : pull' = [pull EXCEPT ![p] = s]
    BY <1>6 DEF AppendNotice
  <2>2. \A q \in Pullers : q # p => pull'[q] = pull[q]
    BY <1>0, <2>1 DEF TypeOK
  <2>3. {pull[p].items[i]} \subseteq draft[p]
    BY <2>1 DEF Drafts, Writes
  <2> QED BY <1>0, <2>1, <2>2, <2>3, WritesDrafts
<1>7. CASE ChatReads
  BY <1>0, <1>7, ReadsDrafts DEF ChatReads, pullVars
<1>8. CASE ChatWrites
  BY <1>0, <1>8, WritesDrafts DEF ChatWrites, pullVars
<1>9. CASE Crash
  <2>1. /\ writing' = writing \ Pullers /\ hud' = hud /\ lost' = lost /\ clash' = clash
        /\ \A w \in Writer : w \notin Pullers => draft'[w] = draft[w]
    BY <1>9 DEF Crash
  <2>2. writing \subseteq Writer
    BY <1>0 DEF TypeOK
  <2> QED BY <2>1, <2>2 DEF Drafts
<1> QED BY <1>2, <1>3, <1>4, <1>5, <1>6, <1>7, <1>8, <1>9 DEF Next

THEOREM DraftsHold == Spec => []Drafts
<1>1. Init => Drafts
  BY DEF Init, Drafts
<1> QED BY <1>1, NextDrafts, Invariance, PTL DEF Spec

\* The saved cursor passes over no item that was pushed in its place and whose notice
\* was not appended, wherever the daemon dies, however calls fail and pulls overlap;
\* and no line is put out of the HUD file but by a write that failed or overlapped
\* another (remote_agent.rs pull_outbox_into_hud, hud_chat_write.rs append_turns).
THEOREM NothingPassed == Spec => []NothingPassedOver
<1>1. IInv /\ Drafts => NothingPassedOver
  BY DEF IInv, CursorsTrue, Truthful, NothingPassedOver, Drafts, Written
<1> QED BY <1>1, Invariance, DraftsHold, PTL

\* While no two pulls overlap, an item is told once, and once more at most for each
\* time the daemon died between a notice and the cursor or the cursor was not saved.
THEOREM ToldSeldom == Spec => []ToldRarely
<1>1. IInv => ToldRarely
  BY DEF IInv, Single, Told, ToldRarely
<1> QED BY <1>1, Invariance, PTL
=============================================================================
