-------------------------------- MODULE Outbox --------------------------------
(***************************************************************************)
(* What the companion did while the laptop was away, and how it reaches    *)
(* the laptop's HUD: the node's outbox (softwake-node state.rs) and the    *)
(* laptop's pull with its saved cursor (softwake-daemon remote_agent.rs).  *)
(*                                                                         *)
(* Several threads of the node push; each stamps its item before it takes  *)
(* the outbox lock.  The laptop pulls on every wake phrase and in a loop   *)
(* of its own, and nothing keeps two pulls apart.  A pull loads the        *)
(* cursor, asks for what is later, appends one notice after another and    *)
(* saves the cursor.                                                       *)
(*                                                                         *)
(* To append is to read hud-chat.json and to put a new one in its place;   *)
(* no lock is held and no error looked at, and others write that file too: *)
(* the exchanges of Telegram and the room, and the HUD (hud_chat_write.rs).*)
(***************************************************************************)
EXTENDS Naturals, Sequences, FiniteSets, SequencesExt

CONSTANTS
  Pushers,    \* threads of the node, ranked by the prefix of their ids
  Pullers,    \* the wake phrase and the loop
  Capacity,   \* MAX_OUTBOX_ITEMS
  MaxClock,   \* bound on the node's clock
  MaxItems,   \* bound on the items pushed
  MaxSlips,   \* bound on slips
  Unreliable  \* a pull may fail

ASSUME OutboxAssumption ==
  /\ Pushers \subseteq Nat \ {0}
  /\ Capacity \in Nat \ {0}
  /\ "chat" \notin Pullers
  /\ MaxClock \in Nat /\ MaxItems \in Nat /\ MaxSlips \in Nat
  /\ Unreliable \in BOOLEAN

VARIABLES
  clock,
  stamp,    \* the time a pusher has read and not pushed yet, 0 for none
  outbox,   \* NodeState::outbox, oldest push first
  dropped,  \* history: items the outbox had no room for
  cursor,   \* remote-outbox-cursor.json
  pull,     \* what each pull is about to do
  hud,      \* the items a while-you-were-away line of hud-chat.json tells
  writing,  \* who has read that file and not put the new one there yet
  draft,    \* what the new file of each of them tells
  lost,     \* history: the items a write left, or put, out of the file
  clash,    \* history: two writes of the file overlapped, or one failed
  notices,  \* history: how often a notice of an item was appended
  overlap,  \* history: a pull has begun while another was under way
  slips     \* crashes of the daemon, and saves of the cursor that failed

nodeVars == <<clock, stamp, outbox, dropped>>
hudVars == <<hud, writing, draft, lost, clash>>
pullVars == <<cursor, pull, notices, overlap, slips>>
vars == <<nodeVars, pullVars, hudVars>>

\* An item is told from others by its time and by its id, compared as text.
Item == [ts : 1..MaxClock, id : Pushers]

Start == [ts |-> 0, id |-> 0]

\* Who writes hud-chat.json.
Writer == Pullers \cup {"chat"}

\* mutant: the last item pulled counts as later.
LaterOrSame(a, b) == a.ts > b.ts \/ (a.ts = b.ts /\ a.id >= b.id)

\* The order of the cursor, on both sides.
Later(a, b) == a.ts > b.ts \/ (a.ts = b.ts /\ a.id > b.id)

\* The three stages of a pull.  The answer holds each item at its place in the
\* outbox.
Idle == [pc |-> "idle", cursor |-> Start, items |-> <<>>]
Asking(c) == [pc |-> "get", cursor |-> c, items |-> <<>>]
Appending(c, items) == [pc |-> "append", cursor |-> c, items |-> items]

-----------------------------------------------------------------------------
(* The node. *)

\* A thread reads the clock for its next item; it takes more than a
\* millisecond from one item to the next.
Stamp(p) ==
  /\ stamp[p] = 0
  /\ \A i \in DOMAIN outbox : outbox[i].id = p => outbox[i].ts < clock
  /\ \A d \in dropped : d.id = p => d.ts < clock
  /\ clock > 0
  /\ Len(outbox) + Cardinality(dropped)
       + Cardinality({q \in Pushers : stamp[q] # 0}) < MaxItems
  /\ stamp' = [stamp EXCEPT ![p] = clock]
  /\ UNCHANGED <<clock, outbox, dropped, pullVars, hudVars>>

Overfull(items) == Len(items) > Capacity

\* push_outbox: the oldest push makes room.
Push(p) ==
  /\ stamp[p] # 0
  /\ LET longer == Append(outbox, [ts |-> stamp[p], id |-> p])
     IN  IF Overfull(longer)
         THEN outbox' = Tail(longer) /\ dropped' = dropped \cup {Head(longer)}
         ELSE outbox' = longer /\ UNCHANGED dropped
  /\ stamp' = [stamp EXCEPT ![p] = 0]
  /\ UNCHANGED <<clock, pullVars, hudVars>>

ClockTicks ==
  /\ clock < MaxClock
  /\ clock' = clock + 1
  /\ UNCHANGED <<stamp, outbox, dropped, pullVars, hudVars>>

\* outbox_since.
Since(c) == [i \in {j \in DOMAIN outbox : Later(outbox[j], c)} |-> outbox[i]]

-----------------------------------------------------------------------------
(* hud-chat.json: append_turns. *)

\* The file is read; what w adds tells the items of new.
Reads(w, new) ==
  /\ w \notin writing
  /\ writing' = writing \cup {w}
  /\ draft' = [draft EXCEPT ![w] = hud \cup new]
  /\ UNCHANGED <<hud, lost, clash>>

\* The new file is put there, or that fails.  Two that write at once do so through
\* one temporary file: what is put there may be the other's, or unreadable, and
\* who finds it unreadable begins a new one.
Writes(w, new) ==
  /\ w \in writing
  /\ \/ \E v \in writing : hud' = draft[v]
     \/ hud' = hud
     \/ writing # {w} /\ hud' = {}
  /\ lost' = lost \cup ((hud \cup new) \ hud')
  /\ clash' = (clash \/ writing # {w} \/ hud' # draft[w])
  /\ writing' = writing \ {w}
  /\ draft' = [draft EXCEPT ![w] = {}]

\* An exchange is appended, or the HUD saves what it shows.
ChatReads == Reads("chat", {}) /\ UNCHANGED <<nodeVars, pullVars>>

ChatWrites == Writes("chat", {}) /\ UNCHANGED <<nodeVars, pullVars>>

-----------------------------------------------------------------------------
(* The laptop: pull_outbox_into_hud. *)

\* mutant: the cursor is saved while notices are still to be written.
PulledEarly(p) == pull[p].pc = "append" /\ p \notin writing

\* The last notice is written.
Pulled(p) == pull[p].pc = "append" /\ DOMAIN pull[p].items = {}

\* What the file of the cursor holds while one that saves it is interrupted:
\* load_cursor takes what it cannot read for no cursor.
CursorFile(saving) == {cursor} \cup {Start : p \in saving}

LoadCursor(p) ==
  /\ pull[p] = Idle
  /\ \E c \in CursorFile({q \in Pullers : Pulled(q)}) :
       pull' = [pull EXCEPT ![p] = Asking(c)]
  /\ overlap' = (overlap \/ \E q \in Pullers : pull[q] # Idle)
  /\ notices' = [x \in Item |-> IF overlap' THEN 0 ELSE notices[x]]
  /\ UNCHANGED <<nodeVars, cursor, slips, hudVars>>

Get(p) ==
  /\ pull[p].pc = "get"
  /\ \/ pull' = [pull EXCEPT ![p] = Appending(@.cursor, Since(@.cursor))]
     \/ Unreliable /\ pull' = [pull EXCEPT ![p] = Idle]
  /\ UNCHANGED <<nodeVars, cursor, notices, overlap, slips, hudVars>>

\* mutant: the cursor is the time of the pull.
AdvancedCursorToNow(c, item) == [ts |-> clock, id |-> item.id]

\* The cursor after an item.
AdvancedCursor(c, item) == IF Later(item, c) THEN item ELSE c

\* The place of the first item that is left of the answer.
IsFirst(p, i) ==
  /\ pull[p].pc = "append"
  /\ i \in DOMAIN pull[p].items
  /\ \A j \in DOMAIN pull[p].items \ {i} : i < j

\* Its notice is appended: the HUD file is read ...
ReadHud(p) ==
  /\ \E i \in 1..Capacity : IsFirst(p, i) /\ Reads(p, {pull[p].items[i]})
  /\ UNCHANGED <<nodeVars, pullVars>>

\* ... and written; the cursor moves on, whatever became of that.
AppendNotice(p) ==
  /\ \E i \in 1..Capacity :
       LET items == pull[p].items
       IN  /\ IsFirst(p, i)
           /\ Writes(p, {items[i]})
           /\ notices' = IF overlap THEN notices ELSE [notices EXCEPT ![items[i]] = @ + 1]
           /\ pull' = [pull EXCEPT ![p] =
                Appending(AdvancedCursor(@.cursor, items[i]),
                          [j \in DOMAIN items \ {i} |-> items[j]])]
  /\ UNCHANGED <<nodeVars, cursor, overlap, slips>>

SaveCursor(p) ==
  /\ Pulled(p)
  /\ cursor' = pull[p].cursor
  /\ pull' = [pull EXCEPT ![p] = Idle]
  /\ UNCHANGED <<nodeVars, notices, overlap, slips, hudVars>>

\* The save fails and nobody looks.
SaveFails(p) ==
  /\ Pulled(p)
  /\ slips < MaxSlips
  /\ slips' = slips + 1
  /\ cursor' \in CursorFile({p})
  /\ pull' = [pull EXCEPT ![p] = Idle]
  /\ UNCHANGED <<nodeVars, notices, overlap, hudVars>>

\* The daemon dies and is started again; notices and cursor are files.
Crash ==
  /\ slips < MaxSlips
  /\ slips' = slips + 1
  /\ cursor' \in CursorFile({p \in Pullers : Pulled(p)})
  /\ pull' = [p \in Pullers |-> Idle]
  /\ writing' = writing \ Pullers
  /\ draft' = [w \in Writer |-> IF w \in Pullers THEN {} ELSE draft[w]]
  /\ UNCHANGED <<nodeVars, notices, overlap, hud, lost, clash>>

-----------------------------------------------------------------------------
Init ==
  /\ clock = 0
  /\ stamp = [p \in Pushers |-> 0]
  /\ outbox = <<>>
  /\ dropped = {}
  /\ cursor = Start
  /\ pull = [p \in Pullers |-> Idle]
  /\ hud = {} /\ lost = {} /\ clash = FALSE
  /\ writing = {}
  /\ draft = [w \in Writer |-> {}]
  /\ notices = [x \in Item |-> 0]
  /\ overlap = FALSE
  /\ slips = 0

Next ==
  \/ \E p \in Pushers : Stamp(p) \/ Push(p)
  \/ ClockTicks
  \/ \E p \in Pullers :
       \/ LoadCursor(p) \/ Get(p)
       \/ ReadHud(p) \/ AppendNotice(p)
       \/ SaveCursor(p) \/ SaveFails(p)
  \/ ChatReads \/ ChatWrites
  \/ Crash

Spec == Init /\ [][Next]_vars

\* A pusher that stamped pushes; a loop comes round; a call that is tried
\* again and again gets through.
Fairness ==
  /\ \A p \in Pushers : WF_vars(Push(p))
  /\ \A p \in Pullers :
       /\ WF_vars(LoadCursor(p)) /\ WF_vars(Get(p))
       /\ WF_vars(ReadHud(p)) /\ WF_vars(AppendNotice(p))
       /\ WF_vars(SaveCursor(p))
       /\ SF_vars(Get(p) /\ pull'[p] # Idle)

FairSpec == Spec /\ Fairness

-----------------------------------------------------------------------------
Key == Item \cup {Start}
Answers == UNION {[places -> Item] : places \in SUBSET (1..Capacity)}

TypeOK ==
  /\ clock \in 0..MaxClock
  /\ stamp \in [Pushers -> 0..clock]
  /\ outbox \in Seq(Item) /\ Len(outbox) <= Capacity
  /\ dropped \subseteq Item
  /\ cursor \in Key
  /\ pull \in [Pullers -> [pc : {"idle", "get", "append"}, cursor : Key, items : Answers]]
  /\ hud \subseteq Item /\ lost \subseteq Item
  /\ writing \subseteq Writer
  /\ draft \in [Writer -> SUBSET Item]
  /\ clash \in BOOLEAN /\ overlap \in BOOLEAN
  /\ notices \in [Item -> Nat]
  /\ slips \in 0..MaxSlips

(* An item that came into the outbox after all items with a smaller key.  A
   thread that stamps its item, is overtaken and pushes later misses that. *)
InPlace(i) ==
  /\ \A j \in 1..(i - 1) : Later(outbox[i], outbox[j])
  /\ \A d \in dropped : Later(outbox[i], d)

(* What the cursor has gone past was written to the HUD: an item pushed in its
   place is never hidden from later pulls before its notice is appended, also
   when the daemon dies within a pull, when two pulls overlap, one of which may
   even move the cursor back, and when the cursor's file is torn (softwake-node
   main.rs:3 "durable outbox").  Its line is still there, or is one that a write
   put out of the file, and no write does that but one that failed or overlapped
   another (append_turns reads and writes without a lock). *)
NothingPassedOver ==
  /\ \A i \in DOMAIN outbox :
       InPlace(i) /\ ~Later(outbox[i], cursor) => outbox[i] \in hud \cup lost
  /\ lost # {} => clash

(* What the companion did is told once, and once more at most for each crash
   between a notice and the cursor and for each save of the cursor that failed,
   although calls fail and the same items are asked for again
   (remote_agent.rs:408 "Pull new outbox items and append while-away notices").
   Two pulls that overlap may each tell an item. *)
ToldRarely ==
  ~overlap => \A x \in Item : notices[x] <= 1 + slips

(* Every item pushed in its place reaches the HUD, had to make room, or had its
   line put out of the file by an overlapping or failing write, although pulls
   fail, overlap and the daemon may die: again and again nothing that is in the
   outbox in its place is left to tell. *)
EveryItemNoticed ==
  []<>(\A i \in DOMAIN outbox : InPlace(i) => outbox[i] \in hud \cup lost)
=============================================================================
