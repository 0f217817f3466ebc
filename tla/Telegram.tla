------------------------------- MODULE Telegram -------------------------------
(***************************************************************************)
(* Who answers a Telegram message: the laptop (softwake-daemon telegram.rs *)
(* and its poll thread in serve.rs) or the companion (softwake-node        *)
(* telegram.rs), which take turns by the laptop's voice state.             *)
(*                                                                         *)
(* The laptop goes by its own voice state, the companion by the last       *)
(* heartbeat it got, while that is no older than its grace.  The Bot API   *)
(* keeps a message until a getUpdates asks for a later one; each side      *)
(* keeps the next offset in memory only.                                   *)
(***************************************************************************)
EXTENDS Naturals

CONSTANTS
  MaxSent,    \* bound on the messages users send
  MaxTurns,   \* bound on the changes of the laptop's voice state, its
              \* suspends, and the gaps between its heartbeats
  MaxCrashes, \* bound on the crashes of either side
  Suspends    \* the laptop may be suspended: no step of it, no heartbeat

Surface == {"laptop", "companion"}

ASSUME TelegramAssumption ==
  /\ MaxSent \in Nat /\ MaxTurns \in Nat /\ MaxCrashes \in Nat
  /\ Suspends \in BOOLEAN

VARIABLES
  sent,      \* updates 1..sent have been sent to the bot
  confirmed, \* the Bot API has forgotten updates 1..confirmed
  offset,    \* OFFSET of each side, 0 at its start
  poll,      \* where each side's poll thread is
  answered,  \* history: how often each side's reply to an update arrived
  unsent,    \* history: the updates a reply to which could not be sent
  awake,     \* the laptop's voice state
  up,        \* the laptop is not suspended
  presence,  \* the companion's effective presence of the laptop
  turns, crashes

apiVars == <<sent, confirmed>>
pollVars == <<offset, poll, answered, unsent>>
laptopVars == <<awake, up, turns>>
vars == <<apiVars, pollVars, laptopVars, presence, crashes>>

\* A poll thread; its batch is the updates next..last.
At(pc, next, last) == [pc |-> pc, next |-> next, last |-> last]

Idle == At("idle", 0, 0)

Runs(s) == s = "laptop" => up

\* laptop_should_own_telegram, and desired_telegram_owner of the companion
\* with a mirrored token.
Owns(s) == IF s = "laptop" THEN awake ELSE presence # "present"

\* getUpdates begins: what comes before the offset is forgotten.
Poll(s) ==
  /\ Runs(s) /\ Owns(s)
  /\ poll[s] = Idle
  /\ confirmed' = IF offset[s] > confirmed + 1 THEN offset[s] - 1 ELSE confirmed
  /\ poll' = [poll EXCEPT ![s] = At("wait", 0, 0)]
  /\ UNCHANGED <<sent, offset, answered, unsent, laptopVars, presence, crashes>>

\* The first update a getUpdates of s can return.
First(s) == IF offset[s] > confirmed THEN offset[s] ELSE confirmed + 1

\* It returns a batch, or nothing: a timeout, an error or the conflict with
\* the other side's poll.
Return(s) ==
  /\ Runs(s)
  /\ poll[s].pc = "wait"
  /\ \/ /\ First(s) <= sent
        /\ poll' = [poll EXCEPT ![s] = At("got", First(s), sent)]
     \/ poll' = [poll EXCEPT ![s] = Idle]
  /\ UNCHANGED <<apiVars, offset, answered, unsent, laptopVars, presence, crashes>>

\* The companion looks again before it works on a batch.
StillOwns(s) == s = "companion" => Owns(s)

Accept(s) ==
  /\ Runs(s)
  /\ poll[s].pc = "got"
  /\ poll' = [poll EXCEPT ![s] = 
       IF StillOwns(s) THEN At("work", poll[s].next, poll[s].last) ELSE Idle]
  /\ UNCHANGED <<apiVars, offset, answered, unsent, laptopVars, presence, crashes>>

\* mutant: the offset stays on the message that is being answered.
OffsetNotMoved(s) == poll[s].next

\* The offset once the next message of the batch is taken.
OffsetAfter(s) == poll[s].next + 1

\* The next message of the batch: the offset moves, then the model is asked.
Take(s) ==
  /\ Runs(s)
  /\ poll[s].pc = "work" /\ poll[s].next <= poll[s].last
  /\ offset' = [offset EXCEPT ![s] = OffsetAfter(s)]
  /\ poll' = [poll EXCEPT ![s] = At("ask", poll[s].next, poll[s].last)]
  /\ UNCHANGED <<apiVars, answered, unsent, laptopVars, presence, crashes>>

\* The model has answered; the laptop held the runtime lock for that.
Ask(s) ==
  /\ Runs(s)
  /\ poll[s].pc = "ask"
  /\ poll' = [poll EXCEPT ![s] = At("send", poll[s].next, poll[s].last)]
  /\ UNCHANGED <<apiVars, offset, answered, unsent, laptopVars, presence, crashes>>

\* The reply is sent, or that fails and nobody looks; nor does anyone look at
\* whose turn it is by now.
Send(s) ==
  /\ Runs(s)
  /\ poll[s].pc = "send"
  /\ \/ /\ answered' = [answered EXCEPT ![s][poll[s].next] = @ + 1]
        /\ UNCHANGED unsent
     \/ /\ unsent' = unsent \cup {poll[s].next}
        /\ UNCHANGED answered
  /\ poll' = [poll EXCEPT ![s] = At("work", poll[s].next + 1, poll[s].last)]
  /\ UNCHANGED <<apiVars, offset, laptopVars, presence, crashes>>

BatchDone(s) ==
  /\ Runs(s)
  /\ poll[s].pc = "work" /\ poll[s].next > poll[s].last
  /\ poll' = [poll EXCEPT ![s] = Idle]
  /\ UNCHANGED <<apiVars, offset, answered, unsent, laptopVars, presence, crashes>>

\* mutant: the offset outlives the process.
OffsetKept(s) == offset

\* OFFSET is a static: it starts at 0 again.
OffsetRestarted(s) == [offset EXCEPT ![s] = 0]

\* Either side dies and is started again; the companion then knows of no
\* heartbeat, the laptop comes up in its boot state.
Crash(s) ==
  /\ crashes < MaxCrashes
  /\ crashes' = crashes + 1
  /\ offset' = OffsetRestarted(s)
  /\ poll' = [poll EXCEPT ![s] = Idle]
  /\ IF s = "laptop"
     THEN awake' \in BOOLEAN /\ UNCHANGED presence
     ELSE presence' = "offline" /\ UNCHANGED awake
  /\ UNCHANGED <<apiVars, answered, unsent, up, turns>>

-----------------------------------------------------------------------------
SendMessage ==
  /\ sent < MaxSent
  /\ sent' = sent + 1
  /\ UNCHANGED <<confirmed, pollVars, laptopVars, presence, crashes>>

\* The loop passes over a heartbeat while a handler holds the runtime lock.
Heartbeat ==
  /\ up /\ poll["laptop"].pc # "ask"
  /\ presence' = IF awake THEN "present" ELSE "sleeping"
  /\ UNCHANGED <<apiVars, pollVars, laptopVars, crashes>>

VoiceChanges ==
  /\ up
  /\ turns < MaxTurns
  /\ turns' = turns + 1
  /\ awake' = ~awake
  /\ UNCHANGED <<apiVars, pollVars, up, presence, crashes>>

\* Suspends and resumes share the bound on voice changes.
Suspend ==
  /\ Suspends
  /\ turns < MaxTurns
  /\ turns' = turns + 1
  /\ up' = ~up
  /\ UNCHANGED <<apiVars, pollVars, awake, presence, crashes>>

\* PRESENCE_GRACE_MS has passed since the last heartbeat: the laptop is suspended,
\* or it is up and the runtime was locked, by an ask of its own or by another
\* handler, or the calls failed; if it counted as present that is a change of
\* sides.
GraceRunsOut ==
  /\ presence # "offline"
  /\ presence' = "offline"
  /\ IF up /\ presence = "present"
     THEN turns < MaxTurns /\ turns' = turns + 1
     ELSE UNCHANGED turns
  /\ UNCHANGED <<apiVars, pollVars, awake, up, crashes>>

-----------------------------------------------------------------------------
Init ==
  /\ sent = 0 /\ confirmed = 0
  /\ offset = [s \in Surface |-> 0]
  /\ poll = [s \in Surface |-> Idle]
  /\ answered = [s \in Surface |-> [u \in 1..MaxSent |-> 0]]
  /\ unsent = {}
  /\ awake \in BOOLEAN
  /\ up = TRUE
  /\ presence = IF awake THEN "present" ELSE "sleeping"
  /\ turns = 0 /\ crashes = 0

Next ==
  \/ \E s \in Surface :
       \/ Poll(s) \/ Return(s) \/ Accept(s)
       \/ Take(s) \/ Ask(s) \/ Send(s) \/ BatchDone(s)
       \/ Crash(s)
  \/ SendMessage
  \/ Heartbeat \/ VoiceChanges \/ Suspend \/ GraceRunsOut

Spec == Init /\ [][Next]_vars

\* The threads go round; a getUpdates that is made again and again gets through,
\* and a laptop that is suspended misses its heartbeats.
Fairness ==
  /\ \A s \in Surface :
       /\ WF_vars(Poll(s)) /\ WF_vars(Return(s)) /\ WF_vars(Accept(s))
       /\ WF_vars(Take(s)) /\ WF_vars(Ask(s)) /\ WF_vars(Send(s))
       /\ WF_vars(BatchDone(s))
       /\ SF_vars(Return(s) /\ poll'[s] # Idle)
  /\ WF_vars(Heartbeat) /\ WF_vars(~up /\ GraceRunsOut)

FairSpec == Spec /\ Fairness

-----------------------------------------------------------------------------
AnswersTo(u) == answered["laptop"][u] + answered["companion"][u]

\* A reply arrived, or one was made and could not be sent.
Replied(u) == AnswersTo(u) > 0 \/ u \in unsent

TypeOK ==
  /\ sent \in 0..MaxSent /\ confirmed \in 0..sent
  /\ offset \in [Surface -> 0..(sent + 1)]
  /\ poll \in [Surface -> [pc : {"idle", "wait", "got", "work", "ask", "send"},
                           next : 0..(sent + 1), last : 0..sent]]
  /\ answered \in [Surface -> [1..MaxSent -> Nat]]
  /\ unsent \subseteq 1..MaxSent
  /\ awake \in BOOLEAN /\ up \in BOOLEAN
  /\ presence \in {"present", "sleeping", "offline"}
  /\ turns \in 0..MaxTurns /\ crashes \in 0..MaxCrashes

(* A message the Bot API has forgotten was put to the model and a reply to it
   was tried: neither a crash within a batch nor a batch the companion put aside
   loses one (ADR-0042:61 "messages wait at Telegram").  A reply that could not
   be sent is not sent again (both telegram.rs, let _ = send). *)
ForgottenIsReplied == \A u \in 1..confirmed : Replied(u)

(* Each side replies to a message once, and once more for each crash; while the
   sides have not changed only one of them does (poll_once_live's offset, and
   the confirmation by the next getUpdates).  A laptop whose heartbeats stay
   away for longer than the grace, as they do while it is at a long ask, has
   changed sides without knowing. *)
RepliesBounded ==
  \A u \in 1..sent : AnswersTo(u) <= (IF turns = 0 THEN 1 ELSE 2) + crashes

(* Whoever replies to a message, everything sent before it was replied to: no
   change of sides and no crash puts a later message first. *)
InOrder ==
  \A u \in 1..sent : Replied(u) => \A v \in 1..(u - 1) : Replied(v)

Mailbox == INSTANCE Delivery
  WITH handled <- {u \in 1..MaxSent : Replied(u)}, forgotten <- confirmed

(* Two pollers, two offsets and a mailbox that is told to forget, with
   handovers and crashes anywhere, are one mailbox whose messages are handled
   in order, at least once, and forgotten only then (Delivery).  Every message
   is handled in the end, by whoever is left when the handovers are over;
   handled is what a reply was made for, and sent or tried. *)
IsMailbox == Mailbox!Spec
=============================================================================
