---------------------------- MODULE TelegramProofs ----------------------------
(* Proofs that no handover and no crash loses a Telegram message or answers  *)
(* one before an earlier one, for any number of messages, crashes and turns, *)
(* and that the two pollers refine one mailbox (Delivery).                   *)
EXTENDS Telegram, TLAPS

AnsweredBefore(n) == \A u \in 1..MaxSent : u < n => Replied(u)

(* What was answered before a batch, and before an offset.  The offset runs
   one ahead while a message is being answered; that one message is all a
   crash can take back, and the crash takes the offset back with it. *)
BatchFollows(s) ==
  /\ poll[s].pc \in {"got", "work", "ask", "send"} =>
       poll[s].next > 0 /\ AnsweredBefore(poll[s].next)
  /\ poll[s].pc \in {"ask", "send"} =>
       poll[s].next <= poll[s].last /\ offset[s] = poll[s].next + 1
  /\ poll[s].pc \notin {"ask", "send"} => AnsweredBefore(offset[s])

IInv ==
  /\ TypeOK
  /\ \A s \in Surface : BatchFollows(s)
  /\ AnsweredBefore(confirmed + 1)
  /\ \A u \in 1..MaxSent : Replied(u) => AnsweredBefore(u)

(* The invariant holds in the beginning: nothing is forgotten or fetched. *)
LEMMA InitIInv == Init => IInv
  <1> SUFFICES ASSUME Init PROVE IInv OBVIOUS
  <1>1. TypeOK
    BY TelegramAssumption DEF Init, TypeOK, Idle, At, Surface
  <1>2. \A s \in Surface : BatchFollows(s)
    BY DEF Init, BatchFollows, AnsweredBefore, Idle, At
  <1>3. AnsweredBefore(confirmed + 1)
    BY DEF Init, AnsweredBefore
  <1>4. \A u \in 1..MaxSent : Replied(u) => AnsweredBefore(u)
    BY DEF Init, Replied, AnswersTo, Surface
  <1> QED BY <1>1, <1>2, <1>3, <1>4 DEF IInv

(* While nobody answers, what is answered stays as it is. *)
LEMMA SameAnswers ==
  ASSUME UNCHANGED <<answered, unsent>>, NEW n
  PROVE  AnsweredBefore(n)' <=> AnsweredBefore(n)
  BY DEF AnsweredBefore, Replied, AnswersTo

(* A step that answers nothing keeps the invariant if it keeps the types, the *)
(* batches in line with the offsets, and forgets only what was answered.      *)
LEMMA QuietStep ==
  ASSUME IInv, UNCHANGED <<answered, unsent>>, TypeOK',
         \A s \in Surface : BatchFollows(s)',
         AnsweredBefore(confirmed' + 1)
  PROVE  IInv'
  BY SameAnswers DEF IInv, AnsweredBefore, Replied, AnswersTo

LEMMA PollIInv == ASSUME IInv, NEW s \in Surface, Poll(s) PROVE IInv'
  <1>1. /\ UNCHANGED <<sent, offset, answered, unsent, awake, up, turns, presence, crashes>>
        /\ poll[s] = Idle /\ poll' = [poll EXCEPT ![s] = At("wait", 0, 0)]
        /\ confirmed' = IF offset[s] > confirmed + 1 THEN offset[s] - 1 ELSE confirmed
    BY DEF Poll, laptopVars
  <1>2. /\ sent \in Nat /\ offset[s] \in 0..(sent + 1) /\ confirmed \in 0..sent
        /\ BatchFollows(s) /\ AnsweredBefore(confirmed + 1)
    BY TelegramAssumption DEF IInv, TypeOK
  <1>3. confirmed' \in 0..sent
    BY <1>1, <1>2
  <1>4. TypeOK'
    BY <1>1, <1>3 DEF IInv, TypeOK, At
  <1>5. AnsweredBefore(offset[s])
    BY <1>1, <1>2 DEF BatchFollows, Idle, At
  <1>6. \A t \in Surface : BatchFollows(t)'
    <2> TAKE t \in Surface
    <2>1. BatchFollows(t)
      BY DEF IInv
    <2>2. CASE t = s
      BY <1>1, <1>5, <2>2 DEF BatchFollows, AnsweredBefore, Replied, AnswersTo, At, IInv, TypeOK
    <2>3. CASE t # s
      BY <1>1, <2>1, <2>3 DEF BatchFollows, AnsweredBefore, Replied, AnswersTo, IInv, TypeOK
    <2> QED BY <2>2, <2>3
  <1>7. AnsweredBefore(confirmed' + 1)
    BY <1>1, <1>2, <1>5
  <1> QED BY <1>1, <1>4, <1>6, <1>7, QuietStep

LEMMA ReturnIInv == ASSUME IInv, NEW s \in Surface, Return(s) PROVE IInv'
  <1>1. /\ UNCHANGED <<sent, confirmed, offset, answered, unsent, awake, up, turns, presence, crashes>>
        /\ poll[s].pc = "wait"
        /\ \/ First(s) <= sent /\ poll' = [poll EXCEPT ![s] = At("got", First(s), sent)]
           \/ poll' = [poll EXCEPT ![s] = Idle]
    BY DEF Return, apiVars, laptopVars
  <1>2. /\ sent \in Nat /\ offset[s] \in 0..(sent + 1) /\ confirmed \in 0..sent
        /\ AnsweredBefore(offset[s]) /\ AnsweredBefore(confirmed + 1)
    <2>1. sent \in Nat /\ offset[s] \in 0..(sent + 1) /\ confirmed \in 0..sent
      BY TelegramAssumption DEF IInv, TypeOK
    <2>2. BatchFollows(s) /\ AnsweredBefore(confirmed + 1)
      BY DEF IInv
    <2>3. AnsweredBefore(offset[s])
      BY <1>1, <2>2 DEF BatchFollows
    <2> QED BY <2>1, <2>2, <2>3
  <1>3. First(s) \in Nat /\ First(s) > 0 /\ AnsweredBefore(First(s))
    BY <1>2 DEF First
  <1>4. TypeOK'
    <2>1. CASE poll' = [poll EXCEPT ![s] = Idle]
      BY <1>1, <1>2, <2>1 DEF IInv, TypeOK, At, Idle
    <2>2. CASE First(s) <= sent /\ poll' = [poll EXCEPT ![s] = At("got", First(s), sent)]
      <3>1. First(s) \in 0..(sent + 1) /\ sent \in 0..sent
        BY <1>2, <1>3, <2>2
      <3> QED BY <1>1, <2>2, <3>1 DEF IInv, TypeOK, At
    <2> QED BY <1>1, <2>1, <2>2
  <1>5. \A t \in Surface : BatchFollows(t)'
    <2> TAKE t \in Surface
    <2>1. BatchFollows(t)
      BY DEF IInv
    <2>2. CASE t = s
      BY <1>1, <1>2, <1>3, <2>2
      DEF BatchFollows, AnsweredBefore, Replied, AnswersTo, At, Idle, IInv, TypeOK
    <2>3. CASE t # s
      BY <1>1, <2>1, <2>3 DEF BatchFollows, AnsweredBefore, Replied, AnswersTo, IInv, TypeOK
    <2> QED BY <2>2, <2>3
  <1>6. AnsweredBefore(confirmed' + 1)
    BY <1>1, <1>2
  <1> QED BY <1>1, <1>4, <1>5, <1>6, QuietStep

LEMMA AcceptIInv == ASSUME IInv, NEW s \in Surface, Accept(s) PROVE IInv'
  <1> USE DEF Accept, apiVars, laptopVars, IInv, TypeOK, Idle, At
  <1>1. TypeOK'
    OBVIOUS
  <1>2. \A t \in Surface : BatchFollows(t)'
    BY SameAnswers DEF BatchFollows, AnsweredBefore, Replied, AnswersTo
  <1>3. AnsweredBefore(confirmed' + 1)
    OBVIOUS
  <1> QED BY <1>1, <1>2, <1>3, QuietStep

LEMMA TakeIInv == ASSUME IInv, NEW s \in Surface, Take(s) PROVE IInv'
  <1> USE DEF Take, apiVars, laptopVars, IInv, TypeOK, At, OffsetAfter
  <1>1. TypeOK'
    OBVIOUS
  <1>2. \A t \in Surface : BatchFollows(t)'
    BY SameAnswers DEF BatchFollows, AnsweredBefore, Replied, AnswersTo
  <1>3. AnsweredBefore(confirmed' + 1)
    OBVIOUS
  <1> QED BY <1>1, <1>2, <1>3, QuietStep

LEMMA BatchDoneIInv == ASSUME IInv, NEW s \in Surface, BatchDone(s) PROVE IInv'
  <1> USE DEF BatchDone, apiVars, laptopVars, IInv, TypeOK, Idle, At
  <1>1. TypeOK'
    OBVIOUS
  <1>2. \A t \in Surface : BatchFollows(t)'
    BY SameAnswers DEF BatchFollows, AnsweredBefore, Replied, AnswersTo
  <1>3. AnsweredBefore(confirmed' + 1)
    OBVIOUS
  <1> QED BY <1>1, <1>2, <1>3, QuietStep

LEMMA AskIInv == ASSUME IInv, NEW s \in Surface, Ask(s) PROVE IInv'
  <1> USE DEF Ask, apiVars, laptopVars, IInv, TypeOK, At
  <1>1. TypeOK'
    OBVIOUS
  <1>2. \A t \in Surface : BatchFollows(t)'
    BY SameAnswers DEF BatchFollows, AnsweredBefore, Replied, AnswersTo
  <1>3. AnsweredBefore(confirmed' + 1)
    OBVIOUS
  <1> QED BY <1>1, <1>2, <1>3, QuietStep

LEMMA CrashIInv == ASSUME IInv, NEW s \in Surface, Crash(s) PROVE IInv'
  <1> USE TelegramAssumption DEF Crash, apiVars, laptopVars, IInv, TypeOK, Idle, At, OffsetRestarted
  <1>1. TypeOK'
    <2>1. offset' \in [Surface -> 0..(sent + 1)]
      OBVIOUS
    <2>2. poll' \in [Surface -> [pc : {"idle", "wait", "got", "work", "ask", "send"},
                                 next : 0..(sent + 1), last : 0..sent]]
      OBVIOUS
    <2>3. crashes' \in 0..MaxCrashes
      OBVIOUS
    <2>4. awake' \in BOOLEAN /\ presence' \in {"present", "sleeping", "offline"}
      BY Zenon
    <2>5. UNCHANGED <<apiVars, answered, unsent, up, turns>>
      OBVIOUS
    <2> HIDE DEF Crash, Idle, At, OffsetRestarted
    <2> QED BY <2>1, <2>2, <2>3, <2>4, <2>5
  <1>2. \A t \in Surface : BatchFollows(t)'
    <2> TAKE t \in Surface
    <2>1. BatchFollows(t)
      OBVIOUS
    <2>2. CASE t = s
      BY <2>2 DEF BatchFollows, AnsweredBefore
    <2>3. CASE t # s
      BY <2>1, <2>3 DEF BatchFollows, AnsweredBefore, Replied, AnswersTo
    <2> QED BY <2>2, <2>3
  <1>3. AnsweredBefore(confirmed' + 1)
    OBVIOUS
  <1> QED BY <1>1, <1>2, <1>3, QuietStep

(* One answer counts once, and for its message alone. *)
LEMMA AnswerCounts ==
  ASSUME TypeOK, NEW s \in Surface, NEW u \in 1..MaxSent, NEW v \in 1..MaxSent,
         answered' = [answered EXCEPT ![s][u] = @ + 1]
  PROVE  /\ AnswersTo(v)' = IF v = u THEN AnswersTo(v) + 1 ELSE AnswersTo(v)
         /\ AnswersTo(v) \in Nat
  <1>1. answered \in [Surface -> [1..MaxSent -> Nat]]
    BY DEF TypeOK
  <1>2. \A t \in Surface : answered[t][v] \in Nat /\ answered'[t][v] =
          (IF t = s /\ v = u THEN answered[t][v] + 1 ELSE answered[t][v])
    BY <1>1
  <1>3. CASE s = "laptop"
    BY <1>2, <1>3 DEF AnswersTo, Surface
  <1>4. CASE s = "companion"
    BY <1>2, <1>4 DEF AnswersTo, Surface
  <1> QED BY <1>3, <1>4 DEF Surface

\* The message that is being replied to.
LEMMA InHand ==
  ASSUME IInv, NEW s \in Surface, poll[s].pc \in {"ask", "send"}
  PROVE  \E u \in 1..MaxSent :
           /\ u = poll[s].next /\ u <= sent /\ u <= poll[s].last
           /\ offset[s] = u + 1 /\ AnsweredBefore(u)
  <1>1. /\ BatchFollows(s) /\ sent \in 0..MaxSent
        /\ poll[s].next \in 0..(sent + 1) /\ poll[s].last \in 0..sent
    BY DEF IInv, TypeOK
  <1> QED BY <1>1, TelegramAssumption DEF BatchFollows

\* A reply that was made, sent or not, is for its message alone.
LEMMA SendReplies ==
  ASSUME IInv, NEW s \in Surface, Send(s), NEW u \in 1..MaxSent, u = poll[s].next
  PROVE  /\ answered' \in [Surface -> [1..MaxSent -> Nat]]
         /\ unsent' \subseteq 1..MaxSent
         /\ \A v \in 1..MaxSent : Replied(v)' <=> Replied(v) \/ v = u
  <1>1. TypeOK
    BY DEF IInv
  <1>2. CASE /\ answered' = [answered EXCEPT ![s][u] = @ + 1] /\ unsent' = unsent
    <2> DEFINE row == [answered[s] EXCEPT ![u] = @ + 1]
    <2>1. answered \in [Surface -> [1..MaxSent -> Nat]]
      BY <1>1 DEF TypeOK
    <2>2. row \in [1..MaxSent -> Nat]
      <3>1. answered[s] \in [1..MaxSent -> Nat] /\ answered[s][u] \in Nat
        BY <2>1
      <3> QED BY <3>1
    <2>3. answered' = [answered EXCEPT ![s] = row]
      BY <1>2
    <2>4. answered' \in [Surface -> [1..MaxSent -> Nat]]
      <3> HIDE DEF row
      <3> QED BY <2>1, <2>2, <2>3
    <2>5. \A v \in 1..MaxSent :
            /\ AnswersTo(v)' = IF v = u THEN AnswersTo(v) + 1 ELSE AnswersTo(v)
            /\ AnswersTo(v) \in Nat
      BY <1>1, <1>2, AnswerCounts
    <2> QED BY <1>1, <1>2, <2>4, <2>5 DEF Replied, TypeOK
  <1>3. CASE answered' = answered /\ unsent' = unsent \cup {u}
    BY <1>1, <1>3 DEF Replied, AnswersTo, TypeOK
  <1> QED BY <1>2, <1>3 DEF Send

(* A reply, or the try of one, makes the batch and the offset meet again. *)
LEMMA SendIInv == ASSUME IInv, NEW s \in Surface, Send(s) PROVE IInv'
  <1>0. PICK u \in 1..MaxSent : /\ u = poll[s].next /\ u <= sent /\ u <= poll[s].last
                                /\ offset[s] = u + 1 /\ AnsweredBefore(u)
    BY InHand DEF Send
  <1>1. /\ UNCHANGED <<sent, confirmed, offset, awake, up, turns, presence, crashes>>
        /\ poll[s].pc = "send" /\ poll' = [poll EXCEPT ![s] = At("work", u + 1, poll[s].last)]
    BY <1>0 DEF Send, apiVars, laptopVars
  <1>2. sent \in Nat /\ poll[s].last \in 0..sent
    BY TelegramAssumption DEF IInv, TypeOK
  <1>3. /\ answered' \in [Surface -> [1..MaxSent -> Nat]]
        /\ unsent' \subseteq 1..MaxSent
        /\ \A v \in 1..MaxSent : Replied(v)' <=> Replied(v) \/ v = u
    BY <1>0, SendReplies
  <1>4. TypeOK'
    BY <1>0, <1>1, <1>2, <1>3 DEF IInv, TypeOK, At
  <1>6. ASSUME NEW n, AnsweredBefore(n) PROVE AnsweredBefore(n)'
    BY <1>3, <1>6 DEF AnsweredBefore
  <1>7. AnsweredBefore(u + 1)'
    <2>1. AnsweredBefore(u)'
      BY <1>0, <1>6
    <2>2. ASSUME NEW v \in 1..MaxSent, v < u + 1 PROVE Replied(v)'
      <3>1. CASE v = u
        BY <1>3, <3>1
      <3>2. CASE v # u
        <4>1. v < u
          BY <1>2, <2>2, <3>2
        <4> QED BY <2>1, <4>1, <1>1 DEF AnsweredBefore
      <3> QED BY <3>1, <3>2
    <2> QED BY <1>1, <2>2 DEF AnsweredBefore
  <1>8. \A t \in Surface : BatchFollows(t)'
    <2> TAKE t \in Surface
    <2>1. BatchFollows(t)
      BY DEF IInv
    <2>2. CASE t = s
      <3>1. poll'[t] = At("work", u + 1, poll[s].last) /\ offset'[t] = u + 1
        BY <1>0, <1>1, <2>2 DEF IInv, TypeOK
      <3> QED BY <1>7, <3>1 DEF BatchFollows, At
    <2>3. CASE t # s
      <3>1. poll'[t] = poll[t] /\ offset'[t] = offset[t]
        BY <1>1, <2>3 DEF IInv, TypeOK
      <3> QED BY <1>6, <2>1, <3>1 DEF BatchFollows
    <2> QED BY <2>2, <2>3
  <1>9. AnsweredBefore(confirmed + 1)'
    <2>1. AnsweredBefore(confirmed + 1)
      BY DEF IInv
    <2> QED BY <1>1, <1>6, <2>1 DEF AnsweredBefore
  <1>10. ASSUME NEW v \in 1..MaxSent, Replied(v)'
         PROVE  AnsweredBefore(v)'
    <2>1. CASE v = u
      BY <1>0, <1>6, <2>1
    <2>2. CASE v # u
      BY <1>3, <1>6, <1>10, <2>2 DEF IInv
    <2> QED BY <2>1, <2>2
  <1> QED BY <1>4, <1>8, <1>9, <1>10 DEF IInv

(* What happens around the poll threads touches neither offsets nor batches. *)
LEMMA AroundIInv ==
  ASSUME IInv, SendMessage \/ Heartbeat \/ VoiceChanges \/ Suspend \/ GraceRunsOut
  PROVE  IInv'
  <1>1. /\ UNCHANGED <<offset, poll, answered, unsent, confirmed>>
        /\ sent' \in 0..MaxSent /\ sent' >= sent
        /\ awake' \in BOOLEAN /\ up' \in BOOLEAN
        /\ presence' \in {"present", "sleeping", "offline"}
        /\ turns' \in 0..MaxTurns /\ crashes' \in 0..MaxCrashes
    <2> USE TelegramAssumption DEF IInv, TypeOK, pollVars, apiVars, laptopVars
    <2>1. CASE SendMessage
      BY <2>1 DEF SendMessage
    <2>2. CASE Heartbeat
      BY <2>2 DEF Heartbeat
    <2>3. CASE VoiceChanges
      <3>1. awake' \in BOOLEAN
        BY <2>3 DEF VoiceChanges
      <3> QED BY <2>3, <3>1 DEF VoiceChanges
    <2>4. CASE Suspend
      <3>1. up' \in BOOLEAN
        BY <2>4 DEF Suspend
      <3> QED BY <2>4, <3>1 DEF Suspend
    <2>5. CASE GraceRunsOut
      <3>1. turns' \in 0..MaxTurns
        BY <2>5 DEF GraceRunsOut
      <3> QED BY <2>5, <3>1 DEF GraceRunsOut
    <2> QED BY <2>1, <2>2, <2>3, <2>4, <2>5
  <1>2. TypeOK'
    BY <1>1 DEF IInv, TypeOK
  <1>3. \A t \in Surface : BatchFollows(t)'
    BY <1>1 DEF IInv, BatchFollows, AnsweredBefore, Replied, AnswersTo
  <1>4. AnsweredBefore(confirmed' + 1)
    BY <1>1 DEF IInv
  <1> QED BY <1>1, <1>2, <1>3, <1>4, QuietStep

LEMMA NextIInv == IInv /\ [Next]_vars => IInv'
  <1> SUFFICES ASSUME IInv, [Next]_vars PROVE IInv'
    OBVIOUS
  <1>1. ASSUME NEW s \in Surface,
               Poll(s) \/ Return(s) \/ Accept(s) \/ Take(s) \/ Ask(s)
                 \/ Send(s) \/ BatchDone(s) \/ Crash(s)
        PROVE  IInv'
    BY <1>1, PollIInv, ReturnIInv, AcceptIInv, TakeIInv, AskIInv, SendIInv,
       BatchDoneIInv, CrashIInv
  <1>2. CASE UNCHANGED vars
    BY <1>2 DEF vars, apiVars, pollVars, laptopVars, IInv, TypeOK, BatchFollows,
                AnsweredBefore, Replied, AnswersTo
  <1> QED BY <1>1, <1>2, AroundIInv DEF Next

(* The invariant holds throughout. *)
THEOREM InductiveInvariant == Spec => []IInv
  BY InitIInv, NextIInv, PTL DEF Spec

(* Every variable keeps its type, so no offset runs ahead of what was sent. *)
THEOREM TypeCorrect == Spec => []TypeOK
  BY InductiveInvariant, PTL DEF IInv

(* What the Bot API was told to forget was replied to, or a reply to it was *)
(* made and could not be sent, for every number of messages, crashes and    *)
(* turns (the offsets of both telegram.rs).                                 *)
THEOREM NothingForgotten == Spec => []ForgottenIsReplied
  <1>1. IInv => ForgottenIsReplied
    BY TelegramAssumption DEF IInv, TypeOK, ForgottenIsReplied, AnsweredBefore
  <1> QED BY <1>1, InductiveInvariant, PTL

(* No message is replied to before an earlier one, whoever replies and whether *)
(* the reply can be sent or not.                                              *)
THEOREM AnsweredInOrder == Spec => []InOrder
  <1>1. IInv => InOrder
    BY TelegramAssumption DEF IInv, TypeOK, InOrder, AnsweredBefore
  <1> QED BY <1>1, InductiveInvariant, PTL

-----------------------------------------------------------------------------
(* The two pollers refine one mailbox (module Delivery): a getUpdates forgets, *)
(* a first answer handles, a message that is sent is sent, and nothing else    *)
(* shows.                                                                      *)

Handled == {u \in 1..MaxSent : Replied(u)}

LEMMA HandledBefore ==
  ASSUME NEW n \in Nat, n <= MaxSent + 1, AnsweredBefore(n)
  PROVE  1..(n - 1) \subseteq Handled
  BY TelegramAssumption DEF AnsweredBefore, Handled

LEMMA SameHandled == ASSUME UNCHANGED <<answered, unsent>> PROVE Handled' = Handled
  BY DEF Handled, Replied, AnswersTo

LEMMA PollForgets ==
  ASSUME IInv, NEW s \in Surface, Poll(s)
  PROVE  [Mailbox!Next]_<<sent, Handled, confirmed>>
  <1>1. /\ UNCHANGED <<sent, answered, unsent>> /\ poll[s] = Idle
        /\ confirmed' = IF offset[s] > confirmed + 1 THEN offset[s] - 1 ELSE confirmed
    BY DEF Poll
  <1>2. /\ sent \in 0..MaxSent /\ confirmed \in 0..sent /\ offset[s] \in 0..(sent + 1)
        /\ AnsweredBefore(offset[s])
    BY <1>1 DEF IInv, TypeOK, BatchFollows, Idle, At
  <1>3. CASE offset[s] > confirmed + 1
    <2>1. /\ confirmed' = offset[s] - 1 /\ confirmed' \in 1..sent /\ confirmed' > confirmed
      BY <1>1, <1>2, <1>3, TelegramAssumption
    <2>2. 1..confirmed' \subseteq Handled
      <3>1. offset[s] \in Nat /\ offset[s] <= MaxSent + 1
        BY <1>2, TelegramAssumption
      <3> QED BY <1>2, <2>1, <3>1, HandledBefore
    <2> QED BY <1>1, <2>1, <2>2, SameHandled DEF Mailbox!Next, Mailbox!Forget, Handled
  <1>4. CASE ~(offset[s] > confirmed + 1)
    BY <1>1, <1>4, SameHandled
  <1> QED BY <1>3, <1>4

LEMMA SendHandles ==
  ASSUME IInv, NEW s \in Surface, Send(s)
  PROVE  [Mailbox!Next]_<<sent, Handled, confirmed>>
  <1>0. PICK u \in 1..MaxSent : u = poll[s].next /\ u <= sent /\ AnsweredBefore(u)
    BY InHand DEF Send
  <1>1. UNCHANGED <<sent, confirmed>> /\ sent \in 0..MaxSent
    BY DEF Send, apiVars, IInv, TypeOK
  <1>3. Handled' = Handled \cup {u}
    <2>1. \A v \in 1..MaxSent : Replied(v)' <=> Replied(v) \/ v = u
      BY <1>0, SendReplies
    <2> QED BY <2>1 DEF Handled
  <1>4. CASE u \in Handled
    BY <1>1, <1>3, <1>4
  <1>5. CASE u \notin Handled
    <2>1. u \in (1..sent) \ Handled
      BY <1>0, <1>1, <1>5
    <2>2. 1..(u - 1) \subseteq Handled
      <3>1. u \in Nat /\ u <= MaxSent + 1
        BY TelegramAssumption
      <3> QED BY <1>0, <3>1, HandledBefore
    <2> QED BY <1>1, <1>3, <2>1, <2>2 DEF Mailbox!Next, Mailbox!Handle, Handled
  <1> QED BY <1>4, <1>5

(* Every step of the two pollers is a step of the mailbox or hides. *)
LEMMA StepRefines ==
  ASSUME IInv, [Next]_vars
  PROVE  [Mailbox!Next]_<<sent, Handled, confirmed>>
  <1>1. ASSUME UNCHANGED <<sent, confirmed, answered, unsent>>
        PROVE  UNCHANGED <<sent, Handled, confirmed>>
    BY <1>1, SameHandled
  <1>2. ASSUME NEW s \in Surface,
               Return(s) \/ Accept(s) \/ Take(s) \/ Ask(s) \/ BatchDone(s) \/ Crash(s)
        PROVE  UNCHANGED <<sent, confirmed, answered, unsent>>
    BY <1>2 DEF Return, Accept, Take, Ask, BatchDone, Crash, apiVars
  <1>3. ASSUME Heartbeat \/ VoiceChanges \/ Suspend \/ GraceRunsOut \/ UNCHANGED vars
        PROVE  UNCHANGED <<sent, confirmed, answered, unsent>>
    BY <1>3 DEF Heartbeat, VoiceChanges, Suspend, GraceRunsOut, vars, apiVars, pollVars
  <1>4. CASE SendMessage
    BY <1>4, SameHandled DEF SendMessage, pollVars, Mailbox!Next, Mailbox!Send, Handled
  <1> QED BY <1>1, <1>2, <1>3, <1>4, PollForgets, SendHandles DEF Next

(* Whatever the two pollers do is what one mailbox may do, for every number of *)
(* messages, handovers and crashes: handled in order, forgotten when handled   *)
(* (both telegram.rs; the safety part of IsMailbox).                           *)
THEOREM RefinesMailbox == Spec => Mailbox!SafeSpec
  <1>1. Init => Mailbox!Init
    BY TelegramAssumption DEF Init, Mailbox!Init, Replied, AnswersTo, Surface
  <1>2. IInv /\ [Next]_vars => [Mailbox!Next]_(Mailbox!vars)
    BY StepRefines DEF Mailbox!vars, Handled
  <1> QED BY <1>1, <1>2, InductiveInvariant, PTL DEF Spec, Mailbox!SafeSpec

-----------------------------------------------------------------------------
(* How often a message is answered.  A side can answer a message once more   *)
(* while its offset has not passed it, so what was answered and what the two *)
(* sides still can is at most two and the crashes: a crash alone takes an    *)
(* offset back.  Before the first change of sides only one side is active    *)
(* for every crash so far, which leaves one.                                 *)

Can(s, u) ==
  IF offset[s] <= u \/ (poll[s].pc \in {"ask", "send"} /\ poll[s].next = u) THEN 1 ELSE 0

\* Side s polls, or may begin to without a change of sides or a crash.
Active(s) ==
  \/ poll[s].pc # "idle"
  \/ s = "laptop" /\ awake
  \/ s = "companion" /\ (presence # "present" \/ ~awake)

Will(s, u) == IF Active(s) THEN Can(s, u) ELSE 0

\* The offset of a side is not ahead of the batch it works on.
NotAhead(s) == poll[s].pc \in {"got", "work"} => offset[s] <= poll[s].next

TwoInAll ==
  \A u \in 1..MaxSent : AnswersTo(u) + Can("laptop", u) + Can("companion", u) <= 2 + crashes

OneAtFirst ==
  turns = 0 =>
    /\ up
    /\ \A u \in 1..MaxSent :
         AnswersTo(u) + Will("laptop", u) + Will("companion", u) <= 1 + crashes

Counted == (\A s \in Surface : NotAhead(s)) /\ TwoInAll /\ OneAtFirst

LEMMA CountTypes ==
  ASSUME TypeOK
  PROVE  /\ crashes \in Nat /\ turns \in Nat
         /\ \A u \in 1..MaxSent : AnswersTo(u) \in Nat
         /\ \A s \in Surface : \A u : Can(s, u) \in {0, 1} /\ Will(s, u) \in {0, 1}
  <1>1. \A u \in 1..MaxSent : AnswersTo(u) \in Nat
    <2> SUFFICES ASSUME NEW u \in 1..MaxSent PROVE AnswersTo(u) \in Nat
      OBVIOUS
    <2>1. answered \in [Surface -> [1..MaxSent -> Nat]]
      BY DEF TypeOK
    <2>2. answered["laptop"][u] \in Nat /\ answered["companion"][u] \in Nat
      BY <2>1 DEF Surface
    <2> QED BY <2>2 DEF AnswersTo
  <1>2. \A s \in Surface : \A u : Can(s, u) \in {0, 1} /\ Will(s, u) \in {0, 1}
    BY DEF Can, Will
  <1>3. crashes \in Nat /\ turns \in Nat
    BY TelegramAssumption DEF TypeOK
  <1> QED BY <1>1, <1>2, <1>3

(* Where nothing is answered and no side can do more than before, the counts *)
(* stay within their bounds.                                                 *)
LEMMA CountKept ==
  ASSUME TypeOK, TypeOK', Counted, UNCHANGED <<answered, crashes>>,
         turns' = turns \/ turns' > 0, turns' = 0 => up' = up,
         \A s \in Surface : NotAhead(s)',
         \A s \in Surface : \A u \in 1..MaxSent : Can(s, u)' <= Can(s, u),
         turns' = 0 => \A s \in Surface : Active(s)' => Active(s)
  PROVE  Counted'
  <1>1. "laptop" \in Surface /\ "companion" \in Surface
    BY DEF Surface
  <1>2. ASSUME NEW u \in 1..MaxSent PROVE AnswersTo(u)' = AnswersTo(u)
    BY DEF AnswersTo
  <1>3. TwoInAll'
    <2> SUFFICES ASSUME NEW u \in 1..MaxSent
                 PROVE (AnswersTo(u) + Can("laptop", u) + Can("companion", u) <= 2 + crashes)'
      BY DEF TwoInAll
    <2>1. AnswersTo(u) + Can("laptop", u) + Can("companion", u) <= 2 + crashes
      BY DEF Counted, TwoInAll
    <2>2. /\ Can("laptop", u)' <= Can("laptop", u)
          /\ Can("companion", u)' <= Can("companion", u)
          /\ Can("laptop", u)' \in {0, 1} /\ Can("companion", u)' \in {0, 1}
          /\ Can("laptop", u) \in {0, 1} /\ Can("companion", u) \in {0, 1}
      BY <1>1, CountTypes DEF Can
    <2>3. AnswersTo(u) \in Nat /\ crashes \in Nat
      BY CountTypes
    <2> QED BY <1>2, <2>1, <2>2, <2>3
  <1>4. OneAtFirst'
    <2> SUFFICES ASSUME turns' = 0
                 PROVE  /\ up'
                        /\ \A u \in 1..MaxSent :
                             (AnswersTo(u) + Will("laptop", u) + Will("companion", u) <= 1 + crashes)'
      BY DEF OneAtFirst
    <2>1. turns = 0 /\ up
      BY DEF Counted, OneAtFirst
    <2>2. ASSUME NEW u \in 1..MaxSent
          PROVE (AnswersTo(u) + Will("laptop", u) + Will("companion", u) <= 1 + crashes)'
      <3>1. AnswersTo(u) + Will("laptop", u) + Will("companion", u) <= 1 + crashes
        BY <2>1 DEF Counted, OneAtFirst
      <3>2. ASSUME NEW s \in Surface
            PROVE  Will(s, u)' <= Will(s, u) /\ Will(s, u)' \in {0, 1} /\ Will(s, u) \in {0, 1}
        <4>1. Can(s, u)' <= Can(s, u) /\ (Active(s)' => Active(s))
          OBVIOUS
        <4>2. Can(s, u)' \in {0, 1} /\ Can(s, u) \in {0, 1}
          BY DEF Can
        <4> QED BY <4>1, <4>2 DEF Will
      <3>3. AnswersTo(u) \in Nat /\ crashes \in Nat
        BY CountTypes
      <3>4. Will("laptop", u)' <= Will("laptop", u) /\ Will("companion", u)' <= Will("companion", u)
        BY <1>1, <3>2
      <3>5. /\ Will("laptop", u)' \in {0, 1} /\ Will("companion", u)' \in {0, 1}
            /\ Will("laptop", u) \in {0, 1} /\ Will("companion", u) \in {0, 1}
        BY <1>1, <3>2
      <3> QED BY <1>2, <3>1, <3>3, <3>4, <3>5
    <2> QED BY <2>1, <2>2
  <1> QED BY <1>3, <1>4 DEF Counted

(* A poll thread that goes round, up to the answer, only loses what it can. *)
LEMMA RoundCounted ==
  ASSUME IInv, IInv', Counted, NEW s \in Surface,
         Poll(s) \/ Return(s) \/ Accept(s) \/ Take(s) \/ Ask(s) \/ BatchDone(s)
  PROVE  Counted'
  <1>1. /\ UNCHANGED <<answered, awake, up, turns, presence, crashes>>
        /\ \A t \in Surface \ {s} : offset'[t] = offset[t] /\ poll'[t] = poll[t]
    BY DEF Poll, Return, Accept, Take, Ask, BatchDone, apiVars, laptopVars, IInv, TypeOK
  <1>2. /\ NotAhead(s)'
        /\ \A u \in 1..MaxSent : Can(s, u)' <= Can(s, u)
        /\ Active(s)' => Active(s)
    <2>0. /\ NotAhead(s) /\ offset[s] \in Nat /\ sent \in Nat /\ confirmed \in Nat
          /\ poll \in [Surface -> [pc : {"idle", "wait", "got", "work", "ask", "send"},
                                   next : 0..(sent + 1), last : 0..sent]]
          /\ poll[s].next \in Nat /\ offset \in [Surface -> 0..(sent + 1)]
      <3>1. /\ sent \in Nat /\ confirmed \in Nat /\ offset \in [Surface -> 0..(sent + 1)]
            /\ poll \in [Surface -> [pc : {"idle", "wait", "got", "work", "ask", "send"},
                                     next : 0..(sent + 1), last : 0..sent]]
        <4>1. sent \in 0..MaxSent /\ confirmed \in 0..sent
          BY DEF IInv, TypeOK
        <4>2. sent \in Nat /\ confirmed \in Nat
          BY <4>1, TelegramAssumption
        <4> QED BY <4>2 DEF IInv, TypeOK
      <3>2. offset[s] \in Nat /\ poll[s].next \in Nat
        BY <3>1
      <3> QED BY <3>1, <3>2 DEF Counted
    <2>1. CASE Poll(s)
      <3>1. poll[s].pc = "idle" /\ poll'[s].pc = "wait" /\ offset'[s] = offset[s] /\ Owns(s)
        BY <2>0, <2>1 DEF Poll, Idle, At
      <3> QED BY <1>1, <2>0, <3>1 DEF NotAhead, Can, Active, Owns, Surface
    <2>2. CASE Return(s)
      <3>1. offset'[s] = offset[s] /\ poll[s].pc = "wait"
        BY <2>2 DEF Return
      <3>2. \/ poll'[s].pc = "got" /\ poll'[s].next = First(s)
            \/ poll'[s].pc = "idle"
        BY <2>0, <2>2 DEF Return, Idle, At
      <3>3. offset[s] <= First(s)
        BY <2>0 DEF First
      <3> QED BY <1>1, <2>0, <3>1, <3>2, <3>3 DEF NotAhead, Can, Active
    <2>3. CASE Accept(s)
      <3>1. offset'[s] = offset[s] /\ poll[s].pc = "got"
        BY <2>3 DEF Accept
      <3>2. \/ poll'[s].pc = "work" /\ poll'[s].next = poll[s].next
            \/ poll'[s].pc = "idle"
        BY <2>0, <2>3 DEF Accept, Idle, At
      <3> QED BY <1>1, <2>0, <3>1, <3>2 DEF NotAhead, Can, Active
    <2>4. CASE Take(s)
      <3>1. /\ poll[s].pc = "work" /\ offset'[s] = poll[s].next + 1
            /\ poll'[s].pc = "ask" /\ poll'[s].next = poll[s].next
        BY <2>0, <2>4 DEF Take, At, OffsetAfter
      <3>2. offset[s] <= poll[s].next
        BY <2>0, <3>1 DEF NotAhead
      <3> QED BY <1>1, <2>0, <3>1, <3>2 DEF NotAhead, Can, Active
    <2>5. CASE BatchDone(s)
      <3>1. poll[s].pc = "work" /\ poll'[s].pc = "idle" /\ offset'[s] = offset[s]
        BY <2>0, <2>5 DEF BatchDone, Idle, At
      <3> QED BY <1>1, <2>0, <3>1 DEF NotAhead, Can, Active
    <2>6. CASE Ask(s)
      <3>1. /\ poll[s].pc = "ask" /\ poll'[s].pc = "send" /\ offset'[s] = offset[s]
            /\ poll'[s].next = poll[s].next
        BY <2>0, <2>6 DEF Ask, At
      <3> QED BY <1>1, <2>0, <3>1 DEF NotAhead, Can, Active
    <2> QED BY <2>1, <2>2, <2>3, <2>4, <2>5, <2>6
  <1>3. ASSUME NEW t \in Surface, t # s
        PROVE  /\ NotAhead(t)'
               /\ \A u \in 1..MaxSent : Can(t, u)' = Can(t, u)
               /\ Active(t)' => Active(t)
    BY <1>1, <1>3 DEF NotAhead, Can, Active, Counted
  <1>4. \A t \in Surface : \A u \in 1..MaxSent : Can(t, u)' <= Can(t, u)
    BY <1>2, <1>3, CountTypes DEF IInv
  <1> QED BY <1>1, <1>2, <1>3, <1>4, CountKept DEF IInv

(* Changes of sides, heartbeats and new messages add to nobody's count. *)
LEMMA AroundCounted ==
  ASSUME IInv, IInv', Counted,
         SendMessage \/ Heartbeat \/ VoiceChanges \/ Suspend \/ GraceRunsOut \/ UNCHANGED vars
  PROVE  Counted'
  <1>1. UNCHANGED <<offset, poll, answered, crashes>>
    BY DEF SendMessage, Heartbeat, VoiceChanges, Suspend, GraceRunsOut, vars, apiVars, pollVars
  <1>2. turns \in Nat /\ (turns = 0 => up)
    BY CountTypes DEF IInv, Counted, OneAtFirst
  <1>3. /\ turns' = turns \/ turns' > 0
        /\ turns' = 0 => up' = up
        /\ turns' = 0 => \A s \in Surface : Active(s)' => Active(s)
    <2>1. CASE SendMessage \/ UNCHANGED vars
      BY <2>1 DEF SendMessage, Active, vars, pollVars, laptopVars
    <2>2. CASE Heartbeat
      BY <1>1, <2>2 DEF Heartbeat, Active, laptopVars
    <2>3. CASE VoiceChanges \/ Suspend
      BY <1>2, <2>3 DEF VoiceChanges, Suspend
    <2>4. CASE GraceRunsOut
      <3>1. CASE up /\ presence = "present"
        BY <1>2, <2>4, <3>1 DEF GraceRunsOut
      <3>2. CASE ~(up /\ presence = "present")
        <4>1. UNCHANGED <<turns, up, awake>>
          BY <2>4, <3>2 DEF GraceRunsOut
        <4>2. turns' = 0 => presence # "present"
          BY <1>2, <3>2, <4>1
        <4> QED BY <1>1, <1>2, <4>1, <4>2 DEF Active
      <3> QED BY <3>1, <3>2
    <2> QED BY <2>1, <2>2, <2>3, <2>4
  <1>4. \A s \in Surface : NotAhead(s)' /\ \A u \in 1..MaxSent : Can(s, u)' = Can(s, u)
    BY <1>1 DEF NotAhead, Can, Counted
  <1>5. \A s \in Surface : \A u \in 1..MaxSent : Can(s, u)' <= Can(s, u)
    BY <1>4, CountTypes DEF IInv
  <1> QED BY <1>1, <1>3, <1>4, <1>5, CountKept DEF IInv

(* A reply uses up what the side could still do for its message, and so does *)
(* one that could not be sent.                                               *)
LEMMA SendCounted ==
  ASSUME IInv, IInv', Counted, NEW s \in Surface, Send(s)
  PROVE  Counted'
  <1>0. PICK u \in 1..MaxSent : u = poll[s].next /\ offset[s] = u + 1
    BY InHand DEF Send
  <1>1. /\ UNCHANGED <<offset, awake, up, turns, presence, crashes>>
        /\ poll[s].pc = "send" /\ poll' = [poll EXCEPT ![s] = At("work", u + 1, poll[s].last)]
        /\ offset[s] = u + 1
    BY <1>0 DEF Send, apiVars, laptopVars
  <1>2. /\ poll'[s].pc = "work" /\ poll'[s].next = u + 1
        /\ \A t \in Surface \ {s} : poll'[t] = poll[t]
    BY <1>1 DEF IInv, TypeOK, At
  <1>3. ASSUME answered' = [answered EXCEPT ![s][u] = @ + 1], NEW v \in 1..MaxSent
        PROVE  AnswersTo(v)' = IF v = u THEN AnswersTo(v) + 1 ELSE AnswersTo(v)
    BY <1>3, AnswerCounts DEF IInv
  <1>4. Active(s)' /\ Active(s)
    BY <1>1, <1>2 DEF Active
  <1>5. ASSUME NEW v \in 1..MaxSent
        PROVE  Can(s, v)' = IF v = u THEN Can(s, v) - 1 ELSE Can(s, v)
    <2>1. CASE v = u
      BY <1>0, <1>1, <1>2, <2>1 DEF Can
    <2>2. CASE v # u
      BY <1>0, <1>1, <1>2, <2>2 DEF Can
    <2> QED BY <2>1, <2>2
  <1>6. ASSUME NEW t \in Surface, t # s, NEW v \in 1..MaxSent
        PROVE  Can(t, v)' = Can(t, v) /\ Active(t)' = Active(t)
    BY <1>1, <1>2, <1>6 DEF Can, Active
  <1>7. \A t \in Surface : NotAhead(t)'
    <2> TAKE t \in Surface
    <2>1. CASE t = s
      BY <1>1, <1>2, <2>1 DEF NotAhead
    <2>2. CASE t # s
      BY <1>1, <1>2, <2>2 DEF NotAhead, Counted
    <2> QED BY <2>1, <2>2
  <1>8. ASSUME answered' = [answered EXCEPT ![s][u] = @ + 1], NEW v \in 1..MaxSent
        PROVE  /\ AnswersTo(v)' + Can("laptop", v)' + Can("companion", v)'
                    = AnswersTo(v) + Can("laptop", v) + Can("companion", v)
               /\ AnswersTo(v)' + Will("laptop", v)' + Will("companion", v)'
                    = AnswersTo(v) + Will("laptop", v) + Will("companion", v)
    <2>1. AnswersTo(v) \in Nat /\ \A t \in Surface : Can(t, v) \in {0, 1} /\ Will(t, v) \in {0, 1}
      BY CountTypes DEF IInv
    <2>2. Will(s, v)' = Can(s, v)' /\ Will(s, v) = Can(s, v)
      BY <1>4 DEF Will
    <2>3. ASSUME NEW t \in Surface, t # s PROVE Will(t, v)' = Will(t, v) /\ Can(t, v)' = Can(t, v)
      BY <1>6, <2>3 DEF Will
    <2>4. CASE s = "laptop"
      <3>1. "companion" \in Surface /\ "companion" # s
        BY <2>4 DEF Surface
      <3> QED BY <1>3, <1>5, <1>8, <2>1, <2>2, <2>3, <2>4, <3>1
    <2>5. CASE s = "companion"
      <3>1. "laptop" \in Surface /\ "laptop" # s
        BY <2>5 DEF Surface
      <3> QED BY <1>3, <1>5, <1>8, <2>1, <2>2, <2>3, <2>5, <3>1
    <2> QED BY <2>4, <2>5 DEF Surface
  <1>9. CASE answered' = [answered EXCEPT ![s][u] = @ + 1]
    BY <1>1, <1>7, <1>8, <1>9 DEF Counted, TwoInAll, OneAtFirst
  <1>10. CASE UNCHANGED answered
    <2>1. \A t \in Surface : Active(t)' => Active(t)
      BY <1>1, <1>2, <1>4 DEF Active
    <2>2. \A t \in Surface : \A v \in 1..MaxSent : Can(t, v)' <= Can(t, v)
      BY <1>5, <1>6, CountTypes DEF IInv
    <2> QED BY <1>1, <1>7, <1>10, <2>1, <2>2, CountKept DEF IInv
  <1> QED BY <1>0, <1>9, <1>10 DEF Send

(* A crash gives its side one more, and leaves no more than one side active *)
(* that was not.                                                            *)
LEMMA CrashCounted ==
  ASSUME IInv, IInv', Counted, NEW s \in Surface, Crash(s)
  PROVE  Counted'
  <1>1. /\ UNCHANGED <<answered, up, turns>> /\ crashes' = crashes + 1
        /\ poll' = [poll EXCEPT ![s] = Idle] /\ offset' = [offset EXCEPT ![s] = 0]
    BY DEF Crash, OffsetRestarted
  <1>2. /\ poll'[s].pc = "idle"
        /\ \A t \in Surface \ {s} : poll'[t] = poll[t] /\ offset'[t] = offset[t]
    BY <1>1 DEF IInv, TypeOK, Idle, At
  <1>3. \A t \in Surface : NotAhead(t)'
    BY <1>2 DEF NotAhead, Counted
  <1>4. ASSUME NEW t \in Surface, t # s, NEW v \in 1..MaxSent PROVE Can(t, v)' = Can(t, v)
    BY <1>2, <1>4 DEF Can
  <1>5. ASSUME NEW t \in Surface, NEW v \in 1..MaxSent
        PROVE  /\ Can(t, v) \in {0, 1} /\ Will(t, v) \in {0, 1}
               /\ Can(t, v)' \in {0, 1} /\ Will(t, v)' \in {0, 1}
    BY DEF Can, Will
  <1>6. ASSUME NEW v \in 1..MaxSent
        PROVE  /\ AnswersTo(v)' = AnswersTo(v) /\ AnswersTo(v) \in Nat
               /\ crashes \in Nat /\ crashes' = crashes + 1
    BY <1>1, CountTypes DEF AnswersTo, IInv
  <1>7. "laptop" \in Surface /\ "companion" \in Surface /\ s \in {"laptop", "companion"}
    BY DEF Surface
  <1>8. ASSUME NEW v \in 1..MaxSent
        PROVE  Can("laptop", v)' + Can("companion", v)' <= Can("laptop", v) + Can("companion", v) + 1
    <2>1. CASE s = "laptop"
      <3>1. Can("companion", v)' = Can("companion", v)
        BY <1>4, <1>7, <2>1
      <3> QED BY <1>5, <1>7, <3>1
    <2>2. CASE s = "companion"
      <3>1. Can("laptop", v)' = Can("laptop", v)
        BY <1>4, <1>7, <2>2
      <3> QED BY <1>5, <1>7, <3>1
    <2> QED BY <1>7, <2>1, <2>2
  <1>9. ASSUME NEW v \in 1..MaxSent
        PROVE  Will("laptop", v)' + Will("companion", v)' <= Will("laptop", v) + Will("companion", v) + 1
    <2>1. CASE s = "companion"
      <3>1. Can("laptop", v)' = Can("laptop", v) /\ poll'["laptop"] = poll["laptop"] /\ awake' = awake
        BY <1>2, <1>4, <1>7, <2>1 DEF Crash
      <3>2. Will("laptop", v)' = Will("laptop", v)
        BY <3>1 DEF Will, Active
      <3> QED BY <1>5, <1>7, <3>2
    <2>2. CASE s = "laptop" /\ awake'
      <3>1. /\ Can("companion", v)' = Can("companion", v)
            /\ poll'["companion"] = poll["companion"] /\ presence' = presence
        BY <1>2, <1>4, <1>7, <2>2 DEF Crash
      <3>2. Active("companion")' => Active("companion")
        BY <2>2, <3>1 DEF Active
      <3>3. Will("companion", v)' <= Will("companion", v)
        BY <1>5, <1>7, <3>1, <3>2 DEF Will
      <3> QED BY <1>5, <1>7, <3>3
    <2>3. CASE s = "laptop" /\ ~awake'
      <3>1. ~Active("laptop")'
        BY <1>2, <2>3 DEF Active
      <3>2. Will("laptop", v)' = 0
        BY <3>1 DEF Will
      <3> QED BY <1>5, <1>7, <3>2
    <2> QED BY <1>7, <2>1, <2>2, <2>3
  <1>10. TwoInAll'
    <2> SUFFICES ASSUME NEW v \in 1..MaxSent
                 PROVE (AnswersTo(v) + Can("laptop", v) + Can("companion", v) <= 2 + crashes)'
      BY DEF TwoInAll
    <2>1. AnswersTo(v) + Can("laptop", v) + Can("companion", v) <= 2 + crashes
      BY DEF Counted, TwoInAll
    <2> QED BY <1>5, <1>6, <1>7, <1>8, <2>1
  <1>11. OneAtFirst'
    <2> SUFFICES ASSUME turns' = 0
                 PROVE  /\ up'
                        /\ \A v \in 1..MaxSent :
                             (AnswersTo(v) + Will("laptop", v) + Will("companion", v) <= 1 + crashes)'
      BY DEF OneAtFirst
    <2>1. up' /\ \A v \in 1..MaxSent :
                   AnswersTo(v) + Will("laptop", v) + Will("companion", v) <= 1 + crashes
      BY <1>1 DEF Counted, OneAtFirst
    <2> QED BY <1>5, <1>6, <1>7, <1>9, <2>1
  <1> QED BY <1>3, <1>10, <1>11 DEF Counted

(* A message is replied to once by each side, and once more for each crash,   *)
(* and while the sides have not changed by one side only, for every number of *)
(* messages, changes and crashes.                                             *)
THEOREM AnswersBounded == Spec => []RepliesBounded
  <1>1. Init => Counted
    <2> SUFFICES ASSUME Init PROVE Counted
      OBVIOUS
    <2>1. \A s \in Surface : poll[s].pc = "idle" /\ NotAhead(s)
      BY DEF Init, Idle, At, NotAhead
    <2>2. TypeOK
      BY InitIInv DEF IInv
    <2>3. \A u \in 1..MaxSent : AnswersTo(u) = 0
      BY DEF Init, AnswersTo, Surface
    <2>4. "laptop" \in Surface /\ "companion" \in Surface
      BY DEF Surface
    <2>5. crashes = 0 /\ up
      BY DEF Init
    <2>6. Active("laptop") => ~Active("companion")
      BY <2>1, <2>4 DEF Init, Active
    <2>7. TwoInAll
      BY <2>2, <2>3, <2>4, <2>5, CountTypes DEF TwoInAll
    <2>8. \A u \in 1..MaxSent : Will("laptop", u) + Will("companion", u) <= 1
      BY <2>2, <2>4, <2>6, CountTypes DEF Will
    <2>9. OneAtFirst
      BY <2>2, <2>3, <2>4, <2>5, <2>8, CountTypes DEF OneAtFirst
    <2> QED BY <2>1, <2>7, <2>9 DEF Counted
  <1>2. IInv /\ IInv' /\ Counted /\ [Next]_vars => Counted'
    BY RoundCounted, AroundCounted, SendCounted, CrashCounted DEF Next
  <1>3. IInv /\ Counted => RepliesBounded
    <2> SUFFICES ASSUME IInv, Counted, NEW u \in 1..sent
                 PROVE  AnswersTo(u) <= (IF turns = 0 THEN 1 ELSE 2) + crashes
      BY DEF RepliesBounded
    <2>1. u \in 1..MaxSent /\ "laptop" \in Surface /\ "companion" \in Surface
      BY TelegramAssumption DEF IInv, TypeOK, Surface
    <2>2. /\ AnswersTo(u) \in Nat /\ crashes \in Nat /\ turns \in Nat
          /\ Can("laptop", u) \in {0, 1} /\ Can("companion", u) \in {0, 1}
          /\ Will("laptop", u) \in {0, 1} /\ Will("companion", u) \in {0, 1}
      BY <2>1, CountTypes DEF IInv
    <2>3. CASE turns = 0
      <3>1. AnswersTo(u) + Will("laptop", u) + Will("companion", u) <= 1 + crashes
        BY <2>1, <2>3 DEF Counted, OneAtFirst
      <3> QED BY <2>2, <2>3, <3>1
    <2>4. CASE turns # 0
      <3>1. AnswersTo(u) + Can("laptop", u) + Can("companion", u) <= 2 + crashes
        BY <2>1 DEF Counted, TwoInAll
      <3> QED BY <2>2, <2>4, <3>1
    <2> QED BY <2>3, <2>4
  <1> QED BY <1>1, <1>2, <1>3, InductiveInvariant, PTL DEF Spec
=============================================================================
