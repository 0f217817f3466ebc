------------------------------ MODULE ServeProofs ------------------------------
(***************************************************************************)
(* Proofs about Serve: whatever a greeted client's queue had room for is   *)
(* on its way to it until it has read it.                                  *)
(*                                                                         *)
(* What makes it so is when a client is subscribed: from before the        *)
(* greeting until its handler leaves or its writer is gone (Holds), so that *)
(* a broadcast that finds room never finds a greeted client missing.       *)
(***************************************************************************)
EXTENDS Serve, TLAPS

Message == 0..MaxChanges

Handler == [pc : Pcs, kind : {"none", "poll", "change", "ask"},
            phase : {"none", "thinking"}, event : Message]

Types ==
  /\ daemon \in {"up", "stopping", "down"}
  /\ h \in [Clients -> Handler]
  /\ runtime \in [holder : Clients \cup {Free}, changes : Message]
  /\ cache \in {"none", "thinking"}
  /\ subs \subseteq Clients
  /\ queue \in [Clients -> Seq(Message)]
  /\ sock \in [Clients -> [open : BOOLEAN, held : Seq(Message)]]
  /\ owed \in [Clients -> SUBSET (1..MaxChanges)]
  /\ writer \in [Clients -> {"none", "run", "done"}]

Fits == \A c \in Clients : Len(queue[c]) <= QueueCap /\ Len(sock[c].held) <= SockCap

Early(c) == h[c].pc \in {"away", "hello", "subscribe", "greet"}

OnItsWay(c) == owed[c] \subseteq Range(sock[c].held) \cup Range(queue[c])

Holds(c) ==
  /\ Early(c) => writer[c] = "none" /\ owed[c] = {}
  /\ At(c, "greet") => c \in subs
  /\ At(c, "cast") => h[c].event # 0
  /\ At(c, "ended") => writer[c] # "run"
  /\ Greeted(c) => c \in subs
  /\ Greeted(c) /\ sock[c].open => OnItsWay(c)

IInv == Types /\ Fits /\ \A c \in Clients : Holds(c)

-------------------------------------------------------------------------------
(* What queues hold. *)

LEMMA RangeOfAppend ==
  ASSUME NEW S, NEW s \in Seq(S), NEW x \in S
  PROVE  Range(Append(s, x)) = Range(s) \cup {x}
<1>1. Append(s, x) \in Seq(S) /\ Len(Append(s, x)) = Len(s) + 1 OBVIOUS
<1>2. \A i \in 1..Len(s) : Append(s, x)[i] = s[i]
  OBVIOUS
<1>3. Append(s, x)[Len(s) + 1] = x OBVIOUS
<1>4. DOMAIN s = 1..Len(s) /\ DOMAIN Append(s, x) = 1..(Len(s) + 1) /\ Len(s) \in Nat
  OBVIOUS
<1>5. \A i : i \in 1..(Len(s) + 1) <=> i \in 1..Len(s) \/ i = Len(s) + 1
  BY <1>4
<1> QED BY <1>2, <1>3, <1>4, <1>5 DEF Range

LEMMA RangeOfTail ==
  ASSUME NEW S, NEW s \in Seq(S), s # <<>>
  PROVE  Range(s) \subseteq {Head(s)} \cup Range(Tail(s))
<1>1. SUFFICES ASSUME NEW i \in DOMAIN s PROVE s[i] = Head(s) \/ s[i] \in Range(Tail(s))
  BY DEF Range
<1>2. DOMAIN s = 1..Len(s) /\ Len(s) \in Nat /\ i \in Nat
  OBVIOUS
<1>3. CASE i = 1
  BY <1>3
<1>4. CASE i # 1
  <2>1. i - 1 \in 1..(Len(s) - 1) BY <1>2, <1>4
  <2>2. DOMAIN Tail(s) = 1..(Len(s) - 1) /\ Tail(s)[i - 1] = s[i]
    BY <1>2, <1>4
  <2> QED BY <2>1, <2>2 DEF Range
<1> QED BY <1>3, <1>4

LEMMA RangeOfQueue ==
  ASSUME NEW S, NEW s \in Seq(S)
  PROVE  Range(s) \subseteq S
BY DEF Range

-------------------------------------------------------------------------------
\* What Goto does.
LEMMA Goes ==
  ASSUME Types, NEW c \in Clients, NEW pc \in Pcs, Goto(c, pc)
  PROVE  /\ h' \in [Clients -> Handler]
         /\ h'[c].pc = pc /\ h'[c].event = h[c].event
         /\ \A d \in Clients \ {c} : h'[d] = h[d]
<1>1. h[c] \in Handler BY DEF Types
<1>2. [h[c] EXCEPT !.pc = pc] \in Handler BY <1>1 DEF Handler
<1>3. [h[c] EXCEPT !.pc = pc].pc = pc /\ [h[c] EXCEPT !.pc = pc].event = h[c].event
  BY <1>1 DEF Handler
<1>4. h' = [h EXCEPT ![c] = [h[c] EXCEPT !.pc = pc]] BY DEF Goto
<1> QED BY <1>2, <1>3, <1>4 DEF Types

\* A step that is not about client d leaves what holds of it.
LEMMA Apart ==
  ASSUME NEW d \in Clients, Holds(d),
         h'[d] = h[d], writer'[d] = writer[d], queue'[d] = queue[d],
         sock'[d] = sock[d], owed'[d] = owed[d], d \in subs => d \in subs'
  PROVE  Holds(d)'
BY DEF Holds, Early, At, Greeted, OnItsWay

\* A handler's step that touches neither queues nor sockets, and neither starts nor
\* ends the handler.
LEMMA Quiet ==
  ASSUME IInv, NEW c \in Clients, Types', UNCHANGED <<wire, owed, subs>>,
         \A d \in Clients \ {c} : h'[d] = h[d],
         ~Early(c), ~At(c, "leave"), ~At(c, "join"),
         h'[c].pc \notin {"away", "hello", "subscribe", "greet", "ended"},
         h'[c].pc = "cast" => h'[c].event # 0
  PROVE  IInv'
<1>1. \A d \in Clients \ {c} : Holds(d)'
  BY Apart DEF IInv, wire
<1>2. Holds(c)'
  BY DEF IInv, Holds, Early, At, Greeted, OnItsWay, wire
<1>3. Fits'
  BY DEF IInv, Fits, wire
<1> QED BY <1>1, <1>2, <1>3 DEF IInv

-------------------------------------------------------------------------------
LEMMA InitIInv == Init => IInv
<1> SUFFICES ASSUME Init PROVE IInv OBVIOUS
<1>0. 0 \in Message /\ QueueCap \in Nat /\ SockCap \in Nat
  BY ServeAssumption DEF Message
<1>1. Types
  <2>1. Resting \in Handler
    BY <1>0 DEF Resting, Pcs, Handler
  <2>2. <<>> \in Seq(Message) OBVIOUS
  <2> QED BY <1>0, <2>1, <2>2 DEF Types, Init, Free
<1>2. Fits
  BY <1>0 DEF Fits, Init
<1>3. \A c \in Clients : Holds(c)
  BY DEF Holds, Init, Early, At, Greeted, Resting
<1> QED BY <1>1, <1>2, <1>3 DEF IInv

-------------------------------------------------------------------------------
(* How a connection begins. *)

LEMMA AcceptKeeps ==
  ASSUME IInv, NEW c \in Clients, Accept(c)
  PROVE  IInv'
<1>1. Types'
  <2>1. h' \in [Clients -> Handler]
    BY Goes DEF IInv, Accept, Pcs
  <2>2. sock' \in [Clients -> [open : BOOLEAN, held : Seq(Message)]]
    BY DEF IInv, Types, Accept
  <2> QED BY <2>1, <2>2 DEF IInv, Types, Accept
<1>2. \A d \in Clients \ {c} : Holds(d)'
  BY Apart DEF IInv, Types, Accept, Goto
<1>3. h'[c].pc = "hello" /\ h[c].pc = "away"
  BY DEF IInv, Types, Accept, Goto, At
<1>4. Holds(c)'
  BY <1>3 DEF IInv, Holds, Early, At, Greeted, OnItsWay, Accept
<1>5. Fits'
  BY DEF IInv, Types, Fits, Accept
<1> QED BY <1>1, <1>2, <1>4, <1>5 DEF IInv

LEMMA HelloKeeps ==
  ASSUME IInv, NEW c \in Clients, Hello(c)
  PROVE  IInv'
<1>1. Types'
  BY Goes DEF IInv, Types, Hello, Pcs, wire
<1>2. \A d \in Clients \ {c} : Holds(d)'
  BY Apart DEF IInv, Types, Hello, Goto, wire
<1>3. h'[c].pc \in {"subscribe", "ended"} /\ h[c].pc = "hello"
  BY Goes DEF IInv, Hello, At, Pcs
<1>4. Holds(c)'
  BY <1>3 DEF IInv, Holds, Early, At, Greeted, OnItsWay, Hello, wire
<1>5. Fits'
  BY DEF IInv, Fits, Hello, wire
<1> QED BY <1>1, <1>2, <1>4, <1>5 DEF IInv

LEMMA SubscribeKeeps ==
  ASSUME IInv, NEW c \in Clients, Subscribe(c)
  PROVE  IInv'
<1>1. Types'
  BY Goes DEF IInv, Types, Subscribe, Pcs, wire
<1>2. \A d \in Clients \ {c} : Holds(d)'
  BY Apart DEF IInv, Types, Subscribe, Goto, wire
<1>3. h'[c].pc = "greet" /\ h[c].pc = "subscribe"
  BY DEF IInv, Types, Subscribe, Goto, At
<1>4. Holds(c)'
  BY <1>3 DEF IInv, Holds, Early, At, Greeted, OnItsWay, Subscribe, wire
<1>5. Fits'
  BY DEF IInv, Fits, Subscribe, wire
<1> QED BY <1>1, <1>2, <1>4, <1>5 DEF IInv

LEMMA GreetKeeps ==
  ASSUME IInv, NEW c \in Clients, Greet(c)
  PROVE  IInv'
<1>0. \A d \in Clients \ {c} : h'[d] = h[d] /\ writer'[d] = writer[d] /\ queue'[d] = queue[d]
                               /\ (d \in subs => d \in subs')
  BY DEF IInv, Types, Greet, Goto
<1>1. \A d \in Clients \ {c} : Holds(d)'
  BY <1>0, Apart DEF IInv, Greet
<1>2. CASE sock[c].open
  <2>1. Types'
    BY <1>2, Goes DEF IInv, Types, Greet, Pcs
  <2>2. h'[c].pc = "read" /\ h[c].pc = "greet" /\ owed' = owed /\ subs' = subs
        /\ sock' = sock /\ queue' = queue
    BY <1>2, Goes DEF IInv, Greet, At, Pcs
  <2>3. c \in subs
    BY <2>2 DEF IInv, Holds, At
  <2>4. Holds(c)'
    BY <2>2, <2>3 DEF IInv, Holds, Early, At, Greeted, OnItsWay
  <2>5. Fits'
    BY <2>2 DEF IInv, Fits
  <2> QED BY <1>1, <2>1, <2>4, <2>5 DEF IInv
<1>3. CASE ~sock[c].open
  <2>0. h' \in [Clients -> Handler]
    BY <1>3, Goes DEF IInv, Greet, Pcs
  <2>1. Types'
    <3>1. <<>> \in Seq(Message) OBVIOUS
    <3>2. queue' \in [Clients -> Seq(Message)]
      BY <1>3, <3>1 DEF IInv, Types, Greet
    <3>3. subs' \subseteq Clients /\ UNCHANGED <<daemon, runtime, cache, sock, owed, writer>>
      BY <1>3 DEF IInv, Types, Greet
    <3> QED BY <2>0, <3>2, <3>3 DEF IInv, Types
  <2>2. h'[c].pc = "ended" /\ h[c].pc = "greet" /\ owed' = owed /\ writer' = writer
        /\ sock' = sock
    BY <1>3, Goes DEF IInv, Greet, At, Pcs
  <2>3. Holds(c)'
    BY <2>2 DEF IInv, Holds, Early, At, Greeted, OnItsWay
  <2>4. queue'[c] = <<>>
    BY <1>3 DEF IInv, Types, Greet
  <2>5. Fits'
    BY <1>0, <2>2, <2>4, ServeAssumption DEF IInv, Fits
  <2> QED BY <1>1, <2>1, <2>3, <2>5 DEF IInv
<1> QED BY <1>2, <1>3

-------------------------------------------------------------------------------
(* A request, up to where its events are broadcast. *)

LEMMA RequestKeeps ==
  ASSUME IInv, NEW c \in Clients, NEW kind \in Sends[c], Request(c, kind)
  PROVE  IInv'
<1> DEFINE pc == CASE kind = "poll" -> "poll" [] kind = "ask" -> "think" [] OTHER -> "wait"
           next == [Resting EXCEPT !.kind = kind, !.pc = pc]
<1>1. kind \in {"poll", "change", "ask"}
  BY ServeAssumption
<1>2. pc \in {"poll", "think", "wait"}
  OBVIOUS
<1>3. h' = [h EXCEPT ![c] = next]
  BY DEF Request
<1> HIDE DEF pc
<1>4. next \in Handler /\ next.pc \in {"poll", "think", "wait"}
  <2> DEFINE asks == [Resting EXCEPT !.kind = kind]
  <2>1. 0 \in Message /\ pc \in Pcs
    BY <1>2, ServeAssumption DEF Message, Pcs
  <2>2. asks \in Handler
    BY <1>1, <2>1 DEF Handler, Resting, Pcs
  <2>3. next = [asks EXCEPT !.pc = pc]
    OBVIOUS
  <2> HIDE DEF asks, next
  <2>4. [asks EXCEPT !.pc = pc] \in Handler /\ [asks EXCEPT !.pc = pc].pc = pc
    BY <2>1, <2>2 DEF Handler
  <2> QED BY <1>2, <2>3, <2>4
<1> HIDE DEF next
<1>5. h'[c] = next /\ h' \in [Clients -> Handler] /\ \A d \in Clients \ {c} : h'[d] = h[d]
  BY <1>3, <1>4 DEF IInv, Types
<1>6. Types'
  BY <1>5 DEF IInv, Types, Request, wire
<1>7. h[c].pc = "read" /\ UNCHANGED <<wire, owed, subs>>
  BY DEF Request, At
<1> QED BY <1>4, <1>5, <1>6, <1>7, Quiet DEF Early, At

LEMMA ThinkKeeps ==
  ASSUME IInv, NEW c \in Clients, Think(c)
  PROVE  IInv'
<1>1. Goto(c, "wait") /\ "wait" \in Pcs /\ Types
  BY DEF Think, Pcs, IInv
<1>2. Types'
  BY <1>1, Goes DEF Types, Think, wire
<1>3. h[c].pc = "think" /\ UNCHANGED <<wire, owed, subs>>
  BY DEF Think, At
<1> QED BY <1>1, <1>2, <1>3, Goes, Quiet DEF Early, At

LEMMA EnterKeeps ==
  ASSUME IInv, NEW c \in Clients, Enter(c)
  PROVE  IInv'
<1>1. Goto(c, "work") /\ "work" \in Pcs /\ Types
  BY DEF Enter, Pcs, IInv
<1>2. Types'
  BY <1>1, Goes DEF Types, Enter, wire
<1>3. h[c].pc = "wait" /\ UNCHANGED <<wire, owed, subs>>
  BY DEF Enter, At
<1> QED BY <1>1, <1>2, <1>3, Goes, Quiet DEF Early, At

LEMMA DisconnectKeeps ==
  ASSUME IInv, NEW c \in Clients, Disconnect(c)
  PROVE  IInv'
<1>1. Goto(c, "leave") /\ "leave" \in Pcs /\ Types
  BY DEF Disconnect, Pcs, IInv
<1>2. Types'
  BY <1>1, Goes DEF Types, Disconnect, wire
<1>3. h[c].pc = "read" /\ UNCHANGED <<wire, owed, subs>>
  BY DEF Disconnect, At
<1> QED BY <1>1, <1>2, <1>3, Goes, Quiet DEF Early, At

LEMMA WorkKeeps ==
  ASSUME IInv, NEW c \in Clients, Work(c)
  PROVE  IInv'
<1>0. h[c].pc = "work" /\ UNCHANGED <<wire, owed, subs, daemon, cache>>
  BY DEF Work, At, wire
<1>1. 0 \in Message /\ runtime.changes \in Message
      /\ runtime \in [holder : Clients \cup {Free}, changes : Message]
  BY ServeAssumption DEF Message, IInv, Types
<1>2. PICK r \in Handler : /\ r.pc = "remember" /\ h' = [h EXCEPT ![c] = r]
                          /\ runtime' \in [holder : Clients \cup {Free}, changes : Message]
  <2>1. CASE h' = [h EXCEPT ![c] = [Resting EXCEPT !.pc = "remember"]]
             /\ runtime' = [runtime EXCEPT !.holder = Free]
    <3>1. [Resting EXCEPT !.pc = "remember"] \in Handler
          /\ [Resting EXCEPT !.pc = "remember"].pc = "remember"
      BY <1>1 DEF Handler, Resting, Pcs
    <3> QED BY <1>1, <2>1, <3>1
  <2>2. CASE /\ runtime.changes < MaxChanges
             /\ runtime' = [runtime EXCEPT !.holder = Free, !.changes = @ + 1]
             /\ h' = [h EXCEPT ![c] =
                       [Resting EXCEPT !.pc = "remember", !.event = runtime.changes + 1]]
    <3>1. runtime.changes + 1 \in Message
      BY <1>1, <2>2, ServeAssumption DEF Message
    <3>2. [Resting EXCEPT !.pc = "remember", !.event = runtime.changes + 1] \in Handler
          /\ [Resting EXCEPT !.pc = "remember", !.event = runtime.changes + 1].pc = "remember"
      BY <3>1 DEF Handler, Resting, Pcs
    <3> QED BY <1>1, <2>2, <3>1, <3>2
  <2> QED BY <2>1, <2>2 DEF Work
<1>3. h'[c].pc = "remember" /\ h' \in [Clients -> Handler] /\ \A d \in Clients \ {c} : h'[d] = h[d]
  BY <1>2 DEF IInv, Types
<1>4. Types'
  BY <1>0, <1>2, <1>3 DEF IInv, Types, wire
<1> QED BY <1>0, <1>3, <1>4, Quiet DEF Early, At

LEMMA PollKeeps ==
  ASSUME IInv, NEW c \in Clients, Poll(c)
  PROVE  IInv'
<1> DEFINE told == IF runtime.holder = Free THEN "none" ELSE cache
           next == [h[c] EXCEPT !.pc = "remember", !.phase = told]
<1>0. h[c].pc = "poll" /\ UNCHANGED <<wire, owed, subs, daemon, runtime, cache>>
  BY DEF Poll, At, wire
<1>1. told \in {"none", "thinking"} /\ h[c] \in Handler
  BY DEF IInv, Types
<1>2. h' = [h EXCEPT ![c] = next]
  BY DEF Poll
<1> HIDE DEF told
<1>3. next \in Handler /\ next.pc = "remember"
  BY <1>1 DEF Handler, Pcs
<1> HIDE DEF next
<1>4. h'[c].pc = "remember" /\ h' \in [Clients -> Handler] /\ \A d \in Clients \ {c} : h'[d] = h[d]
  BY <1>2, <1>3 DEF IInv, Types
<1>5. Types'
  BY <1>0, <1>4 DEF IInv, Types, wire
<1> QED BY <1>0, <1>4, <1>5, Quiet DEF Early, At

LEMMA RememberKeeps ==
  ASSUME IInv, NEW c \in Clients, Remember(c)
  PROVE  IInv'
<1> DEFINE pc == IF h[c].event = 0 THEN "answer" ELSE "cast"
           next == [Resting EXCEPT !.event = h[c].event, !.pc = pc]
<1>0. h[c].pc = "remember" /\ cache' = h[c].phase /\ UNCHANGED <<wire, owed, subs, daemon, runtime>>
  BY DEF Remember, At, wire
<1>1. h[c] \in Handler
  BY DEF IInv, Types
<1>2. h' = [h EXCEPT ![c] = next]
  BY DEF Remember
<1>3. next \in Handler /\ next.pc \in {"answer", "cast"} /\ (next.pc = "cast" => next.event # 0)
  BY <1>1 DEF Handler, Pcs, Resting
<1> HIDE DEF next
<1>4. h'[c] = next /\ h' \in [Clients -> Handler] /\ \A d \in Clients \ {c} : h'[d] = h[d]
  BY <1>2, <1>3 DEF IInv, Types
<1>5. cache' \in {"none", "thinking"}
  BY <1>0, <1>1 DEF Handler
<1>6. Types'
  BY <1>0, <1>4, <1>5 DEF IInv, Types, wire
<1> QED BY <1>0, <1>3, <1>4, <1>6, Quiet DEF Early, At

-------------------------------------------------------------------------------
(* Broadcast, answer, and the end of a handler. *)

LEMMA CastKeeps ==
  ASSUME IInv, NEW c \in Clients, Cast(c)
  PROVE  IInv'
<1> DEFINE n == h[c].event
<1>1. h[c].pc = "cast" /\ h[c] \in Handler /\ n \in Message /\ n # 0
  BY DEF Cast, At, IInv, Types, Handler, Holds
<1>2. n \in 1..MaxChanges
  BY <1>1, ServeAssumption DEF Message
<1>3. UNCHANGED <<daemon, runtime, cache, writer, sock>> /\ subs' = {s \in subs : writer[s] # "done"}
  BY DEF Cast
<1>4. queue' = Queued(n) /\ owed' = Owed(n)
  BY DEF Cast
<1>5. /\ h' \in [Clients -> Handler] /\ h'[c].pc = "answer"
      /\ \A d \in Clients \ {c} : h'[d] = h[d]
  <2>1. h' = [h EXCEPT ![c] = [h[c] EXCEPT !.pc = "answer", !.event = 0]]
    BY DEF Cast
  <2>2. 0 \in Message BY ServeAssumption DEF Message
  <2>3. [h[c] EXCEPT !.pc = "answer", !.event = 0] \in Handler
        /\ [h[c] EXCEPT !.pc = "answer", !.event = 0].pc = "answer"
    BY <1>1, <2>2 DEF Handler, Pcs
  <2> QED BY <2>1, <2>3 DEF IInv, Types
<1> HIDE DEF n
<1>6. ASSUME NEW d \in Clients
      PROVE  /\ queue'[d] \in Seq(Message) /\ Len(queue'[d]) <= QueueCap
             /\ owed'[d] \in SUBSET (1..MaxChanges)
             /\ Holds(d)'
  <2>1. queue[d] \in Seq(Message) /\ owed[d] \in SUBSET (1..MaxChanges) /\ Len(queue[d]) <= QueueCap
        /\ Holds(d)
    BY DEF IInv, Types, Fits
  <2>2. queue'[d] = IF d \in subs /\ HasRoom(d) /\ writer[d] # "done"
                    THEN Append(queue[d], n) ELSE queue[d]
    BY <1>4 DEF Queued
  <2>3. owed'[d] = IF Greeted(d) /\ HasRoom(d) THEN owed[d] \cup {n} ELSE owed[d]
    BY <1>4 DEF Owed
  <2>4. Append(queue[d], n) \in Seq(Message) /\ Len(Append(queue[d], n)) = Len(queue[d]) + 1
        /\ Len(queue[d]) \in Nat
    BY <1>1, <2>1
  <2>5. queue'[d] \in Seq(Message) /\ Len(queue'[d]) <= QueueCap
    BY <2>1, <2>2, <2>4, ServeAssumption DEF HasRoom
  <2>6. owed'[d] \in SUBSET (1..MaxChanges)
    BY <1>2, <2>1, <2>3
  <2>7. ASSUME Greeted(d)
        PROVE  d \in subs' /\ (sock[d].open => OnItsWay(d)')
    <3>1. d \in subs /\ writer[d] = "run"
      BY <2>1, <2>7 DEF Holds, Greeted
    <3>2. CASE HasRoom(d)
      <4>1. queue'[d] = Append(queue[d], n) /\ owed'[d] = owed[d] \cup {n}
        BY <2>2, <2>3, <2>7, <3>1, <3>2
      <4>2. Range(queue'[d]) = Range(queue[d]) \cup {n}
        BY <1>1, <2>1, <4>1, RangeOfAppend
      <4> QED BY <1>3, <2>1, <2>7, <3>1, <4>1, <4>2 DEF Holds, OnItsWay
    <3>3. CASE ~HasRoom(d)
      <4>1. queue'[d] = queue[d] /\ owed'[d] = owed[d]
        BY <2>2, <2>3, <3>3
      <4> QED BY <1>3, <2>1, <2>7, <3>1, <4>1 DEF Holds, OnItsWay
    <3> QED BY <3>2, <3>3
  <2>8. h'[d].pc = h[d].pc \/ (d = c /\ h'[d].pc = "answer")
    BY <1>5
  <2>9. Greeted(d)' <=> Greeted(d)
    BY <1>1, <1>3, <2>8 DEF Greeted, At
  <2>10. Early(d)' => writer'[d] = "none" /\ owed'[d] = {}
    <3>1. ASSUME Early(d)' PROVE Early(d)
      BY <1>1, <2>8, <3>1 DEF Early
    <3>2. ASSUME Early(d) PROVE writer[d] = "none" /\ owed[d] = {} /\ ~Greeted(d)
      BY <2>1, <3>2 DEF Holds, Greeted
    <3> QED BY <1>3, <2>3, <3>1, <3>2
  <2>11. At(d, "greet")' => d \in subs'
    <3>1. ASSUME At(d, "greet")' PROVE At(d, "greet") /\ Early(d)
      BY <2>8, <3>1 DEF At, Early
    <3> QED BY <1>3, <2>1, <3>1 DEF Holds
  <2>12. At(d, "cast")' => h'[d].event # 0
    BY <1>5, <2>1 DEF At, Holds
  <2>13. At(d, "ended")' => writer'[d] # "run"
    BY <1>3, <2>1, <2>8 DEF At, Holds
  <2> QED BY <1>3, <2>5, <2>6, <2>7, <2>9, <2>10, <2>11, <2>12, <2>13 DEF Holds
<1>7. Types'
  <2>1. queue' \in [Clients -> Seq(Message)]
    BY <1>4, <1>6 DEF Queued
  <2>2. owed' \in [Clients -> SUBSET (1..MaxChanges)]
    BY <1>4, <1>6 DEF Owed
  <2> QED BY <1>3, <1>5, <2>1, <2>2 DEF IInv, Types
<1>8. Fits'
  BY <1>3, <1>6 DEF IInv, Fits
<1> QED BY <1>6, <1>7, <1>8 DEF IInv

LEMMA AnswerKeeps ==
  ASSUME IInv, NEW c \in Clients, Answer(c)
  PROVE  IInv'
<1>0. h[c].pc = "answer" /\ UNCHANGED <<daemon, runtime, cache, subs, writer, sock, owed>>
  BY DEF Answer, At
<1>1. CASE /\ HasRoom(c) /\ queue' = [queue EXCEPT ![c] = Append(@, Reply)]
           /\ h' = [h EXCEPT ![c] = [Resting EXCEPT !.pc = "read"]]
  <2>1. [Resting EXCEPT !.pc = "read"] \in Handler /\ [Resting EXCEPT !.pc = "read"].pc = "read"
    BY ServeAssumption DEF Resting, Handler, Pcs, Message
  <2>2. /\ h' \in [Clients -> Handler] /\ h'[c].pc = "read"
        /\ \A d \in Clients \ {c} : h'[d] = h[d]
    BY <1>1, <2>1 DEF IInv, Types
  <2>3. Reply \in Message /\ queue[c] \in Seq(Message)
    BY ServeAssumption DEF Reply, Message, IInv, Types
  <2>4. /\ queue' \in [Clients -> Seq(Message)] /\ queue'[c] = Append(queue[c], Reply)
        /\ \A d \in Clients \ {c} : queue'[d] = queue[d]
    BY <1>1, <2>3 DEF IInv, Types
  <2>5. Range(queue'[c]) = Range(queue[c]) \cup {Reply} /\ Len(queue'[c]) <= QueueCap
    <3>1. Len(Append(queue[c], Reply)) = Len(queue[c]) + 1 /\ Len(queue[c]) \in Nat
      BY <2>3
    <3> QED BY <1>1, <2>3, <2>4, <3>1, RangeOfAppend, ServeAssumption DEF HasRoom
  <2>6. Holds(c)'
    BY <1>0, <2>2, <2>5 DEF IInv, Holds, Early, At, Greeted, OnItsWay
  <2>7. \A d \in Clients \ {c} : Holds(d)'
    BY <1>0, <2>2, <2>4, Apart DEF IInv
  <2>8. Types'
    BY <1>0, <2>2, <2>4 DEF IInv, Types
  <2>9. Fits'
    BY <1>0, <2>4, <2>5 DEF IInv, Fits
  <2> QED BY <2>6, <2>7, <2>8, <2>9 DEF IInv
<1>2. CASE Goto(c, "leave") /\ UNCHANGED queue
  <2>1. "leave" \in Pcs /\ Types
    BY DEF Pcs, IInv
  <2>2. Types'
    BY <1>0, <1>2, <2>1, Goes DEF Types
  <2> QED BY <1>0, <1>2, <2>1, <2>2, Goes, Quiet DEF Early, At, wire
<1> QED BY <1>1, <1>2 DEF Answer

LEMMA LeaveKeeps ==
  ASSUME IInv, NEW c \in Clients, Leave(c)
  PROVE  IInv'
<1>1. Goto(c, "join") /\ "join" \in Pcs /\ Types /\ h[c].pc = "leave"
  BY DEF Leave, Pcs, IInv, At
<1>2. Types'
  BY <1>1, Goes DEF Types, Leave, wire
<1>3. h'[c].pc = "join" /\ \A d \in Clients \ {c} : h'[d] = h[d]
  BY <1>1, Goes
<1>4. Holds(c)'
  BY <1>3 DEF IInv, Holds, Early, At, Greeted
<1>5. \A d \in Clients \ {c} : Holds(d)'
  BY <1>3, Apart DEF IInv, Leave, wire
<1>6. Fits'
  BY DEF IInv, Fits, Leave, wire
<1> QED BY <1>2, <1>4, <1>5, <1>6 DEF IInv

LEMMA JoinKeeps ==
  ASSUME IInv, NEW c \in Clients, Join(c)
  PROVE  IInv'
<1>1. Goto(c, "ended") /\ "ended" \in Pcs /\ Types /\ h[c].pc = "join" /\ writer[c] = "done"
  BY DEF Join, Pcs, IInv, At
<1>2. Types'
  BY <1>1, Goes DEF Types, Join, wire
<1>3. h'[c].pc = "ended" /\ \A d \in Clients \ {c} : h'[d] = h[d]
  BY <1>1, Goes
<1>4. Holds(c)'
  BY <1>1, <1>3 DEF IInv, Holds, Early, At, Greeted, Join, wire
<1>5. \A d \in Clients \ {c} : Holds(d)'
  BY <1>3, Apart DEF IInv, Join, wire
<1>6. Fits'
  BY DEF IInv, Fits, Join, wire
<1> QED BY <1>2, <1>4, <1>5, <1>6 DEF IInv

-------------------------------------------------------------------------------
(* The writer, the client, and the end of the server. *)

LEMMA WriteKeeps ==
  ASSUME IInv, NEW c \in Clients, Write(c)
  PROVE  IInv'
<1>0. UNCHANGED <<daemon, h, runtime, cache, subs, owed>> /\ queue[c] # <<>> /\ writer[c] = "run"
  BY DEF Write
<1>1. queue[c] \in Seq(Message) /\ Len(queue[c]) <= QueueCap /\ sock[c].held \in Seq(Message)
  BY DEF IInv, Types, Fits
<1>2. CASE sock[c].open
  <2> DEFINE x == Head(queue[c])
             held == Append(sock[c].held, x)
  <2>1. x \in Message /\ Tail(queue[c]) \in Seq(Message) /\ Len(Tail(queue[c])) = Len(queue[c]) - 1
        /\ Len(queue[c]) \in Nat
    BY <1>0, <1>1
  <2>2. held \in Seq(Message) /\ Len(held) = Len(sock[c].held) + 1 /\ Len(sock[c].held) \in Nat
    BY <1>1, <2>1
  <2>3. sock' = [sock EXCEPT ![c] = [sock[c] EXCEPT !.held = held]]
    BY <1>2 DEF Write
  <2>4. Range(held) = Range(sock[c].held) \cup {x}
    BY <1>1, <2>1, RangeOfAppend
  <2>5. Range(queue[c]) \subseteq {x} \cup Range(Tail(queue[c]))
    BY <1>0, <1>1, RangeOfTail
  <2>6. Len(sock[c].held) < SockCap
    BY <1>2 DEF Write
  <2> HIDE DEF held, x
  <2>7. /\ sock' \in [Clients -> [open : BOOLEAN, held : Seq(Message)]]
        /\ sock'[c].held = held /\ sock'[c].open = sock[c].open
        /\ \A d \in Clients \ {c} : sock'[d] = sock[d]
    BY <2>2, <2>3 DEF IInv, Types
  <2>8. /\ queue' \in [Clients -> Seq(Message)] /\ queue'[c] = Tail(queue[c])
        /\ \A d \in Clients \ {c} : queue'[d] = queue[d]
    <3>1. queue' = [queue EXCEPT ![c] = Tail(queue[c])]
      BY <1>2 DEF Write
    <3> QED BY <2>1, <3>1 DEF IInv, Types
  <2>9. writer' = writer
    BY <1>2 DEF Write
  <2>10. Holds(c)'
    BY <1>0, <2>4, <2>5, <2>7, <2>8, <2>9 DEF IInv, Holds, Early, At, Greeted, OnItsWay
  <2>11. \A d \in Clients \ {c} : Holds(d)'
    BY <1>0, <2>7, <2>8, <2>9, Apart DEF IInv
  <2>12. Fits'
    <3>1. Len(queue'[c]) <= QueueCap
      BY <1>1, <2>1, <2>8, ServeAssumption
    <3>2. Len(sock'[c].held) <= SockCap
      BY <2>2, <2>6, <2>7, ServeAssumption
    <3> QED BY <2>7, <2>8, <3>1, <3>2 DEF IInv, Fits
  <2> QED BY <1>0, <2>7, <2>8, <2>9, <2>10, <2>11, <2>12 DEF IInv, Types
<1>3. CASE ~sock[c].open
  <2>1. <<>> \in Seq(Message) /\ Len(<<>>) = 0 OBVIOUS
  <2>2. /\ queue' \in [Clients -> Seq(Message)] /\ queue'[c] = <<>>
        /\ \A d \in Clients \ {c} : queue'[d] = queue[d]
    BY <1>3, <2>1 DEF IInv, Types, Write
  <2>3. /\ writer' \in [Clients -> {"none", "run", "done"}] /\ writer'[c] = "done" /\ sock' = sock
        /\ \A d \in Clients \ {c} : writer'[d] = writer[d]
    BY <1>3 DEF IInv, Types, Write
  <2>4. Holds(c)'
    BY <1>0, <2>3 DEF IInv, Holds, Early, At, Greeted
  <2>5. \A d \in Clients \ {c} : Holds(d)'
    BY <1>0, <2>2, <2>3, Apart DEF IInv
  <2>6. Fits'
    <3>1. Len(queue'[c]) <= QueueCap
      BY <2>1, <2>2, ServeAssumption
    <3> QED BY <2>2, <2>3, <3>1 DEF IInv, Fits
  <2> QED BY <1>0, <2>2, <2>3, <2>4, <2>5, <2>6 DEF IInv, Types
<1> QED BY <1>2, <1>3

LEMMA WriterEndsKeeps ==
  ASSUME IInv, NEW c \in Clients, WriterEnds(c)
  PROVE  IInv'
<1>1. Types'
  BY DEF IInv, Types, WriterEnds
<1>2. writer'[c] = "done" /\ h[c].pc = "join" /\ \A d \in Clients \ {c} : writer'[d] = writer[d]
  BY DEF IInv, Types, WriterEnds, At
<1>3. Holds(c)'
  BY <1>2 DEF Holds, Early, At, Greeted, WriterEnds
<1>4. \A d \in Clients \ {c} : Holds(d)'
  BY <1>2, Apart DEF IInv, WriterEnds
<1>5. Fits'
  BY DEF IInv, Fits, WriterEnds
<1> QED BY <1>1, <1>3, <1>4, <1>5 DEF IInv

LEMMA ReadKeeps ==
  ASSUME IInv, NEW c \in Clients, Read(c)
  PROVE  IInv'
<1> DEFINE held == sock[c].held
<1>0. UNCHANGED <<daemon, h, runtime, cache, subs, queue, writer>> /\ held # <<>> /\ held \in Seq(Message)
  BY DEF Read, IInv, Types
<1>1. Tail(held) \in Seq(Message) /\ Len(Tail(held)) = Len(held) - 1 /\ Len(held) \in Nat
  BY <1>0
<1>2. Range(held) \subseteq {Head(held)} \cup Range(Tail(held))
  BY <1>0, RangeOfTail
<1>3. sock' = [sock EXCEPT ![c] = [sock[c] EXCEPT !.held = Tail(held)]]
      /\ owed' = [owed EXCEPT ![c] = owed[c] \ {Head(held)}]
  BY DEF Read
<1>4. /\ sock' \in [Clients -> [open : BOOLEAN, held : Seq(Message)]]
      /\ sock'[c].held = Tail(held) /\ sock'[c].open = sock[c].open
      /\ \A d \in Clients \ {c} : sock'[d] = sock[d]
  BY <1>1, <1>3 DEF IInv, Types
<1>5. /\ owed' \in [Clients -> SUBSET (1..MaxChanges)] /\ owed'[c] = owed[c] \ {Head(held)}
      /\ \A d \in Clients \ {c} : owed'[d] = owed[d]
  BY <1>3 DEF IInv, Types
<1>6. Holds(c)'
  BY <1>0, <1>2, <1>4, <1>5 DEF IInv, Holds, Early, At, Greeted, OnItsWay
<1>7. \A d \in Clients \ {c} : Holds(d)'
  BY <1>0, <1>4, <1>5, Apart DEF IInv
<1>8. Fits'
  <2>1. Len(sock'[c].held) <= SockCap
    BY <1>1, <1>4, ServeAssumption DEF IInv, Fits
  <2> QED BY <1>0, <1>4, <2>1 DEF IInv, Fits
<1> QED BY <1>0, <1>4, <1>5, <1>6, <1>7, <1>8 DEF IInv, Types

LEMMA CloseKeeps ==
  ASSUME IInv, NEW c \in Clients, Close(c)
  PROVE  IInv'
<1>0. UNCHANGED <<daemon, h, runtime, cache, subs, queue, writer>>
  BY DEF Close
<1>1. <<>> \in Seq(Message) /\ Len(<<>>) = 0 OBVIOUS
<1>2. /\ sock' \in [Clients -> [open : BOOLEAN, held : Seq(Message)]]
      /\ sock'[c].held = <<>> /\ sock'[c].open = FALSE
      /\ \A d \in Clients \ {c} : sock'[d] = sock[d]
  BY <1>1 DEF IInv, Types, Close
<1>3. /\ owed' \in [Clients -> SUBSET (1..MaxChanges)] /\ owed'[c] = {}
      /\ \A d \in Clients \ {c} : owed'[d] = owed[d]
  BY DEF IInv, Types, Close
<1>4. Holds(c)'
  BY <1>0, <1>2, <1>3 DEF IInv, Holds, Early, At, Greeted
<1>5. \A d \in Clients \ {c} : Holds(d)'
  BY <1>0, <1>2, <1>3, Apart DEF IInv
<1>6. Fits'
  <2>1. Len(sock'[c].held) <= SockCap
    BY <1>1, <1>2, ServeAssumption
  <2> QED BY <1>0, <1>2, <2>1 DEF IInv, Fits
<1> QED BY <1>0, <1>2, <1>3, <1>4, <1>5, <1>6 DEF IInv, Types

LEMMA StopKeeps ==
  ASSUME IInv, Stop
  PROVE  IInv'
<1>0. UNCHANGED <<h, runtime, cache, subs, queue, writer, owed>> /\ daemon' = "stopping"
  BY DEF Stop
<1>1. \A d \in Clients : sock'[d] = [sock[d] EXCEPT !.open = FALSE]
  BY DEF Stop
<1>2. \A d \in Clients : /\ sock'[d].open = FALSE /\ sock'[d].held = sock[d].held
                         /\ sock'[d] \in [open : BOOLEAN, held : Seq(Message)]
  <2>1. \A d \in Clients : sock[d] \in [open : BOOLEAN, held : Seq(Message)]
    BY DEF IInv, Types
  <2> QED BY <1>1, <2>1
<1>3. sock' \in [Clients -> [open : BOOLEAN, held : Seq(Message)]]
  BY <1>2 DEF Stop
<1>4. \A d \in Clients : Holds(d)'
  BY <1>0, <1>2 DEF IInv, Holds, Early, At, Greeted
<1>5. Fits'
  BY <1>0, <1>2 DEF IInv, Fits
<1> QED BY <1>0, <1>3, <1>4, <1>5 DEF IInv, Types

\* Nothing the invariant is about changes.
LEMMA StillKeeps ==
  ASSUME IInv, UNCHANGED <<h, runtime, cache, subs, wire, owed>>, daemon' \in {"up", "stopping", "down"}
  PROVE  IInv'
<1>1. Types' /\ Fits'
  BY DEF IInv, Types, Fits, wire
<1>2. \A d \in Clients : Holds(d)'
  BY Apart DEF IInv, wire
<1> QED BY <1>1, <1>2 DEF IInv

-------------------------------------------------------------------------------
LEMMA NextIInv == IInv /\ [Next]_vars => IInv'
<1> SUFFICES ASSUME IInv, [Next]_vars PROVE IInv' OBVIOUS
<1>1. ASSUME NEW c \in Clients, Accept(c) PROVE IInv'
  BY <1>1, AcceptKeeps
<1>2. ASSUME NEW c \in Clients, Handle(c) PROVE IInv'
  BY <1>2, ThinkKeeps, EnterKeeps, WorkKeeps, PollKeeps, RememberKeeps, CastKeeps,
     AnswerKeeps, DisconnectKeeps, LeaveKeeps, JoinKeeps, HelloKeeps, SubscribeKeeps,
     GreetKeeps DEF Handle
<1>3. ASSUME NEW c \in Clients, WriteStep(c) PROVE IInv'
  BY <1>3, WriteKeeps, WriterEndsKeeps DEF WriteStep
<1>4. ASSUME NEW c \in Clients, Read(c) PROVE IInv'
  BY <1>4, ReadKeeps
<1>5. ASSUME NEW c \in Clients, Close(c) PROVE IInv'
  BY <1>5, CloseKeeps
<1>6. ASSUME NEW c \in Clients, NEW kind \in Sends[c], Request(c, kind) PROVE IInv'
  BY <1>6, RequestKeeps
<1>7. CASE Stop
  BY <1>7, StopKeeps
<1>8. CASE Stopped
  BY <1>8, StillKeeps DEF Stopped
<1>9. CASE UNCHANGED vars
  BY <1>9, StillKeeps DEF vars, IInv, Types
<1> QED BY <1>1, <1>2, <1>3, <1>4, <1>5, <1>6, <1>7, <1>8, <1>9 DEF Next

THEOREM Invariance == Spec => []IInv
BY InitIInv, NextIInv, PTL DEF Spec

\* Types, and that no queue and no socket holds more than its capacity (serve.rs
\* OUTBOUND_CAPACITY).
THEOREM TypeCorrect == Spec => []TypeOK
<1>1. IInv => TypeOK
  BY RangeOfQueue DEF IInv, Types, Fits, TypeOK, Handler, Message
<1> QED BY <1>1, Invariance, PTL

\* A greeted client hears each change its queue had room for, also those after one it
\* had no room for, whoever else connects, leaves or stops reading (serve.rs
\* broadcast, client_loop).
THEOREM EventsArrive == Spec => []EventsReach
<1>1. IInv => EventsReach
  BY DEF IInv, Holds, OnItsWay, EventsReach
<1> QED BY <1>1, Invariance, PTL

=============================================================================
