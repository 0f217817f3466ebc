--------------------------------- MODULE Serve ---------------------------------
(***************************************************************************)
(* The socket server (softwake-daemon serve.rs): a thread that accepts, and *)
(* per client a thread that handles its requests and one that writes to it. *)
(* Clients take turns at the runtime; what they broadcast goes into a      *)
(* bounded queue per client and what they answered is remembered as the     *)
(* status that is served while somebody else has the runtime.               *)
(***************************************************************************)
EXTENDS Naturals, Sequences, FiniteSets, SequencesExt

CONSTANTS
  Clients,
  Polite,      \* those that read what they are sent and poll the status
  Sends,       \* the kinds of request each client sends
  QueueCap,    \* OUTBOUND_CAPACITY
  SockCap,     \* messages the kernel holds for a client that does not read
  MaxChanges   \* a bound on what is done to the runtime

ASSUME ServeAssumption ==
  /\ Polite \subseteq Clients
  /\ Sends \in [Clients -> SUBSET {"poll", "change", "ask"}]
  /\ \A c \in Polite : "poll" \in Sends[c]
  /\ {QueueCap, SockCap} \subseteq Nat \ {0}
  /\ MaxChanges \in Nat

Free == "free"

VARIABLES
  daemon,  \* "up", "stopping" or "down"
  h,       \* what each handler is at, and the outcome it carries
  runtime, \* who holds the runtime's lock, and how often it changed
  cache,   \* last_status: its phase
  subs,    \* subscribers
  queue, writer, \* per client: its queue and the thread that empties it
  sock,    \* per client: what is in its socket, and whether that is open
  owed     \* history: the events a greeted client had room for and did not read yet

wire == <<queue, writer, sock>>
vars == <<daemon, h, runtime, cache, subs, wire, owed>>

Resting == [pc |-> "away", kind |-> "none", phase |-> "none", event |-> 0]
At(c, pc) == h[c].pc = pc
Goto(c, pc) == h' = [h EXCEPT ![c].pc = pc]
Reply == 0 \* in a queue; an event is the number of its change

Init ==
  /\ daemon = "up"
  /\ h = [c \in Clients |-> Resting]
  /\ runtime = [holder |-> Free, changes |-> 0]
  /\ cache = "none"
  /\ subs = {}
  /\ queue = [c \in Clients |-> <<>>] /\ writer = [c \in Clients |-> "none"]
  /\ sock = [c \in Clients |-> [open |-> FALSE, held |-> <<>>]]
  /\ owed = [c \in Clients |-> {}]

-------------------------------------------------------------------------------
\* accept_loop, spawn_client.
Accept(c) ==
  /\ daemon = "up" /\ At(c, "away")
  /\ Goto(c, "hello")
  /\ sock' = [sock EXCEPT ![c].open = TRUE]
  /\ UNCHANGED <<daemon, runtime, cache, subs, queue, writer, owed>>

\* ServerConnection::begin: a matching hello, or the end.
Hello(c) ==
  /\ At(c, "hello")
  /\ \/ sock[c].open /\ Goto(c, "subscribe")
     \/ Goto(c, "ended")
  /\ UNCHANGED <<daemon, runtime, cache, subs, wire, owed>>

\* client_loop subscribes before hello_ok.
Subscribe(c) ==
  /\ At(c, "subscribe")
  /\ subs' = subs \cup {c}
  /\ Goto(c, "greet")
  /\ UNCHANGED <<daemon, runtime, cache, wire, owed>>

Greet(c) ==
  /\ At(c, "greet")
  /\ IF sock[c].open
     THEN /\ Goto(c, "read")
          /\ writer' = [writer EXCEPT ![c] = "run"]
          /\ UNCHANGED <<subs, queue>>
     ELSE /\ Goto(c, "ended")
          /\ subs' = subs \ {c}
          /\ queue' = [queue EXCEPT ![c] = <<>>]
          /\ UNCHANGED writer
  /\ UNCHANGED <<daemon, runtime, cache, sock, owed>>

-------------------------------------------------------------------------------
\* handle_next: a poll, a command that changes something, an ask.
Request(c, kind) ==
  /\ At(c, "read") /\ sock[c].open
  /\ h' = [h EXCEPT ![c] = [Resting EXCEPT !.kind = kind,
             !.pc = CASE kind = "poll" -> "poll" [] kind = "ask" -> "think" [] OTHER -> "wait"]]
  /\ UNCHANGED <<daemon, runtime, cache, subs, wire, owed>>

Disconnect(c) ==
  /\ At(c, "read") /\ ~sock[c].open
  /\ Goto(c, "leave")
  /\ UNCHANGED <<daemon, runtime, cache, subs, wire, owed>>

\* publish_thinking.
Think(c) ==
  /\ At(c, "think")
  /\ cache' = "thinking"
  /\ Goto(c, "wait")
  /\ UNCHANGED <<daemon, runtime, subs, wire, owed>>

Enter(c) ==
  /\ At(c, "wait") /\ runtime.holder = Free
  /\ runtime' = [runtime EXCEPT !.holder = c]
  /\ Goto(c, "work")
  /\ UNCHANGED <<daemon, cache, subs, wire, owed>>

\* The command is refused, an ask is answered, or the state changes, which is said.
Work(c) ==
  /\ At(c, "work")
  /\ \/ /\ runtime' = [runtime EXCEPT !.holder = Free]
        /\ h' = [h EXCEPT ![c] = [Resting EXCEPT !.pc = "remember"]]
     \/ /\ h[c].kind = "change" /\ runtime.changes < MaxChanges
        /\ runtime' = [runtime EXCEPT !.holder = Free, !.changes = @ + 1]
        /\ h' = [h EXCEPT ![c] = [Resting EXCEPT !.pc = "remember", !.event = runtime.changes + 1]]
  /\ UNCHANGED <<daemon, cache, subs, wire, owed>>

\* mutant: the cached status is taken in any case.
PollCached(c) ==
  /\ At(c, "poll")
  /\ h' = [h EXCEPT ![c].pc = "remember", ![c].phase = cache]
  /\ UNCHANGED <<daemon, runtime, cache, subs, wire, owed>>

\* status_outcome does not wait: it takes the cached status while the runtime works.
Poll(c) ==
  /\ At(c, "poll")
  /\ h' = [h EXCEPT ![c].pc = "remember",
             ![c].phase = IF runtime.holder = Free THEN "none" ELSE cache]
  /\ UNCHANGED <<daemon, runtime, cache, subs, wire, owed>>

\* remember_status: a refusal ends the phase too, and a poll writes back what it
\* was told.
Remember(c) ==
  /\ At(c, "remember")
  /\ cache' = h[c].phase
  /\ h' = [h EXCEPT ![c] = [Resting EXCEPT !.event = h[c].event,
                                       !.pc = IF h[c].event = 0 THEN "answer" ELSE "cast"]]
  /\ UNCHANGED <<daemon, runtime, subs, wire, owed>>

-------------------------------------------------------------------------------
HasRoom(c) == Len(queue[c]) < QueueCap
Greeted(c) == writer[c] = "run" /\ ~At(c, "leave") /\ ~At(c, "join")

\* Every subscriber that has room, that is.
Queued(n) == [c \in Clients |-> IF c \in subs /\ HasRoom(c) /\ writer[c] # "done"
                                THEN Append(queue[c], n) ELSE queue[c]]
Owed(n) == [c \in Clients |-> IF Greeted(c) /\ HasRoom(c) THEN owed[c] \cup {n} ELSE owed[c]]

\* mutant: a client whose queue is full is forgotten.
CastForgetsFull(c) ==
  LET n == h[c].event IN
  /\ At(c, "cast")
  /\ h' = [h EXCEPT ![c].pc = "answer", ![c].event = 0]
  /\ subs' = {s \in subs : writer[s] # "done" /\ HasRoom(s)}
  /\ queue' = Queued(n) /\ owed' = Owed(n)
  /\ UNCHANGED <<daemon, runtime, cache, writer, sock>>

\* mutant: it is waited for.
CastWaits(c) ==
  LET n == h[c].event IN
  /\ At(c, "cast") /\ \A s \in subs : writer[s] # "done" => HasRoom(s)
  /\ h' = [h EXCEPT ![c].pc = "answer", ![c].event = 0]
  /\ subs' = {s \in subs : writer[s] # "done"}
  /\ queue' = Queued(n) /\ owed' = Owed(n)
  /\ UNCHANGED <<daemon, runtime, cache, writer, sock>>

\* broadcast: a full queue loses the event, a writer that is gone its subscription.
Cast(c) ==
  LET n == h[c].event IN
  /\ At(c, "cast")
  /\ h' = [h EXCEPT ![c].pc = "answer", ![c].event = 0]
  /\ subs' = {s \in subs : writer[s] # "done"}
  /\ queue' = Queued(n) /\ owed' = Owed(n)
  /\ UNCHANGED <<daemon, runtime, cache, writer, sock>>

\* The answer waits for room, and fails with the writer.
Answer(c) ==
  /\ At(c, "answer")
  /\ \/ /\ writer[c] = "run" /\ HasRoom(c)
        /\ queue' = [queue EXCEPT ![c] = Append(@, Reply)]
        /\ h' = [h EXCEPT ![c] = [Resting EXCEPT !.pc = "read"]]
     \/ writer[c] = "done" /\ Goto(c, "leave") /\ UNCHANGED queue
  /\ UNCHANGED <<daemon, runtime, cache, subs, writer, sock, owed>>

\* The end of client_loop: unsubscribe, drop the sender, join the writer.
Leave(c) ==
  /\ At(c, "leave")
  /\ subs' = subs \ {c}
  /\ Goto(c, "join")
  /\ UNCHANGED <<daemon, runtime, cache, wire, owed>>

Join(c) ==
  /\ At(c, "join") /\ writer[c] = "done"
  /\ Goto(c, "ended")
  /\ UNCHANGED <<daemon, runtime, cache, subs, wire, owed>>

-------------------------------------------------------------------------------
\* write_loop.
Write(c) ==
  /\ writer[c] = "run" /\ queue[c] # <<>>
  /\ sock[c].open => Len(sock[c].held) < SockCap
  /\ IF sock[c].open
     THEN /\ sock' = [sock EXCEPT ![c].held = Append(@, Head(queue[c]))]
          /\ queue' = [queue EXCEPT ![c] = Tail(@)]
          /\ UNCHANGED writer
     ELSE /\ writer' = [writer EXCEPT ![c] = "done"]
          /\ queue' = [queue EXCEPT ![c] = <<>>]
          /\ UNCHANGED sock
  /\ UNCHANGED <<daemon, h, runtime, cache, subs, owed>>

WriterEnds(c) ==
  /\ writer[c] = "run" /\ queue[c] = <<>> /\ At(c, "join")
  /\ writer' = [writer EXCEPT ![c] = "done"]
  /\ UNCHANGED <<daemon, h, runtime, cache, subs, queue, sock, owed>>

\* The client: it reads, or goes away.
Read(c) ==
  /\ sock[c].open /\ sock[c].held # <<>>
  /\ sock' = [sock EXCEPT ![c].held = Tail(@)]
  /\ owed' = [owed EXCEPT ![c] = @ \ {Head(sock[c].held)}]
  /\ UNCHANGED <<daemon, h, runtime, cache, subs, queue, writer>>

Close(c) ==
  /\ sock[c].open
  /\ sock' = [sock EXCEPT ![c] = [open |-> FALSE, held |-> <<>>]]
  /\ owed' = [owed EXCEPT ![c] = {}]
  /\ UNCHANGED <<daemon, h, runtime, cache, subs, queue, writer>>

-------------------------------------------------------------------------------
\* mutant: the threads are joined and nothing ends what they wait for.
StopOnlyJoins ==
  /\ daemon = "up"
  /\ daemon' = "stopping"
  /\ UNCHANGED <<h, runtime, cache, subs, wire, owed>>

\* accept fails: stop_clients shuts every socket down, then joins every thread.
Stop ==
  /\ daemon = "up"
  /\ daemon' = "stopping"
  /\ sock' = [c \in Clients |-> [sock[c] EXCEPT !.open = FALSE]]
  /\ UNCHANGED <<h, runtime, cache, subs, queue, writer, owed>>

Stopped ==
  /\ daemon = "stopping"
  /\ \A c \in Clients : h[c].pc \in {"away", "ended"}
  /\ daemon' = "down"
  /\ UNCHANGED <<h, runtime, cache, subs, wire, owed>>

Handle(c) ==
  \/ Think(c) \/ Enter(c) \/ Work(c) \/ Poll(c) \/ Remember(c) \/ Cast(c)
  \/ Answer(c) \/ Disconnect(c) \/ Leave(c) \/ Join(c)
  \/ Hello(c) \/ Subscribe(c) \/ Greet(c)
WriteStep(c) == Write(c) \/ WriterEnds(c)

Next ==
  \/ \E c \in Clients :
       \/ Accept(c) \/ Handle(c) \/ WriteStep(c) \/ Read(c) \/ Close(c)
       \/ \E kind \in Sends[c] : Request(c, kind)
  \/ Stop \/ Stopped

\* Threads run, the runtime ends what it does, and a polite client reads and polls.
Fairness ==
  /\ \A c \in Clients : SF_vars(Enter(c)) /\ WF_vars(Handle(c)) /\ WF_vars(WriteStep(c))
  /\ WF_vars(Stopped)
  /\ \A c \in Polite : WF_vars(Read(c)) /\ WF_vars(Request(c, "poll"))

Spec == Init /\ [][Next]_vars /\ Fairness

-------------------------------------------------------------------------------
Pcs == {"away", "hello", "subscribe", "greet", "read", "poll", "think", "wait", "work",
        "remember", "cast", "answer", "leave", "join", "ended"}

TypeOK ==
  /\ daemon \in {"up", "stopping", "down"}
  /\ h \in [Clients -> [pc : Pcs, kind : {"none", "poll", "change", "ask"},
             phase : {"none", "thinking"}, event : 0..MaxChanges]]
  /\ runtime \in [holder : Clients \cup {Free}, changes : 0..MaxChanges]
  /\ cache \in {"none", "thinking"}
  /\ subs \subseteq Clients
  /\ \A c \in Clients :
       /\ Len(queue[c]) <= QueueCap /\ Range(queue[c]) \subseteq 0..MaxChanges
       /\ Len(sock[c].held) <= SockCap
       /\ owed[c] \subseteq 1..MaxChanges
  /\ writer \in [Clients -> {"none", "run", "done"}]

\* A client hears every change after its greeting that its queue had room for,
\* also the next ones after one it had no room for.
EventsReach ==
  \A c \in Clients : Greeted(c) /\ sock[c].open =>
    owed[c] \subseteq Range(sock[c].held) \cup Range(queue[c])

\* Whoever does not read is waited for by nobody: a polite client's request is
\* answered, or its connection ends.
NobodyWaits ==
  \A c \in Polite : ~At(c, "away") ~> h[c].pc \in {"read", "ended"}

\* "thinking" does not stay in the cached status: not after an ask that is
\* refused, and not when a poll wrote it back after the ask, while somebody polls.
ThinkingEnds ==
  cache = "thinking" ~>
    (cache = "none" \/ daemon # "up" \/ \A c \in Polite : ~sock[c].open)

\* A server that cannot accept any more ends, whatever its clients do.
StopEnds == daemon = "stopping" ~> daemon = "down"

===============================================================================
