---------------------------- MODULE ProfilesProofs ----------------------------
(***************************************************************************)
(* Proofs about Profiles, for every set of processes, folders and values   *)
(* and every number of crashes and removals.                               *)
(***************************************************************************)
EXTENDS Profiles, TLAPS

Past(p) == call[p].pc \in {"load", "create", "fill", "rename", "undo"}
Writing(p) == call[p].pc \in {"create", "fill", "rename"}
Open(p) == call[p].pc \in {"fill", "rename"}

LEMMA ConfigsClosed ==
  ASSUME NEW c \in Configs, NEW op \in Operations
  PROVE  /\ DefaultConfig \in Configs
         /\ [c EXCEPT !.active = Default] \in Configs
         /\ op.kind \in {"switch", "set"} => Edited(c, op) \in Configs
  BY ProfilesAssumption DEF Configs, DefaultConfig, Edited, Operations

LEMMA ContentTyped ==
  ASSUME TypeOK, NEW f \in Names
  PROVE  Content(f) \in {Absent, Torn} \cup Configs
  BY DEF TypeOK, Content, Names, Calls, At

-------------------------------------------------------------------------------
(* Types: besides TypeOK, a call that replaces the file on its own behalf is a
   setter's. *)
TypeInv ==
  /\ TypeOK
  /\ \A p \in Processes :
       Writing(p) /\ ~call[p].heals => call[p].op.kind \in {"switch", "set"}

LEMMA TypeInit == Init => TypeInv
<1> SUFFICES ASSUME Init PROVE TypeInv
  OBVIOUS
<1>1. DefaultConfig \in Configs
  BY ProfilesAssumption DEF DefaultConfig, Configs
<1>2. Resting \in Calls
  BY <1>1, ProfilesAssumption DEF Resting, Calls, Operations
<1>3. MaxCrashes \in Nat /\ MaxRemovals \in Nat
  BY ProfilesAssumption
<1>5. TypeOK
  <2>1. call \in [Processes -> Calls]
    BY <1>2 DEF Init
  <2>2. crashes \in 0 .. MaxCrashes /\ removals \in 0 .. MaxRemovals /\ failed \in Nat
    BY <1>3 DEF Init
  <2>3. overlap \in BOOLEAN
    BY DEF Init
  <2>4. dirs \subseteq Ids /\ app \in Names /\ temp \in Names /\ kept \in Configs
    BY <1>1 DEF Init, Names
  <2> QED
    BY <2>1, <2>2, <2>3, <2>4 DEF TypeOK
<1>4. \A p \in Processes : ~Writing(p)
  BY DEF Init, Resting, Writing
<1> QED
  BY <1>5, <1>4 DEF TypeInv

LEMMA TypeNext == TypeInv /\ [Next]_vars => TypeInv'
<1> SUFFICES ASSUME TypeInv, [Next]_vars PROVE TypeInv'
  OBVIOUS
<1> USE ProfilesAssumption
<1> DEFINE Ok(c) == c \in Calls /\ (c.pc \in {"create", "fill", "rename"} /\ ~c.heals
                                       => c.op.kind \in {"switch", "set"})
<1>0. TypeOK /\ \A p \in Processes : Ok(call[p])
  BY DEF TypeInv, TypeOK, Writing
<1>d. DefaultConfig \in Configs
  BY DEF DefaultConfig, Configs
<1>r. Resting \in Calls /\ Ok(Resting)
  BY <1>d DEF Resting, Calls, Operations
<1>c. Content(app) \in {Absent, Torn} \cup Configs
  BY <1>0, ContentTyped DEF TypeOK
<1>s. ASSUME NEW p \in Processes PROVE Settled(app, p) \in Names /\ Settled(temp, p) \in Names
  BY <1>0, ContentTyped DEF TypeOK, Settled, Names
\* It is enough that the call of the process that moves stays one.
<1>q. ASSUME NEW p \in Processes, NEW c, Ok(c), call' = [call EXCEPT ![p] = c],
             dirs' \subseteq Ids, app' \in Names, temp' \in Names,
             crashes' \in 0 .. MaxCrashes, removals' = removals, overlap' \in BOOLEAN,
             failed' \in Nat, kept' \in Configs
      PROVE  TypeInv'
  <2>1. call' \in [Processes -> Calls]
    BY <1>q, <1>0 DEF TypeOK
  <2>2. ASSUME NEW r \in Processes PROVE Ok(call'[r])
    BY <1>q, <1>0 DEF TypeOK
  <2> QED
    BY <1>q, <1>0, <2>1, <2>2 DEF TypeInv, TypeOK, Writing
<1>1. ASSUME NEW p \in Processes, NEW op \in Operations, Begin(p, op) PROVE TypeInv'
  <2>1. Ok([Resting EXCEPT !.pc = "migrate", !.op = op])
    BY <1>r DEF Calls, Resting
  <2> QED
    BY <1>1, <1>0, <1>q, <2>1 DEF TypeOK, Begin
<1>2. ASSUME NEW p \in Processes, Migrate(p) PROVE TypeInv'
  <2>1. CASE Content(app) \in Configs /\ Content(app).active \in dirs'
    <3>1. Ok([call[p] EXCEPT !.pc = "load"])
      BY <1>0 DEF Calls
    <3> QED
      BY <1>2, <2>1, <1>c, <1>0, <1>q, <3>1 DEF TypeOK, Migrate, Goto
  <2>2. CASE Content(app) \in Configs /\ Content(app).active \notin dirs'
    <3> DEFINE body == [Content(app) EXCEPT !.active = Default]
    <3>1. body \in Configs
      BY <2>2 DEF Configs
    <3>2. Ok([call[p] EXCEPT !.pc = "create", !.body = body, !.heals = TRUE])
      BY <1>0, <3>1 DEF Calls
    <3>3. call' = [call EXCEPT ![p] = [call[p] EXCEPT !.pc = "create", !.body = body, !.heals = TRUE]]
      BY <1>2, <2>2, <1>c, <1>0 DEF Migrate, Writes, TypeOK
    <3> QED
      BY <1>2, <1>0, <1>q, <3>2, <3>3 DEF TypeOK, Migrate
  <2>3. CASE Content(app) = Absent
    <3>1. Ok([call[p] EXCEPT !.pc = "create", !.body = DefaultConfig, !.heals = TRUE])
      BY <1>0, <1>d DEF Calls
    <3>2. call' = [call EXCEPT ![p] = [call[p] EXCEPT !.pc = "create", !.body = DefaultConfig, !.heals = TRUE]]
      BY <1>2, <2>3, <1>0 DEF Migrate, Writes, TypeOK
    <3> QED
      BY <1>2, <1>0, <1>q, <3>1, <3>2 DEF TypeOK, Migrate
  <2>4. CASE Content(app) = Torn
    BY <1>2, <2>4, <1>0, <1>r, <1>q DEF TypeOK, Migrate, Ends
  <2> QED
    BY <1>c, <2>1, <2>2, <2>3, <2>4
<1>3. ASSUME NEW p \in Processes, Resolve(p) PROVE TypeInv'
  BY <1>3, <1>0, <1>r, <1>q DEF TypeOK, Resolve, Ends
<1>4. ASSUME NEW p \in Processes, CreateProfile(p) PROVE TypeInv'
  BY <1>4, <1>0, <1>r, <1>q DEF TypeOK, CreateProfile, Ends
<1>5. ASSUME NEW p \in Processes, Load(p) PROVE TypeInv'
  <2> DEFINE body == Edited(Loaded, call[p].op)
  <2>1. Loaded \in Configs
    BY <1>d DEF Loaded
  <2>2. call[p].op \in Operations /\ call[p].op.kind \in {"switch", "set"}
    BY <1>5, <1>0 DEF Calls, Load
  <2>3. body \in Configs
    BY <2>1, <2>2, ConfigsClosed
  <2>4. Ok([call[p] EXCEPT !.pc = "create", !.body = body, !.heals = FALSE])
    BY <1>0, <2>2, <2>3 DEF Calls
  <2>5. CASE Writes(p, body, FALSE)
    <3>1. call' = [call EXCEPT ![p] = [call[p] EXCEPT !.pc = "create", !.body = body, !.heals = FALSE]]
      BY <2>5, <1>0 DEF Writes, TypeOK
    <3> QED
      BY <1>5, <1>0, <1>q, <2>4, <3>1 DEF TypeOK, Load
  <2>6. CASE Ends(p)
    BY <1>5, <2>6, <1>0, <1>r, <1>q DEF TypeOK, Load, Ends
  <2> QED
    BY <1>5, <2>5, <2>6 DEF Load
<1>6. ASSUME NEW p \in Processes, OpenTemp(p) PROVE TypeInv'
  <2>1. Ok([call[p] EXCEPT !.pc = "fill"]) /\ Ok([call[p] EXCEPT !.pc = "undo"])
    BY <1>6, <1>0 DEF Calls, OpenTemp, At
  <2> QED
    BY <1>6, <1>0, <1>q, <2>1 DEF TypeOK, OpenTemp, Goto, Names
<1>7. ASSUME NEW p \in Processes, Fill(p) PROVE TypeInv'
  <2>1. Ok([call[p] EXCEPT !.pc = "rename"])
    BY <1>7, <1>0 DEF Calls, Fill, At
  <2> QED
    BY <1>7, <1>0, <1>q, <2>1 DEF TypeOK, Fill, Goto
<1>8. ASSUME NEW p \in Processes, Rename(p) PROVE TypeInv'
  <2>1. Ok([call[p] EXCEPT !.pc = "load"]) /\ Ok([call[p] EXCEPT !.pc = "undo"])
    BY <1>0 DEF Calls
  <2>2. kept' \in Configs /\ app' \in Names /\ temp' \in Names
    <3>1. call[p].op \in Operations /\ kept \in Configs
      BY <1>0 DEF Calls, TypeOK
    <3>2. ~call[p].heals => call[p].op.kind \in {"switch", "set"}
      BY <1>8, <1>0 DEF Rename, At
    <3>3. Kept(p) \in Configs
      BY <3>1, <3>2, ConfigsClosed DEF Kept
    <3> QED
      BY <1>8, <1>0, <1>s, <3>1, <3>3 DEF Rename, TypeOK, Names
  <2> QED
    BY <1>8, <1>0, <1>r, <1>q, <2>1, <2>2 DEF TypeOK, Rename, Goto, Ends
<1>9. ASSUME NEW p \in Processes, Undo(p) PROVE TypeInv'
  <2>1. failed' \in Nat /\ temp' \in Names
    BY <1>9, <1>0 DEF TypeOK, Undo, Names
  <2>2. call' = [call EXCEPT ![p] = Resting]
    BY <1>9 DEF Undo, Ends
  <2> QED
    BY <1>9, <1>0, <1>r, <1>q, <2>1, <2>2 DEF TypeOK, Undo
<1>10. ASSUME NEW p \in Processes, Crash(p) PROVE TypeInv'
  <2>1. crashes' \in 0 .. MaxCrashes /\ app' \in Names /\ temp' \in Names
    BY <1>10, <1>0, <1>s DEF TypeOK, Crash
  <2>2. call' = [call EXCEPT ![p] = Resting]
    BY <1>10 DEF Crash, Ends
  <2> QED
    BY <1>10, <1>0, <1>r, <1>q, <2>1, <2>2 DEF TypeOK, Crash
<1>11. ASSUME NEW id \in Ids, RemoveFolder(id) PROVE TypeInv'
  <2>1. call' = call /\ removals' \in 0 .. MaxRemovals /\ overlap' \in BOOLEAN
    BY <1>11, <1>0 DEF RemoveFolder, TypeOK
  <2>2. TypeOK'
    BY <1>11, <1>0, <2>1 DEF RemoveFolder, TypeOK, Names
  <2> QED
    BY <1>0, <2>1, <2>2 DEF TypeInv, Writing
<1>12. CASE UNCHANGED vars
  <2>1. call' = call
    BY <1>12 DEF vars
  <2>2. TypeOK'
    BY <1>12, <1>0 DEF vars, TypeOK, Names
  <2> QED
    BY <1>0, <2>1, <2>2 DEF TypeInv, Writing
<1> QED
  BY <1>1, <1>2, <1>3, <1>4, <1>5, <1>6, <1>7, <1>8, <1>9, <1>10, <1>11, <1>12 DEF Next

-------------------------------------------------------------------------------
(* A name stands for a process only while that process has its file open. *)
Owned ==
  /\ app \in Processes => Open(app)
  /\ temp \in Processes => Open(temp)

LEMMA OwnedNext ==
  ASSUME TypeInv, Owned, [Next]_vars
  PROVE  Owned'
<1> USE ProfilesAssumption
<1>0. TypeOK /\ call \in [Processes -> Calls] /\ Resting.pc = "idle"
  BY DEF TypeInv, TypeOK, Resting
<1>c. ASSUME NEW f \in Names PROVE Content(f) \notin Processes
  BY <1>0, ContentTyped
<1>s. ASSUME NEW p \in Processes
      PROVE  /\ Settled(app, p) \in Processes => Settled(app, p) = app /\ app # p
             /\ Settled(temp, p) \in Processes => Settled(temp, p) = temp /\ temp # p
  BY <1>0, <1>c DEF Settled, TypeOK
<1>1. ASSUME NEW p \in Processes, NEW op \in Operations, Begin(p, op) PROVE Owned'
  BY <1>1, <1>0 DEF Owned, Open, Begin, At, Calls
<1>2. ASSUME NEW p \in Processes, Migrate(p) PROVE Owned'
  <2>1. \A r \in Processes : Open(r) => call'[r] = call[r]
    BY <1>2, <1>0 DEF Migrate, Writes, Goto, Ends, At, Open
  <2> QED
    BY <1>2, <2>1 DEF Owned, Migrate, Open
<1>3. ASSUME NEW p \in Processes, Resolve(p) \/ CreateProfile(p) \/ Load(p) PROVE Owned'
  <2>1. \A r \in Processes : Open(r) => call'[r] = call[r]
    BY <1>3, <1>0 DEF Resolve, CreateProfile, Load, Writes, Ends, At, Open
  <2>2. UNCHANGED <<app, temp>>
    BY <1>3 DEF Resolve, CreateProfile, Load
  <2> QED
    BY <2>1, <2>2 DEF Owned, Open
<1>4. ASSUME NEW p \in Processes, OpenTemp(p) PROVE Owned'
  BY <1>4, <1>0 DEF OpenTemp, Goto, At, Owned, Open, Calls
<1>5. ASSUME NEW p \in Processes, Fill(p) PROVE Owned'
  BY <1>5, <1>0 DEF Fill, Goto, At, Owned, Open, Calls
<1>6. ASSUME NEW p \in Processes, Rename(p) PROVE Owned'
  <2>1. \A r \in Processes \ {p} : call'[r] = call[r]
    BY <1>6, <1>0 DEF Rename, Goto, Ends
  <2>2. app' \in {Settled(app, p), Settled(temp, p)} /\ temp' = Absent
    BY <1>6 DEF Rename
  <2> QED
    BY <2>1, <2>2, <1>s DEF Owned, Open
<1>7. ASSUME NEW p \in Processes, Undo(p) PROVE Owned'
  BY <1>7, <1>0 DEF Undo, Ends, At, Owned, Open
<1>8. ASSUME NEW p \in Processes, Crash(p) PROVE Owned'
  <2>1. \A r \in Processes \ {p} : call'[r] = call[r]
    BY <1>8, <1>0 DEF Crash, Ends
  <2>2. app' = Settled(app, p) /\ temp' = Settled(temp, p)
    BY <1>8 DEF Crash
  <2> QED
    BY <2>1, <2>2, <1>s DEF Owned, Open
<1>9. ASSUME NEW id \in Ids, RemoveFolder(id) PROVE Owned'
  BY <1>9 DEF RemoveFolder, Owned, Open
<1>10. CASE UNCHANGED vars
  BY <1>10 DEF vars, Owned, Open
<1> QED
  BY <1>1, <1>2, <1>3, <1>4, <1>5, <1>6, <1>7, <1>8, <1>9, <1>10 DEF Next

-------------------------------------------------------------------------------
(* While calls do not overlap there is one call at most; an open file is the one
   at the temporary name, softwake.json is nobody's, and what a dead process left
   at the temporary name is a failure that is still to come. *)
Left == temp \in {Torn} \cup Configs

Alone ==
  /\ \A p, r \in Processes : ~At(p, "idle") /\ ~At(r, "idle") => p = r
  /\ \A p \in Processes : Open(p) => temp = p
  /\ app \in {Absent} \cup Configs
  /\ failed <= crashes /\ (Left => failed < crashes)
  /\ \A p \in Processes : At(p, "undo") => Left
  /\ \A p \in Processes : At(p, "load") => app \in Configs

LEMMA OverlapStays ==
  ASSUME [Next]_vars, ~overlap'
  PROVE  ~overlap
  BY DEF Next, vars, Begin, Migrate, Resolve, CreateProfile, Load, OpenTemp, Fill, Rename,
         Undo, Crash, RemoveFolder

LEMMA AloneNext ==
  ASSUME TypeInv, Owned, ~overlap => Alone, [Next]_vars
  PROVE  ~overlap' => Alone'
<1> SUFFICES ASSUME ~overlap' PROVE Alone'
  OBVIOUS
<1> USE ProfilesAssumption
<1>0. /\ TypeOK /\ call \in [Processes -> Calls] /\ Resting.pc = "idle"
      /\ failed \in Nat /\ crashes \in Nat
  BY DEF TypeInv, TypeOK, Resting
<1>a. Alone
  BY OverlapStays
<1>f. Content(app) = app /\ \A p \in Processes : Settled(app, p) = app
  BY <1>a DEF Alone, Content, Settled
<1>b. ASSUME NEW p \in Processes
      PROVE  (Open(p) => call[p].body \in Configs) /\ Torn \notin Processes
  BY <1>0 DEF Calls
<1>1. ASSUME NEW p \in Processes, NEW op \in Operations, Begin(p, op) PROVE Alone'
  <2>1. \A r \in Processes : call[r].pc = "idle"
    BY <1>1 DEF Begin, Busy, At
  <2>2. \A r \in Processes : r # p => call'[r] = call[r]
    BY <1>1, <1>0 DEF Begin
  <2>3. call'[p].pc = "migrate"
    BY <1>1, <1>0 DEF Begin, Resting
  <2> QED
    BY <1>1, <1>a, <2>1, <2>2, <2>3 DEF Begin, Alone, At, Open, Left
\* In every other step of a process the others are idle and stay it, so what the
\* step does to its own call decides.
<1>q. ASSUME NEW p \in Processes, ~At(p, "idle"),
             \A r \in Processes : r # p => call'[r] = call[r],
             app' \in {Absent} \cup Configs,
             failed' <= crashes', Left' => failed' < crashes',
             call'[p].pc \in {"fill", "rename"} => temp' = p,
             call'[p].pc = "undo" => Left', call'[p].pc = "load" => app' \in Configs
      PROVE  Alone'
  <2>1. \A r \in Processes : r # p => call'[r].pc = "idle"
    BY <1>q, <1>a DEF Alone, At
  <2> QED
    BY <1>q, <2>1 DEF Alone, At, Open
<1>g. ASSUME NEW p \in Processes, NEW pc, Goto(p, pc)
      PROVE  call'[p].pc = pc /\ \A r \in Processes : r # p => call'[r] = call[r]
  BY <1>g, <1>0 DEF Goto, Calls
<1>e. ASSUME NEW p \in Processes, Ends(p)
      PROVE  call'[p].pc = "idle" /\ \A r \in Processes : r # p => call'[r] = call[r]
  BY <1>e, <1>0 DEF Ends
<1>w. ASSUME NEW p \in Processes, NEW body, NEW heals, Writes(p, body, heals)
      PROVE  call'[p].pc = "create" /\ \A r \in Processes : r # p => call'[r] = call[r]
  BY <1>w, <1>0 DEF Writes, Calls
<1>2. ASSUME NEW p \in Processes, Migrate(p) PROVE Alone'
  <2>1. UNCHANGED <<app, temp, failed, crashes>> /\ ~At(p, "idle")
    BY <1>2 DEF Migrate, At
  <2>2. /\ \A r \in Processes : r # p => call'[r] = call[r]
        /\ call'[p].pc \in {"load", "create", "idle"}
        /\ call'[p].pc = "load" => app \in Configs
    BY <1>2, <1>f, <1>g, <1>e, <1>w DEF Migrate
  <2> QED
    BY <1>a, <1>q, <2>1, <2>2 DEF Alone, Left
<1>3. ASSUME NEW p \in Processes, Resolve(p) \/ CreateProfile(p) PROVE Alone'
  <2>1. UNCHANGED <<app, temp, failed, crashes>> /\ ~At(p, "idle") /\ Ends(p)
    BY <1>3 DEF Resolve, CreateProfile, At
  <2> QED
    BY <1>a, <1>q, <1>e, <2>1 DEF Alone, Left
<1>4. ASSUME NEW p \in Processes, Load(p) PROVE Alone'
  <2>1. UNCHANGED <<app, temp, failed, crashes>> /\ ~At(p, "idle")
    BY <1>4 DEF Load, At
  <2>2. /\ \A r \in Processes : r # p => call'[r] = call[r]
        /\ call'[p].pc \in {"create", "idle"}
    BY <1>4, <1>e, <1>w DEF Load
  <2> QED
    BY <1>a, <1>q, <2>1, <2>2 DEF Alone, Left
<1>5. ASSUME NEW p \in Processes, OpenTemp(p) PROVE Alone'
  <2>1. temp # Absent => temp' = temp /\ Left
    \* An open file would be that of another call.
    <3>1. temp \in Names /\ ~Open(p) /\ ~At(p, "idle")
      BY <1>5, <1>0 DEF OpenTemp, TypeOK, At, Open
    <3>2. temp \notin Processes
      BY <3>1, <1>a DEF Owned, Alone, Open, At
    <3> QED
      BY <1>5, <3>1, <3>2 DEF OpenTemp, Names, Left
  <2>2. temp = Absent => temp' = p /\ ~Left'
    BY <1>5, <1>b DEF OpenTemp, Left
  <2>3. CASE temp = Absent
    BY <1>5, <1>a, <1>q, <1>g, <2>2, <2>3 DEF OpenTemp, At, Alone
  <2>4. CASE temp # Absent
    BY <1>5, <1>a, <1>q, <1>g, <2>1, <2>4 DEF OpenTemp, At, Alone, Left
  <2> QED
    BY <2>3, <2>4
<1>6. ASSUME NEW p \in Processes, Fill(p) PROVE Alone'
  <2>1. temp = p /\ ~At(p, "idle")
    BY <1>6, <1>a DEF Fill, At, Open, Alone
  <2> QED
    BY <1>6, <1>a, <1>q, <1>g, <2>1 DEF Fill, Alone, Left
<1>7. ASSUME NEW p \in Processes, Rename(p) PROVE Alone'
  <2>1. temp = p /\ p # Absent /\ call[p].body \in Configs /\ ~At(p, "idle")
    BY <1>7, <1>a, <1>b DEF Rename, At, Open, Alone
  <2>2. app' = call[p].body /\ temp' = Absent /\ ~Left'
    BY <1>7, <2>1 DEF Rename, Settled, Content, At, Left
  <2>3. /\ \A r \in Processes : r # p => call'[r] = call[r]
        /\ call'[p].pc \in {"load", "idle"}
    BY <1>7, <2>1, <1>g, <1>e DEF Rename
  <2> QED
    BY <1>7, <1>a, <1>q, <2>1, <2>2, <2>3 DEF Rename, Alone
<1>8. ASSUME NEW p \in Processes, Undo(p) PROVE Alone'
  <2>1. Left /\ failed' = failed + 1 /\ ~Left' /\ ~At(p, "idle")
    BY <1>8, <1>a, OverlapStays DEF Undo, Alone, Left, At
  <2>2. failed' <= crashes'
    BY <1>8, <1>0, <1>a, <2>1 DEF Undo, Alone
  <2> QED
    BY <1>8, <1>0, <1>a, <1>q, <1>e, <2>1, <2>2 DEF Undo, Alone
<1>9. ASSUME NEW p \in Processes, Crash(p) PROVE Alone'
  <2>1. failed' < crashes' /\ failed' <= crashes' /\ ~At(p, "idle") /\ app' = app
    BY <1>9, <1>0, <1>a, <1>f DEF Crash, Alone
  <2> QED
    BY <1>9, <1>0, <1>a, <1>q, <1>e, <2>1 DEF Crash, Alone
<1>10. ASSUME NEW id \in Ids, RemoveFolder(id) PROVE Alone'
  BY <1>10, <1>a DEF RemoveFolder, Alone, At, Open, Left
<1>11. CASE UNCHANGED vars
  BY <1>11, <1>a DEF vars, Alone, At, Open, Left
<1> QED
  BY <1>1, <1>2, <1>3, <1>4, <1>5, <1>6, <1>7, <1>8, <1>9, <1>10, <1>11 DEF Next

-------------------------------------------------------------------------------
(* While calls do not overlap, the file holds the settings kept so far, and what
   a call writes is what it makes of them. *)
Following ==
  /\ app \in Configs => app = kept
  /\ app = Absent => kept = DefaultConfig
  /\ \A p \in Processes : Writing(p) => call[p].body = Kept(p)

LEMMA FollowingNext ==
  ASSUME TypeInv, Owned, ~overlap => Alone, ~overlap => Following, [Next]_vars
  PROVE  ~overlap' => Following'
<1> SUFFICES ASSUME ~overlap' PROVE Following'
  OBVIOUS
<1> USE ProfilesAssumption
<1>0. TypeOK /\ call \in [Processes -> Calls] /\ Resting.pc = "idle" /\ kept \in Configs
  BY DEF TypeInv, TypeOK, Resting
<1>a. Alone /\ Following /\ ~overlap
  BY OverlapStays
<1>f. Content(app) = app /\ \A p \in Processes : Settled(app, p) = app
  BY <1>a DEF Alone, Content, Settled
\* A call that was not writing starts with a body that follows; one that was keeps it.
<1>q. ASSUME NEW p \in Processes, \A r \in Processes : r # p => call'[r] = call[r],
             app' = app, kept' = kept,
             call'[p].pc \in {"create", "fill", "rename"} =>
               \/ Writing(p) /\ call'[p].body = call[p].body
                    /\ call'[p].heals = call[p].heals /\ call'[p].op = call[p].op
               \/ call'[p].heals /\ call'[p].body = [kept EXCEPT !.active = Default]
               \/ ~call'[p].heals /\ call'[p].body = Edited(kept, call'[p].op)
      PROVE  Following'
  <2>1. \A r \in Processes : r # p /\ Writing(r)' => call'[r].body = Kept(r)'
    BY <1>q, <1>a DEF Following, Writing, Kept
  <2>2. Writing(p)' => call'[p].body = Kept(p)'
    BY <1>q, <1>a DEF Following, Writing, Kept
  <2> QED
    BY <1>q, <1>a, <2>1, <2>2 DEF Following
<1>g. ASSUME NEW p \in Processes, NEW pc, Goto(p, pc)
      PROVE  /\ call'[p].pc = pc /\ \A r \in Processes : r # p => call'[r] = call[r]
             /\ call'[p].body = call[p].body /\ call'[p].heals = call[p].heals
             /\ call'[p].op = call[p].op
  BY <1>g, <1>0 DEF Goto, Calls
<1>e. ASSUME NEW p \in Processes, Ends(p)
      PROVE  call'[p].pc = "idle" /\ \A r \in Processes : r # p => call'[r] = call[r]
  BY <1>e, <1>0 DEF Ends
<1>w. ASSUME NEW p \in Processes, NEW body, NEW heals, Writes(p, body, heals)
      PROVE  /\ call'[p].pc = "create" /\ \A r \in Processes : r # p => call'[r] = call[r]
             /\ call'[p].body = body /\ call'[p].heals = heals /\ call'[p].op = call[p].op
  BY <1>w, <1>0 DEF Writes, Calls
<1>1. ASSUME NEW p \in Processes, NEW op \in Operations, Begin(p, op) PROVE Following'
  <2>1. call'[p].pc = "migrate" /\ \A r \in Processes : r # p => call'[r] = call[r]
    BY <1>1, <1>0 DEF Begin, Resting
  <2> QED
    BY <1>1, <1>q, <2>1 DEF Begin
<1>2. ASSUME NEW p \in Processes, Migrate(p) PROVE Following'
  <2>1. CASE Writes(p, DefaultConfig, TRUE) /\ app = Absent
    <3>1. DefaultConfig = [kept EXCEPT !.active = Default]
      BY <2>1, <1>a DEF Following, DefaultConfig
    <3> QED
      BY ZenonT(60), <1>2, <1>q, <1>w, <2>1, <3>1 DEF Migrate
  <2>2. CASE Writes(p, [app EXCEPT !.active = Default], TRUE) /\ app \in Configs
    <3>1. app = kept
      BY <2>2, <1>a DEF Following
    <3> QED
      BY ZenonT(60), <1>2, <1>q, <1>w, <2>2, <3>1 DEF Migrate
  <2>3. CASE Ends(p) \/ Goto(p, "load")
    BY <1>2, <1>q, <1>e, <1>g, <2>3 DEF Migrate
  <2> QED
    BY <1>2, <1>f, <2>1, <2>2, <2>3 DEF Migrate
<1>3. ASSUME NEW p \in Processes, Resolve(p) \/ CreateProfile(p) PROVE Following'
  BY <1>3, <1>q, <1>e DEF Resolve, CreateProfile
<1>4. ASSUME NEW p \in Processes, Load(p) PROVE Following'
  <2>1. app = kept /\ Loaded = kept
    BY <1>4, <1>a, <1>f DEF Load, Alone, Following, Loaded
  <2>2. CASE Ends(p)
    BY <1>4, <2>2, <1>q, <1>e DEF Load
  <2>3. CASE Writes(p, Edited(Loaded, call[p].op), FALSE)
    BY <1>4, <2>1, <2>3, <1>q, <1>w DEF Load
  <2> QED
    BY <1>4, <2>2, <2>3 DEF Load
<1>5. ASSUME NEW p \in Processes, OpenTemp(p) \/ Fill(p) PROVE Following'
  <2>1. Writing(p) /\ app' = app /\ kept' = kept
    BY <1>5 DEF OpenTemp, Fill, Writing, At
  <2>2. Goto(p, "fill") \/ Goto(p, "undo") \/ Goto(p, "rename")
    BY <1>5 DEF OpenTemp, Fill
  <2> QED
    BY <1>q, <1>g, <2>1, <2>2
<1>6. ASSUME NEW p \in Processes, Rename(p) PROVE Following'
  <2>1. temp = p /\ p # Absent /\ Writing(p)
    BY <1>6, <1>a DEF Rename, At, Open, Alone, Writing
  <2>2. app' = call[p].body /\ kept' = Kept(p)
    BY <1>6, <1>a, <2>1 DEF Rename, Settled, Content, At
  <2>3. app' = kept' /\ app' # Absent
    BY <2>1, <2>2, <1>a, <1>0 DEF Following, Calls
  <2>4. \A r \in Processes : ~Writing(r)'
    <3>1. \A r \in Processes : r # p => call'[r] = call[r]
      BY <1>6, <1>g, <1>e DEF Rename
    <3>2. call'[p].pc \in {"load", "undo", "idle"}
      BY <1>6, <1>g, <1>e DEF Rename
    <3> QED
      BY <1>6, <1>a, <3>1, <3>2 DEF Rename, Alone, Writing, At
  <2> QED
    BY <2>3, <2>4 DEF Following
<1>7. ASSUME NEW p \in Processes, Undo(p) \/ Crash(p) PROVE Following'
  <2>1. app' = app /\ kept' = kept /\ Ends(p)
    BY <1>7, <1>f DEF Undo, Crash
  <2> QED
    BY <1>q, <1>e, <2>1
<1>8. CASE UNCHANGED <<app, kept, call>>
  BY <1>8, <1>a DEF Following, Writing, Kept
<1> QED
  BY <1>1, <1>2, <1>3, <1>4, <1>5, <1>6, <1>7, <1>8 DEF Next, RemoveFolder, vars

-------------------------------------------------------------------------------
(* Every configuration that is or may come to be the file names a folder that
   exists: always while no folder was removed, and otherwise again once a call
   that overlaps with nothing has migrated. *)
Found(f) == f \in Configs => f.active \in dirs

Reachable ==
  /\ \A p \in Processes : Past(p) /\ (removals = 0 \/ ~overlap) => Default \in dirs
  /\ removals = 0 =>
       /\ Found(app) /\ Found(temp)
       /\ \A p \in Processes : Writing(p) => call[p].body.active \in dirs
  /\ \A p \in Processes : Writing(p) /\ call[p].heals => call[p].body.active = Default
  /\ \A p \in Processes : At(p, "load") /\ ~overlap => Found(app)

LEMMA ReachableNext ==
  ASSUME TypeInv, Owned, ~overlap => Alone, Reachable, [Next]_vars
  PROVE  Reachable'
<1> USE ProfilesAssumption
<1>0. /\ TypeOK /\ call \in [Processes -> Calls] /\ Resting.pc = "idle"
      /\ removals \in Nat /\ overlap \in BOOLEAN
  BY DEF TypeInv, TypeOK, Resting
<1>c. ASSUME removals = 0, NEW f \in {app, temp} PROVE Found(Content(f))
  <2>1. CASE f \in Processes
    BY <1>c, <2>1, <1>0 DEF Owned, Open, Writing, Content, Reachable, Found
  <2>2. CASE f \notin Processes
    BY <1>c, <2>2 DEF Content, Reachable
  <2> QED
    BY <2>1, <2>2
<1>s. ASSUME removals = 0, NEW p \in Processes
      PROVE  Found(Settled(app, p)) /\ Found(Settled(temp, p))
  BY <1>s, <1>c DEF Settled, Reachable
<1>d. DefaultConfig.active = Default
  BY DEF DefaultConfig
<1>p. ASSUME NEW f, f \in Processes PROVE f \notin Configs
  BY <1>p
\* What a step of p must show: folders only come, and its own call does as it should.
<1>q. ASSUME NEW p \in Processes, \A r \in Processes : r # p => call'[r] = call[r],
             dirs \subseteq dirs', removals' = removals, ~overlap' => ~overlap,
             removals = 0 => Found(app)' /\ Found(temp)',
             app' = app \/ \A r \in Processes : r # p /\ ~overlap => ~At(r, "load"),
             call'[p].pc \in {"load", "create", "fill", "rename", "undo"} =>
               Past(p) \/ Default \in dirs',
             call'[p].pc \in {"create", "fill", "rename"} =>
               /\ removals = 0 => call'[p].body.active \in dirs'
               /\ call'[p].heals => call'[p].body.active = Default,
             call'[p].pc = "load" /\ ~overlap' => Found(app)'
      PROVE  Reachable'
  <2>1. \A r \in Processes : Past(r)' /\ (removals' = 0 \/ ~overlap') => Default \in dirs'
    BY <1>q DEF Reachable, Past
  <2>2. removals' = 0 => \A r \in Processes : Writing(r)' => call'[r].body.active \in dirs'
    BY <1>q DEF Reachable, Writing
  <2>3. \A r \in Processes : Writing(r)' /\ call'[r].heals => call'[r].body.active = Default
    BY <1>q DEF Reachable, Writing
  <2>4. \A r \in Processes : At(r, "load")' /\ ~overlap' => Found(app)'
    BY <1>q DEF Reachable, At, Found
  <2> QED
    BY <1>q, <2>1, <2>2, <2>3, <2>4 DEF Reachable
<1>g. ASSUME NEW p \in Processes, NEW pc, Goto(p, pc)
      PROVE  /\ call'[p].pc = pc /\ \A r \in Processes : r # p => call'[r] = call[r]
             /\ call'[p].body = call[p].body /\ call'[p].heals = call[p].heals
  BY <1>g, <1>0 DEF Goto, Calls
<1>e. ASSUME NEW p \in Processes, Ends(p)
      PROVE  call'[p].pc = "idle" /\ \A r \in Processes : r # p => call'[r] = call[r]
  BY <1>e, <1>0 DEF Ends
<1>w. ASSUME NEW p \in Processes, NEW body, NEW heals, Writes(p, body, heals)
      PROVE  /\ call'[p].pc = "create" /\ \A r \in Processes : r # p => call'[r] = call[r]
             /\ call'[p].body = body /\ call'[p].heals = heals
  BY <1>w, <1>0 DEF Writes, Calls
<1>1. ASSUME NEW p \in Processes, NEW op \in Operations, Begin(p, op) PROVE Reachable'
  <2>1. call'[p].pc = "migrate" /\ \A r \in Processes : r # p => call'[r] = call[r]
    BY <1>1, <1>0 DEF Begin, Resting
  <2>2. UNCHANGED <<app, temp, dirs, removals>> /\ (~overlap' => ~overlap)
    BY <1>1 DEF Begin
  <2> QED
    BY <1>q, <2>1, <2>2 DEF Reachable, Found
<1>2. ASSUME NEW p \in Processes, Migrate(p) PROVE Reachable'
  <2>1. /\ UNCHANGED <<app, temp, removals, overlap>>
        /\ dirs' = dirs \cup {Default} /\ Found(app)' = (app \in Configs => app.active \in dirs')
    BY <1>2 DEF Migrate, Found
  <2>2. removals = 0 => Found(app)' /\ Found(temp)'
    BY <2>1 DEF Reachable, Found
  <2>3. CASE Writes(p, DefaultConfig, TRUE)
    BY <1>q, <1>w, <1>d, <2>1, <2>2, <2>3
  <2>4. CASE Writes(p, [Content(app) EXCEPT !.active = Default], TRUE) /\ Content(app) \in Configs
    <3>1. [Content(app) EXCEPT !.active = Default].active = Default
      BY <2>4 DEF Configs
    <3> QED
      BY ZenonT(60), <1>q, <1>w, <2>1, <2>2, <2>4, <3>1
  <2>5. CASE Ends(p)
    BY <1>q, <1>e, <2>1, <2>2, <2>5
  <2>6. CASE Goto(p, "load") /\ Content(app).active \in dirs'
    <3>1. ~overlap => Found(app)'
      BY <2>6, <2>1 DEF Alone, Content
    <3> QED
      BY <1>q, <1>g, <2>1, <2>2, <2>6, <3>1
  <2> QED
    BY <1>2, <2>3, <2>4, <2>5, <2>6 DEF Migrate
<1>3. ASSUME NEW p \in Processes, Resolve(p) \/ CreateProfile(p) PROVE Reachable'
  <2>1. UNCHANGED <<app, temp, removals, overlap>> /\ dirs \subseteq dirs' /\ Ends(p)
    BY <1>3 DEF Resolve, CreateProfile
  <2> QED
    BY <1>q, <1>e, <2>1 DEF Reachable, Found
<1>4. ASSUME NEW p \in Processes, Load(p) PROVE Reachable'
  <2>1. UNCHANGED <<app, temp, dirs, removals, overlap>>
    BY <1>4 DEF Load
  <2>2. CASE Ends(p)
    BY <1>q, <1>e, <2>1, <2>2 DEF Reachable, Found
  <2>3. CASE /\ Writes(p, Edited(Loaded, call[p].op), FALSE)
             /\ call[p].op.kind = "switch" => call[p].op.to \in dirs
    <3>1. Loaded \in Configs /\ (removals = 0 => Loaded.active \in dirs)
      <4>1. Past(p) /\ DefaultConfig \in Configs
        BY <1>4 DEF Load, At, Past, DefaultConfig, Configs
      <4> QED
        BY <1>c, <1>d, <4>1 DEF Loaded, Reachable, Found
    <3>2. removals = 0 => Edited(Loaded, call[p].op).active \in dirs
      BY <2>3, <3>1 DEF Edited, Configs
    <3>3. Past(p)
      BY <1>4 DEF Load, At, Past
    <3> QED
      BY ZenonT(60), <1>q, <1>w, <2>1, <2>3, <3>2, <3>3 DEF Reachable, Found
  <2> QED
    BY <1>4, <2>2, <2>3 DEF Load
<1>5. ASSUME NEW p \in Processes, OpenTemp(p) \/ Fill(p) PROVE Reachable'
  <2>1. UNCHANGED <<app, dirs, removals, overlap>> /\ temp' \in {temp, p}
    BY <1>5 DEF OpenTemp, Fill
  <2>2. Writing(p) /\ Past(p)
    BY <1>5 DEF OpenTemp, Fill, At, Writing, Past
  <2>3. Goto(p, "fill") \/ Goto(p, "rename") \/ Goto(p, "undo")
    BY <1>5 DEF OpenTemp, Fill
  <2>4. removals = 0 => Found(app)' /\ Found(temp)'
    BY <1>p, <2>1 DEF Reachable, Found
  <2> QED
    BY <1>q, <1>g, <2>1, <2>2, <2>3, <2>4 DEF Reachable
<1>6. ASSUME NEW p \in Processes, Rename(p) PROVE Reachable'
  <2>1. /\ UNCHANGED <<dirs, removals, overlap>> /\ Past(p) /\ Writing(p)
        /\ app' \in {Settled(app, p), Settled(temp, p)} /\ temp' = Absent
    BY <1>6 DEF Rename, At, Past, Writing
  <2>2. removals = 0 => Found(app)' /\ Found(temp)'
    BY <1>s, <2>1 DEF Found
  <2>3. ~overlap => \A r \in Processes : r # p => ~At(r, "load")
    BY <1>6 DEF Rename, Alone, At
  <2>4. Goto(p, "load") \/ Goto(p, "undo") \/ Ends(p)
    BY <1>6 DEF Rename
  <2>5. Goto(p, "load") /\ ~overlap => Found(app)'
    <3>1. SUFFICES ASSUME Goto(p, "load"), ~overlap PROVE Found(app)'
      OBVIOUS
    <3>2. temp = p
      BY <3>1, <1>6 DEF Rename, At, Open, Alone
    <3>3. call[p].heals /\ app' = Settled(temp, p)
      BY <1>6, <3>1, <3>2, <1>g, <1>e DEF Rename
    <3>4. app' = call[p].body /\ app'.active = Default
      BY <1>6, <2>1, <3>2, <3>3 DEF Rename, Settled, Content, At, Reachable
    <3> QED
      BY <2>1, <3>1, <3>4 DEF Reachable, Found
  <2>6. CASE Goto(p, "load")
    BY <1>q, <1>g, <2>1, <2>2, <2>3, <2>5, <2>6
  <2>7. CASE Goto(p, "undo") \/ Ends(p)
    BY <1>q, <1>g, <1>e, <2>1, <2>2, <2>3, <2>7
  <2> QED
    BY <2>4, <2>6, <2>7
<1>7. ASSUME NEW p \in Processes, Undo(p) \/ Crash(p) PROVE Reachable'
  <2>1. UNCHANGED <<dirs, removals, overlap>> /\ Ends(p)
    BY <1>7 DEF Undo, Crash
  <2>2. app' \in {app, Settled(app, p)} /\ temp' \in {Absent, Settled(temp, p)}
    BY <1>7 DEF Undo, Crash
  <2>3. removals = 0 => Found(app)' /\ Found(temp)'
    BY <1>s, <2>1, <2>2 DEF Reachable, Found
  <2>4. ~overlap => \A r \in Processes : r # p => ~At(r, "load")
    BY <1>7 DEF Undo, Crash, Alone, At
  <2> QED
    BY <1>q, <1>e, <2>1, <2>3, <2>4
<1>8. ASSUME NEW id \in Ids, RemoveFolder(id) PROVE Reachable'
  <2>1. removals' # 0 /\ call' = call
    BY <1>8, <1>0 DEF RemoveFolder
  <2>2. ~overlap' => \A p \in Processes : At(p, "idle")
    BY <1>8 DEF RemoveFolder, Busy
  <2> QED
    BY <2>1, <2>2 DEF Reachable, Past, Writing, At
<1>9. CASE UNCHANGED vars
  BY <1>9 DEF vars, Reachable, Found, Past, Writing, At
<1> QED
  BY <1>1, <1>2, <1>3, <1>4, <1>5, <1>6, <1>7, <1>8, <1>9 DEF Next

-------------------------------------------------------------------------------
(* The inductive invariant. *)
Inv ==
  /\ TypeInv /\ Owned /\ Reachable
  /\ ~overlap => Alone
  /\ ~overlap => Following

LEMMA InvInit == Init => Inv
<1> SUFFICES ASSUME Init PROVE Inv
  OBVIOUS
<1> USE ProfilesAssumption
<1>1. \A p \in Processes : call[p].pc = "idle"
  BY DEF Init, Resting
<1>2. Owned
  BY DEF Init, Owned
<1>3. Reachable
  <2>1. \A p \in Processes : ~Past(p) /\ ~Writing(p) /\ ~At(p, "load")
    BY <1>1 DEF Past, Writing, At
  <2>2. Absent \notin Configs
    OBVIOUS
  <2> QED
    BY <2>1, <2>2 DEF Init, Reachable, Found
<1>4. Alone
  BY <1>1 DEF Init, Alone, Left, At, Open
<1>5. Following
  <2>1. \A p \in Processes : ~Writing(p)
    BY <1>1 DEF Writing
  <2> QED
    BY <2>1 DEF Init, Following
<1> QED
  BY TypeInit, <1>2, <1>3, <1>4, <1>5 DEF Inv

LEMMA InvNext == Inv /\ [Next]_vars => Inv'
BY TypeNext, OwnedNext, AloneNext, FollowingNext, ReachableNext DEF Inv

LEMMA Invariance == Spec => []Inv
<1>1. Init => Inv
  BY InvInit
<1>2. Inv /\ [Next]_vars => Inv'
  BY InvNext
<1> QED
  BY <1>1, <1>2, PTL DEF Spec

\* Every variable keeps its type: a name is free, holds a configuration or the
\* beginning of one, or is the file of a process that has one open.
THEOREM TypeCorrect == Spec => []TypeOK
<1>1. Inv => TypeOK
  BY DEF Inv, TypeInv
<1> QED
  BY <1>1, Invariance, PTL

\* softwake.json is whole at every moment while calls do not overlap: what is being
\* written is at the temporary name only (atomic_write).
THEOREM FileWhole == Spec => []FileStaysWhole
<1>1. Inv => FileStaysWhole
  <2> SUFFICES ASSUME Inv, ~overlap PROVE Content(app) # Torn
    BY DEF FileStaysWhole
  <2> QED
    BY ProfilesAssumption DEF Inv, Alone, Content
<1> QED
  BY <1>1, Invariance, PTL

\* While calls do not overlap they fail to write no more often than processes died
\* (atomic_write's create_new and its error path).
THEOREM OneFailure == Spec => []OneFailurePerCrash
<1>1. Inv => OneFailurePerCrash
  BY DEF Inv, Alone, OneFailurePerCrash
<1> QED
  BY <1>1, Invariance, PTL

\* While calls do not overlap the settings are those of the successful calls, and a
\* write that dies changes none of them (load_app_config and the setters).
THEOREM SettingsKept == Spec => []SettingsSurvive
<1>1. Inv => SettingsSurvive
  <2> SUFFICES ASSUME Inv, ~overlap, Content(app) \in Configs PROVE Content(app) = kept
    BY DEF SettingsSurvive
  <2> QED
    BY ProfilesAssumption DEF Inv, Alone, Following, Content
<1> QED
  BY <1>1, Invariance, PTL

\* The active profile has a folder, however calls overlap and die, as long as no
\* folder is deleted by hand; when one was, again after the next call's migration
\* (ensure_migrated, set_active_profile).
THEOREM ActiveFound == Spec => []ActiveExists
<1>1. Inv => ActiveExists
  <2> SUFFICES ASSUME Inv, Content(app) \in Configs,
                      removals = 0 \/ (~overlap /\ \E p \in Processes : At(p, "load"))
               PROVE  Content(app).active \in dirs
    BY DEF ActiveExists
  <2>1. CASE removals = 0 /\ app \in Processes
    <3>1. Open(app) /\ Content(app) = call[app].body
      BY <2>1, ProfilesAssumption DEF Inv, Owned, Content
    <3> QED
      BY <2>1, <3>1 DEF Inv, Reachable, Open, Writing
  <2>2. CASE removals = 0 /\ app \notin Processes
    BY <2>2 DEF Inv, Reachable, Found, Content
  <2>3. CASE ~overlap /\ \E p \in Processes : At(p, "load")
    <3>1. app \in Configs
      BY <2>3, ProfilesAssumption DEF Inv, Alone, Content
    <3> QED
      BY <2>3, <3>1, ProfilesAssumption DEF Inv, Reachable, Found, Content
  <2> QED
    BY <2>1, <2>2, <2>3
<1> QED
  BY <1>1, Invariance, PTL

===============================================================================
