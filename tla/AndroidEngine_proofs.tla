------------------------ MODULE AndroidEngine_proofs ------------------------
(***************************************************************************)
(* However often the user taps and the system takes the permission back:   *)
(* one engine at a time, reached by its handle, never shown as connected   *)
(* after it was stopped, and an interface that somebody reads.             *)
(***************************************************************************)
EXTENDS AndroidEngine, TLAPS, SequenceTheorems

----------------------------------------------------------------------------
(* Two things make the properties inductive.  A start the main thread is   *)
(* at work on has a generation, of which there are enough: every intent on *)
(* its way was a tap once (Budget).  And what the main thread is doing     *)
(* says what RUNNING holds meanwhile (HeldMeanwhile).                      *)

Disconnects == {i \in 1 .. Len(commands) : commands[i] = "disconnect"}

Budget ==
    /\ Len(commands) + asking + left.taps <= left.starts + 1
    /\ Disconnects = {} => Len(commands) + asking + left.taps <= left.starts
    /\ \A i, j \in Disconnects : i = j

HeldMeanwhile ==
    /\ thread.at # "idle" => thread.gen \in Gen
    /\ thread.at = "replacing" => running.gen \in Gen
    /\ thread.at = "joining" => running = NoEngine

(* What the code keeps true of itself, whatever the user does.             *)
Guarded ==
    /\ HeldMeanwhile
    /\ OneEngine
    /\ HandleIsOwn
    /\ StoppedIsNotConnected
    /\ InterfaceHasOwner

EngineInvariant == TypeOK /\ Budget /\ Guarded

Threads == [at : {"idle", "starting", "replacing", "joining"}, gen : 0 .. MaxTaps]
Workers == {"none", "connecting", "locking", "announcing", "running", "ended", "gone"}
Stacks == {"none", "up", "told", "severed", "gone"}

----------------------------------------------------------------------------
(* Intents: each is a tap, or the one disconnect that may be on its way.   *)

(* One more at the end.                                                    *)
LEMMA IntentAdded ==
    ASSUME commands \in Seq({"start", "disconnect"}), NEW c \in {"start", "disconnect"},
           commands' = Append(commands, c)
    PROVE  /\ commands' \in Seq({"start", "disconnect"})
           /\ Len(commands') = Len(commands) + 1
           /\ Len(commands) \in Nat
           /\ c = "start" => Disconnects' = Disconnects
           /\ c = "disconnect" => Disconnects' = Disconnects \cup {Len(commands) + 1}
  <1>1. /\ commands' \in Seq({"start", "disconnect"})
        /\ Len(commands') = Len(commands) + 1
        /\ \A i \in 1 .. Len(commands) : commands'[i] = commands[i]
        /\ commands'[Len(commands) + 1] = c
    BY AppendProperties
  <1>2. Len(commands) \in Nat
    BY LenProperties
  <1>3. 1 .. Len(commands') = (1 .. Len(commands)) \cup {Len(commands) + 1}
    BY <1>1, <1>2
  <1>4. c = "start" => Disconnects' = Disconnects
    BY <1>1, <1>2, <1>3 DEF Disconnects
  <1>5. c = "disconnect" => Disconnects' = Disconnects \cup {Len(commands) + 1}
    BY <1>1, <1>2, <1>3 DEF Disconnects
  <1> QED
    BY <1>1, <1>2, <1>4, <1>5

(* The first one taken.                                                    *)
LEMMA IntentTaken ==
    ASSUME commands \in Seq({"start", "disconnect"}), commands # <<>>,
           commands' = Tail(commands)
    PROVE  /\ commands' \in Seq({"start", "disconnect"})
           /\ Len(commands) \in Nat /\ Len(commands) >= 1
           /\ Len(commands') = Len(commands) - 1
           /\ \A i \in Disconnects' : i \in Nat /\ i + 1 \in Disconnects
           /\ Head(commands) = "disconnect" => 1 \in Disconnects
  <1>1. /\ Tail(commands) \in Seq({"start", "disconnect"})
        /\ Len(Tail(commands)) = Len(commands) - 1
        /\ \A i \in 1 .. Len(Tail(commands)) : Tail(commands)[i] = commands[i + 1]
    BY HeadTailProperties
  <1>2. Len(commands) \in Nat /\ Len(commands) >= 1
    BY EmptySeq, LenProperties
  <1>3. \A i \in Disconnects' : i \in Nat /\ i + 1 \in Disconnects
    BY <1>1, <1>2 DEF Disconnects
  <1>4. Head(commands) = "disconnect" => 1 \in Disconnects
    BY <1>2 DEF Disconnects
  <1> QED
    BY <1>1, <1>2, <1>3, <1>4

(* Tapping, consenting and refusing keep the account.                      *)
LEMMA TapBudget ==
    ASSUME TypeOK, Budget, Tap \/ Consent \/ TapDisconnect
    PROVE  /\ Budget'
           /\ commands' \in Seq({"start", "disconnect"}) /\ Len(commands') <= MaxCommands
           /\ asking' \in 0 .. MaxTaps
           /\ left' \in [starts : 0 .. MaxTaps, taps : 0 .. MaxTaps, revokes : 0 .. MaxRevokes]
  <1> DEFINE Lefts == [starts : 0 .. MaxTaps, taps : 0 .. MaxTaps, revokes : 0 .. MaxRevokes]
  <1>0. /\ MaxTaps \in Nat /\ asking \in Nat /\ left.taps \in Nat /\ left.starts \in 0 .. MaxTaps
        /\ left \in Lefts /\ commands \in Seq({"start", "disconnect"})
        /\ Len(commands) \in Nat
    BY AndroidEngineAssumption, LenProperties DEF TypeOK
  <1>a. Len(commands) + asking + left.taps <= left.starts + 1
    BY DEF Budget
  <1>b. Disconnects = {} => Len(commands) + asking + left.taps <= left.starts
    BY DEF Budget
  <1>c. \A i, j \in Disconnects : i = j
    BY DEF Budget
  <1>1. CASE Tap
    <2>1. left.taps > 0 /\ left' = [left EXCEPT !.taps = @ - 1]
          /\ asking' = asking + 1 /\ commands' = commands
      BY <1>1 DEF Tap
    <2>2. left' \in Lefts /\ left'.taps = left.taps - 1 /\ left'.starts = left.starts
      BY <1>0, <2>1
    <2>3. Disconnects' = Disconnects
      BY <2>1 DEF Disconnects
    <2>4. Len(commands') + asking' + left'.taps = Len(commands) + asking + left.taps
      BY <1>0, <2>1, <2>2
    <2>a. Len(commands) = 0 => Disconnects = {}
      BY DEF Disconnects
    <2>b. asking + left.taps <= left.starts
      BY <1>0, <1>a, <1>b, <2>a
    <2>5. Len(commands) <= MaxCommands /\ asking' \in 0 .. MaxTaps
      BY <1>0, <2>1, <2>b DEF TypeOK
    <2> QED
      BY <1>0, <1>a, <1>b, <1>c, <2>1, <2>2, <2>3, <2>4, <2>5 DEF Budget
  <1>2. CASE Consent
    <2>1. asking > 0 /\ asking' = asking - 1 /\ left' = left
      BY <1>2 DEF Consent
    <2>2. CASE commands' = Append(commands, "start")
      <3>1. /\ commands' \in Seq({"start", "disconnect"})
            /\ Len(commands') = Len(commands) + 1
            /\ Disconnects' = Disconnects
        BY <1>0, <2>2, IntentAdded
      <3>2. Len(commands') + asking' + left'.taps = Len(commands) + asking + left.taps
        BY <1>0, <2>1, <3>1
      <3>3. Len(commands') <= MaxCommands /\ asking' \in 0 .. MaxTaps
        BY <1>0, <1>a, <2>1, <3>1, <3>2 DEF MaxCommands, TypeOK
      <3> QED
        BY <1>0, <1>a, <1>b, <1>c, <2>1, <3>1, <3>2, <3>3 DEF Budget
    <2>3. CASE commands' = commands
      <3>1. Disconnects' = Disconnects
        BY <2>3 DEF Disconnects
      <3>2. asking' \in 0 .. MaxTaps /\ Len(commands) <= MaxCommands
        BY <1>0, <2>1 DEF TypeOK
      <3> QED
        BY <1>0, <1>a, <1>b, <1>c, <2>1, <2>3, <3>1, <3>2 DEF Budget
    <2> QED
      BY <1>2, <2>2, <2>3 DEF Consent
  <1>3. CASE TapDisconnect
    <2>1. /\ Len(commands) < MaxCommands
          /\ commands' = Append(commands, "disconnect") /\ asking' = asking /\ left' = left
      BY <1>3 DEF TapDisconnect, appVars
    <2>2. Disconnects = {}
      BY <1>3 DEF TapDisconnect, Disconnects
    <2>3. /\ commands' \in Seq({"start", "disconnect"})
          /\ Len(commands') = Len(commands) + 1
          /\ Disconnects' = {Len(commands) + 1}
      BY <1>0, <2>1, <2>2, IntentAdded
    <2>4. Len(commands') + asking' + left'.taps <= left'.starts + 1
      BY <1>0, <1>b, <2>1, <2>2, <2>3
    <2>5. Len(commands') <= MaxCommands
      BY <1>0, <2>1, <2>3 DEF MaxCommands
    <2> QED
      BY <1>0, <2>1, <2>3, <2>4, <2>5 DEF Budget, TypeOK
  <1> QED
    BY <1>1, <1>2, <1>3

(* An intent taken by the main thread: a start has a generation left.      *)
LEMMA IntentBudget ==
    ASSUME TypeOK, Budget, commands # <<>>, commands' = Tail(commands), asking' = asking,
           \/ Head(commands) = "disconnect" /\ left' = left
           \/ /\ Head(commands) = "start"
              /\ left' \in {left, [left EXCEPT !.starts = @ - 1]}
    PROVE  /\ Budget'
           /\ commands' \in Seq({"start", "disconnect"}) /\ Len(commands') <= MaxCommands
           /\ left' \in [starts : 0 .. MaxTaps, taps : 0 .. MaxTaps, revokes : 0 .. MaxRevokes]
           /\ Head(commands) = "start" => MaxTaps - left.starts + 1 \in Gen
  <1> DEFINE Lefts == [starts : 0 .. MaxTaps, taps : 0 .. MaxTaps, revokes : 0 .. MaxRevokes]
  <1>0. /\ MaxTaps \in Nat /\ asking \in Nat /\ left.taps \in Nat /\ left.starts \in 0 .. MaxTaps
        /\ left \in Lefts /\ commands \in Seq({"start", "disconnect"})
    BY AndroidEngineAssumption DEF TypeOK
  <1>a. Len(commands) + asking + left.taps <= left.starts + 1
    BY DEF Budget
  <1>b. Disconnects = {} => Len(commands) + asking + left.taps <= left.starts
    BY DEF Budget
  <1>c. \A i, j \in Disconnects : i = j
    BY DEF Budget
  <1>1. /\ commands' \in Seq({"start", "disconnect"})
        /\ Len(commands) \in Nat /\ Len(commands) >= 1
        /\ Len(commands') = Len(commands) - 1
        /\ \A i \in Disconnects' : i \in Nat /\ i + 1 \in Disconnects
        /\ Head(commands) = "disconnect" => 1 \in Disconnects
    BY <1>0, IntentTaken
  <1>2. Len(commands') <= MaxCommands
    BY <1>0, <1>1 DEF TypeOK, MaxCommands
  <1>3. \A i, j \in Disconnects' : i = j
    BY <1>c, <1>1
  <1>4. CASE Head(commands) = "disconnect" /\ left' = left
    <2>1. Disconnects' = {}
      <3> SUFFICES ASSUME NEW i \in Disconnects' PROVE FALSE
        OBVIOUS
      <3>1. i \in Nat /\ i + 1 = 1
        BY <1>c, <1>1, <1>4
      <3>2. i \in 1 .. Len(commands')
        BY DEF Disconnects
      <3> QED
        BY <3>1, <3>2
    <2>2. Len(commands') + asking' + left'.taps <= left'.starts
      BY <1>0, <1>a, <1>1, <1>4
    <2> QED
      BY <1>0, <1>1, <1>2, <1>3, <1>4, <2>1, <2>2 DEF Budget
  <1>5. CASE Head(commands) = "start" /\ left' \in {left, [left EXCEPT !.starts = @ - 1]}
    <2>1. left.starts >= 1
      <3>1. CASE Disconnects = {}
        BY <1>0, <1>b, <1>1, <3>1
      <3>2. CASE Disconnects # {}
        <4>1. PICK i \in Disconnects : TRUE
          BY <3>2
        <4>2. i \in 1 .. Len(commands) /\ commands[i] = "disconnect" /\ commands[1] = "start"
          BY <1>5 DEF Disconnects
        <4>3. Len(commands) >= 2
          BY <1>1, <4>2
        <4> QED
          BY <1>0, <1>a, <4>3
      <3> QED
        BY <3>1, <3>2
    <2>2. /\ left' \in Lefts /\ left'.taps = left.taps /\ left'.starts \in Nat
          /\ left'.starts >= left.starts - 1
      BY <1>0, <1>5, <2>1
    <2>3. Disconnects' = {} => Disconnects = {}
      <3> SUFFICES ASSUME NEW i \in Disconnects PROVE i - 1 \in Disconnects'
        OBVIOUS
      <3>1. i \in 1 .. Len(commands) /\ commands[i] = "disconnect" /\ commands[1] = "start"
        BY <1>5 DEF Disconnects
      <3>2. i - 1 \in 1 .. Len(commands')
        BY <1>1, <3>1
      <3>3. commands'[i - 1] = commands[(i - 1) + 1]
        BY <1>0, <3>2, HeadTailProperties
      <3>4. (i - 1) + 1 = i
        BY <1>1, <3>1
      <3> QED
        BY <3>1, <3>2, <3>3, <3>4 DEF Disconnects
    <2>4. Len(commands') + asking' + left'.taps <= left'.starts + 1
      BY <1>0, <1>a, <1>1, <2>2
    <2>5. Disconnects' = {} => Len(commands') + asking' + left'.taps <= left'.starts
      BY <1>0, <1>b, <1>1, <2>2, <2>3
    <2>6. MaxTaps - left.starts + 1 \in Gen
      BY <1>0, <2>1 DEF Gen
    <2> QED
      BY <1>0, <1>1, <1>2, <1>3, <1>5, <2>2, <2>4, <2>5, <2>6 DEF Budget
  <1> QED
    BY <1>4, <1>5

----------------------------------------------------------------------------
(* The engine.  What TypeOK says, without the bookkeeping of intents.      *)

NativeTyped ==
    /\ pending \in BOOLEAN
    /\ running \in [gen : 0 .. MaxTaps, handle : 0 .. MaxTaps]
    /\ state \in States /\ shown \in States
    /\ thread \in Threads
    /\ worker \in [Gen -> Workers]
    /\ stack \in [Gen -> Stacks]
    /\ iface \in 0 .. MaxTaps
    /\ service \in [tornDown : BOOLEAN, stopping : BOOLEAN]

BooksTyped ==
    /\ commands \in Seq({"start", "disconnect"}) /\ Len(commands) <= MaxCommands
    /\ asking \in 0 .. MaxTaps
    /\ left \in [starts : 0 .. MaxTaps, taps : 0 .. MaxTaps, revokes : 0 .. MaxRevokes]

(* The two halves of the type invariant.                                   *)
LEMMA TypeSplits == TypeOK <=> NativeTyped /\ BooksTyped
  BY DEF TypeOK, NativeTyped, BooksTyped, Threads, Workers, Stacks

(* The same of the state after a step.                                     *)
LEMMA TypeJoins == NativeTyped' /\ BooksTyped' => TypeOK'
  BY DEF TypeOK, NativeTyped, BooksTyped, Threads, Workers, Stacks

Held == NativeTyped /\ Guarded

(* A generation is a number above that of no engine.                       *)
LEMMA Gens == Gen = (0 .. MaxTaps) \ {0} /\ 0 \in 0 .. MaxTaps
  BY AndroidEngineAssumption DEF Gen

USE DEF NoEngine, Free, Active

(* Steps of the app and of the platform that leave the engine as it is, or *)
(* put the state back to Idle.                                             *)
LEMMA AppKeepsHeld ==
    ASSUME Held, UNCHANGED <<running, thread, worker, stack>>,
           pending' \in BOOLEAN, state' \in {state, "Idle"}, shown' \in States,
           iface' \in {iface, 0},
           service' \in [tornDown : BOOLEAN, stopping : BOOLEAN]
    PROVE  Held'
  <1>1. NativeTyped'
    BY Gens DEF Held, NativeTyped, States
  <1>2. HeldMeanwhile' /\ OneEngine' /\ HandleIsOwn' /\ StoppedIsNotConnected'
    BY DEF Held, Guarded, HeldMeanwhile, OneEngine, HandleIsOwn, StoppedIsNotConnected
  <1>3. InterfaceHasOwner'
    BY DEF Held, Guarded, InterfaceHasOwner
  <1> QED
    BY <1>1, <1>2, <1>3 DEF Held, Guarded

(* teardown: RUNNING is emptied, and what it held is waited for.           *)
LEMMA TeardownKeepsHeld ==
    ASSUME Held, thread.at = "idle", Teardown, UNCHANGED <<pending, worker, iface, shown>>,
           service' \in [tornDown : BOOLEAN, stopping : BOOLEAN]
    PROVE  Held'
  <1>1. CASE service.tornDown
    BY <1>1, AppKeepsHeld DEF Teardown, Held, NativeTyped
  <1>2. CASE ~service.tornDown
    <2>1. /\ running' = NoEngine
          /\ stack' = [g \in Gen |-> IF g = running.handle /\ stack[g] = "up"
                                     THEN "told" ELSE stack[g]]
          /\ \/ running.gen = 0 /\ state' = "Idle" /\ thread' = thread
             \/ /\ running.gen # 0 /\ state' = state
                /\ thread' = [at |-> "joining", gen |-> running.gen]
      BY <1>2 DEF Teardown
    <2>2. NativeTyped'
      BY <2>1, Gens DEF Held, NativeTyped, States, Stacks, Threads
    <2>3. HeldMeanwhile' /\ HandleIsOwn' /\ StoppedIsNotConnected'
      BY <2>1, Gens DEF Held, NativeTyped, Guarded, HeldMeanwhile, HandleIsOwn,
                        StoppedIsNotConnected
    <2>4. OneEngine'
      BY <2>1, Gens DEF Held, NativeTyped, Guarded, OneEngine
    <2>5. InterfaceHasOwner'
      BY <2>1, Gens DEF Held, NativeTyped, Guarded, InterfaceHasOwner
    <2> QED
      BY <2>2, <2>3, <2>4, <2>5 DEF Held, Guarded
  <1> QED
    BY <1>1, <1>2

(* establish: the new descriptor is in the hands of the main thread.       *)
LEMMA EstablishedKeepsHeld ==
    ASSUME Held, thread.at = "idle", NEW g \in Gen, Established(g),
           UNCHANGED <<worker, shown>>
    PROVE  Held'
  <1>1. /\ running' = running /\ stack' = stack
        /\ service' = [service EXCEPT !.tornDown = FALSE]
        /\ \/ /\ pending' = FALSE /\ iface' = g
              /\ state' = "Connecting" /\ thread' = [at |-> "starting", gen |-> g]
           \/ iface' = 0 /\ state' = "Failed" /\ pending' = pending /\ thread' = thread
    BY DEF Established
  <1>2. service' \in [tornDown : BOOLEAN, stopping : BOOLEAN]
    BY <1>1 DEF Held, NativeTyped
  <1>a. pending' \in BOOLEAN
    BY <1>1 DEF Held, NativeTyped
  <1>b. state' \in States /\ thread' \in Threads /\ iface' \in 0 .. MaxTaps
    BY <1>1, Gens DEF Held, NativeTyped, States, Threads
  <1>3. NativeTyped'
    BY <1>1, <1>2, <1>a, <1>b DEF Held, NativeTyped
  <1>4. HeldMeanwhile' /\ HandleIsOwn' /\ StoppedIsNotConnected'
    BY <1>1, Gens DEF Held, Guarded, HeldMeanwhile, HandleIsOwn, StoppedIsNotConnected
  <1>5. OneEngine' /\ InterfaceHasOwner'
    BY <1>1 DEF Held, Guarded, OneEngine, InterfaceHasOwner
  <1> QED
    BY <1>3, <1>4, <1>5 DEF Held, Guarded

(* RUNNING is assigned where it was empty, or the main thread holds its    *)
(* lock until the runtime it replaces is down.                             *)
LEMMA AssignKeepsHeld ==
    ASSUME Held, AssignRunning
    PROVE  Held'
  <1>0. /\ thread.at = "starting" /\ thread.gen \in Gen
        /\ UNCHANGED <<pending, state, stack, iface, service, shown>>
    BY DEF AssignRunning, Held, Guarded, HeldMeanwhile, appVars
  <1>1. CASE running.gen = 0
    <2>1. /\ running' = [gen |-> thread.gen, handle |-> 0]
          /\ worker' = [worker EXCEPT ![thread.gen] = "connecting"]
          /\ thread' = Free
      BY <1>1 DEF AssignRunning
    <2>2. NativeTyped'
      BY <1>0, <2>1, Gens DEF Held, NativeTyped, Workers, Threads
    <2>3. HeldMeanwhile' /\ HandleIsOwn' /\ StoppedIsNotConnected'
      BY <1>0, <2>1, Gens DEF HeldMeanwhile, HandleIsOwn, StoppedIsNotConnected
    <2>4. OneEngine'
      BY <1>0, <1>1, <2>1, Gens DEF Held, NativeTyped, Guarded, OneEngine
    <2>5. InterfaceHasOwner'
      BY <1>0, <2>1, Gens DEF Held, NativeTyped, Guarded, InterfaceHasOwner
    <2> QED
      BY <2>2, <2>3, <2>4, <2>5 DEF Held, Guarded
  <1>2. CASE running.gen # 0
    <2>1. /\ thread' = [thread EXCEPT !.at = "replacing"]
          /\ running' = running /\ worker' = worker
      BY <1>2 DEF AssignRunning
    <2>2. thread' \in Threads /\ thread'.at = "replacing" /\ thread'.gen = thread.gen
      BY <2>1 DEF Held, NativeTyped, Threads
    <2>3. NativeTyped'
      BY <1>0, <2>1, <2>2 DEF Held, NativeTyped
    <2>4. HeldMeanwhile' /\ HandleIsOwn' /\ StoppedIsNotConnected'
      BY <1>0, <1>2, <2>1, <2>2, Gens DEF Held, NativeTyped, Guarded, HeldMeanwhile, HandleIsOwn,
                                          StoppedIsNotConnected
    <2>5. OneEngine' /\ InterfaceHasOwner'
      BY <1>0, <2>1, <2>2 DEF Held, Guarded, OneEngine, InterfaceHasOwner
    <2> QED
      BY <2>3, <2>4, <2>5 DEF Held, Guarded
  <1> QED
    BY <1>1, <1>2

(* Dropping a runtime whose worker is not in the middle of a poll: an      *)
(* interface it alone had the descriptor of goes with it.                  *)
LEMMA DropLeavesOwners ==
    ASSUME Held, NEW g \in Gen, Joinable(g), Dropped(g)
    PROVE  /\ stack' \in [Gen -> Stacks] /\ iface' \in {0, iface}
           /\ Over(worker[g]) = "gone"
           /\ iface' # 0 => worker[g] # "connecting" \/ iface # g
           /\ iface' # 0 /\ stack[iface] \in {"up", "told", "severed"} =>
                  stack'[iface] \in {"up", "told", "severed"}
  <1>1. /\ stack' = [stack EXCEPT ![g] = IF @ = "up" THEN "severed" ELSE @]
        /\ iface' = IF worker[g] = "connecting" THEN WithoutFd(g) ELSE iface
    BY DEF Dropped
  <1>2. stack' \in [Gen -> Stacks]
    BY <1>1 DEF Held, NativeTyped, Stacks
  <1>3. iface' \in {0, iface} /\ (iface' # 0 => worker[g] # "connecting" \/ iface # g)
    BY <1>1, Gens DEF WithoutFd
  <1>4. iface' # 0 => iface \in Gen
    BY <1>3, Gens DEF Held, NativeTyped
  <1>5. Over(worker[g]) = "gone"
    BY DEF Joinable, Over
  <1> QED
    BY <1>1, <1>2, <1>3, <1>4, <1>5 DEF Held, NativeTyped

(* The runtime that was replaced is down, its successor is in RUNNING.     *)
LEMMA ReplacedKeepsHeld ==
    ASSUME Held, Replaced
    PROVE  Held'
  <1> DEFINE old == running.gen
  <1> DEFINE new == thread.gen
  <1>0. /\ thread.at = "replacing" /\ old \in Gen /\ new \in Gen
        /\ Joinable(old) /\ Dropped(old)
        /\ worker' = [worker EXCEPT ![old] = Over(@), ![new] = "connecting"]
        /\ running' = [gen |-> new, handle |-> 0] /\ thread' = Free
        /\ UNCHANGED <<pending, state, service, shown>>
    BY DEF Replaced, Held, Guarded, HeldMeanwhile, appVars
  <1>1. /\ stack' \in [Gen -> Stacks] /\ iface' \in {0, iface}
        /\ Over(worker[old]) = "gone"
        /\ iface' # 0 => worker[old] # "connecting" \/ iface # old
        /\ iface' # 0 /\ stack[iface] \in {"up", "told", "severed"} =>
               stack'[iface] \in {"up", "told", "severed"}
    BY <1>0, DropLeavesOwners
  <1>2. /\ worker' \in [Gen -> Workers] /\ worker'[new] = "connecting"
        /\ old # new => worker'[old] = "gone"
        /\ \A g \in Gen \ {old, new} : worker'[g] = worker[g]
    BY <1>0, <1>1 DEF Held, NativeTyped, Workers
  <1> HIDE DEF old, new
  <1>3. NativeTyped'
    BY <1>0, <1>1, <1>2, Gens DEF Held, NativeTyped, Threads
  <1>4. HeldMeanwhile' /\ HandleIsOwn' /\ StoppedIsNotConnected'
    BY <1>0, Gens DEF HeldMeanwhile, HandleIsOwn, StoppedIsNotConnected
  <1>5. \A g \in Gen : worker[g] \in Active => g = old
    BY <1>0 DEF Held, Guarded, OneEngine, old
  <1>6. OneEngine'
    BY <1>0, <1>2, <1>5 DEF OneEngine
  <1>7. InterfaceHasOwner'
    <2> SUFFICES ASSUME iface' # 0, iface # new
                 PROVE  stack'[iface] \in {"up", "told", "severed"}
      BY <1>1, <1>2 DEF InterfaceHasOwner
    <2>1. iface' = iface /\ iface \in Gen
      BY <1>1, Gens DEF Held, NativeTyped
    <2>2. worker[iface] # "connecting"
      BY <1>1, <1>5, <2>1
    <2> QED
      BY <1>1, <2>1, <2>2 DEF Held, Guarded, InterfaceHasOwner, new
  <1> QED
    BY <1>3, <1>4, <1>6, <1>7 DEF Held, Guarded

(* stop has waited for the worker it took out of RUNNING.                  *)
LEMMA JoinedKeepsHeld ==
    ASSUME Held, Joined
    PROVE  Held'
  <1> DEFINE old == thread.gen
  <1>0. /\ thread.at = "joining" /\ old \in Gen /\ running = NoEngine
        /\ Joinable(old) /\ Dropped(old)
        /\ worker' = [worker EXCEPT ![old] = Over(@)]
        /\ thread' = Free /\ state' = "Idle"
        /\ UNCHANGED <<pending, running, service, shown>>
    BY DEF Joined, Held, Guarded, HeldMeanwhile, appVars
  <1>1. /\ stack' \in [Gen -> Stacks] /\ iface' \in {0, iface}
        /\ Over(worker[old]) = "gone"
        /\ iface' # 0 => worker[old] # "connecting" \/ iface # old
        /\ iface' # 0 /\ stack[iface] \in {"up", "told", "severed"} =>
               stack'[iface] \in {"up", "told", "severed"}
    BY <1>0, DropLeavesOwners
  <1>2. /\ worker' \in [Gen -> Workers] /\ worker'[old] = "gone"
        /\ \A g \in Gen \ {old} : worker'[g] = worker[g]
    BY <1>0, <1>1 DEF Held, NativeTyped, Workers
  <1>3. NativeTyped'
    BY <1>0, <1>1, <1>2, Gens DEF Held, NativeTyped, Threads, States
  <1>4. HeldMeanwhile' /\ HandleIsOwn' /\ StoppedIsNotConnected'
    BY <1>0, Gens DEF HeldMeanwhile, HandleIsOwn, StoppedIsNotConnected
  <1>5. \A g \in Gen : worker[g] \in Active => g = old
    BY <1>0, Gens DEF Held, Guarded, OneEngine
  <1> HIDE DEF old
  <1>6. OneEngine'
    BY <1>2, <1>5 DEF OneEngine
  <1>7. InterfaceHasOwner'
    <2> SUFFICES ASSUME iface' # 0
                 PROVE  stack'[iface] \in {"up", "told", "severed"}
      BY <1>1 DEF InterfaceHasOwner
    <2>1. iface' = iface /\ iface \in Gen
      BY <1>1, Gens DEF Held, NativeTyped
    <2>2. worker[iface] # "connecting"
      BY <1>1, <1>5, <2>1
    <2> QED
      BY <1>0, <1>1, <2>1, <2>2 DEF Held, Guarded, InterfaceHasOwner
  <1> QED
    BY <1>3, <1>4, <1>6, <1>7 DEF Held, Guarded

----------------------------------------------------------------------------
(* The worker of a start and its stack.                                    *)

(* A worker that moves on without taking anything up: it was active, or it *)
(* is not.                                                                 *)
LEMMA WorkerKeepsOneEngine ==
    ASSUME Held, NEW g \in Gen, NEW to \in Workers,
           worker' = [worker EXCEPT ![g] = to],
           worker[g] \in Active,
           UNCHANGED thread, running' \in [gen : {running.gen}, handle : {running.handle, g}],
           running.gen = 0 => running' = running
    PROVE  /\ worker' \in [Gen -> Workers] /\ worker'[g] = to
           /\ \A h \in Gen \ {g} : worker'[h] = worker[h]
           /\ running' \in [gen : 0 .. MaxTaps, handle : 0 .. MaxTaps]
           /\ OneEngine' /\ HandleIsOwn' /\ HeldMeanwhile'
  <1>1. /\ worker' \in [Gen -> Workers] /\ worker'[g] = to
        /\ \A h \in Gen \ {g} : worker'[h] = worker[h]
    BY DEF Held, NativeTyped
  <1>2. running'.gen = running.gen /\ running'.handle \in {running.handle, g}
    OBVIOUS
  <1>3. running' \in [gen : 0 .. MaxTaps, handle : 0 .. MaxTaps]
    BY Gens DEF Held, NativeTyped
  <1>4. OneEngine'
    BY <1>1, <1>2 DEF Held, Guarded, OneEngine
  <1>5. HeldMeanwhile'
    BY <1>2, Gens DEF Held, Guarded, HeldMeanwhile
  <1>6. running'.gen # 0 => g = running.gen
    BY <1>2 DEF Held, Guarded, OneEngine, HeldMeanwhile
  <1>7. HandleIsOwn'
    BY <1>2, <1>6 DEF Held, Guarded, HandleIsOwn
  <1> QED
    BY <1>1, <1>3, <1>4, <1>5, <1>7

(* A start that is still connecting, or has failed to.                     *)
LEMMA AssembleKeepsHeld ==
    ASSUME Held, NEW g \in Gen, Assembled(g) \/ AssembleFails(g)
    PROVE  Held'
  <1>0. /\ worker[g] = "connecting" /\ UNCHANGED <<pending, running, thread, service, shown>>
        /\ running' \in [gen : {running.gen}, handle : {running.handle, g}]
    BY DEF Assembled, AssembleFails, Worker, appVars, Held, NativeTyped
  <1>1. \E to \in {"locking", "ended"} : worker' = [worker EXCEPT ![g] = to]
    BY DEF Assembled, AssembleFails, Worker
  <1>2. /\ worker' \in [Gen -> Workers] /\ worker'[g] \in {"locking", "ended"}
        /\ \A h \in Gen \ {g} : worker'[h] = worker[h]
        /\ OneEngine' /\ HandleIsOwn' /\ HeldMeanwhile'
    BY <1>0, <1>1, WorkerKeepsOneEngine DEF Workers
  <1>3. /\ state' \in {state, "Failed"}
        /\ \/ stack' = stack /\ iface' = WithoutFd(g)
           \/ /\ \/ stack' = [stack EXCEPT ![g] = "up"]
                 \/ stack' = [stack EXCEPT ![g] = "severed"]
              /\ iface' = iface
    BY DEF Assembled, AssembleFails
  <1>4. NativeTyped'
    BY <1>0, <1>2, <1>3, Gens DEF Held, NativeTyped, States, Stacks, WithoutFd
  <1>5. StoppedIsNotConnected'
    BY <1>0, <1>3 DEF Held, Guarded, StoppedIsNotConnected
  <1>6. InterfaceHasOwner'
    BY <1>0, <1>2, <1>3, Gens DEF Held, NativeTyped, Guarded, InterfaceHasOwner, WithoutFd
  <1> QED
    BY <1>2, <1>4, <1>5, <1>6 DEF Held, Guarded

(* The handles are stored beside the runtime they belong to.               *)
LEMMA StoreKeepsHeld ==
    ASSUME Held, NEW g \in Gen, StoreHandles(g)
    PROVE  Held'
  <1>0. /\ worker[g] = "locking"
        /\ UNCHANGED <<pending, state, thread, iface, service, shown>>
    BY DEF StoreHandles, appVars
  <1>1. CASE running.gen = 0
    <2>1. /\ worker' = [worker EXCEPT ![g] = "gone"] /\ running' = running
          /\ stack' = [stack EXCEPT ![g] = IF @ = "up" THEN "severed" ELSE @]
      BY <1>1 DEF StoreHandles
    <2>2. running' \in [gen : {running.gen}, handle : {running.handle, g}]
      BY <2>1 DEF Held, NativeTyped
    <2>3. /\ worker' \in [Gen -> Workers] /\ worker'[g] = "gone"
          /\ \A h \in Gen \ {g} : worker'[h] = worker[h]
          /\ OneEngine' /\ HandleIsOwn' /\ HeldMeanwhile'
      BY <1>0, <2>1, <2>2, WorkerKeepsOneEngine DEF Workers
    <2>4. NativeTyped'
      BY <1>0, <2>1, <2>3 DEF Held, NativeTyped, Stacks
    <2>5. StoppedIsNotConnected'
      BY <1>0, <2>1 DEF Held, Guarded, StoppedIsNotConnected
    <2>6. InterfaceHasOwner'
      BY <1>0, <2>1, <2>3, Gens DEF Held, NativeTyped, Guarded, InterfaceHasOwner
    <2> QED
      BY <2>3, <2>4, <2>5, <2>6 DEF Held, Guarded
  <1>2. CASE running.gen # 0
    <2>1. /\ worker' = [worker EXCEPT ![g] = "announcing"] /\ stack' = stack
          /\ running' = [running EXCEPT !.handle = g]
      BY <1>2 DEF StoreHandles
    <2>2. /\ running' \in [gen : {running.gen}, handle : {running.handle, g}]
          /\ running'.gen = running.gen
      BY <2>1 DEF Held, NativeTyped
    <2>3. /\ worker' \in [Gen -> Workers] /\ worker'[g] = "announcing"
          /\ \A h \in Gen \ {g} : worker'[h] = worker[h]
          /\ running' \in [gen : 0 .. MaxTaps, handle : 0 .. MaxTaps]
          /\ OneEngine' /\ HandleIsOwn' /\ HeldMeanwhile'
      BY <1>0, <1>2, <2>1, <2>2, WorkerKeepsOneEngine DEF Workers
    <2>4. NativeTyped'
      BY <1>0, <2>1, <2>3 DEF Held, NativeTyped
    <2>5. StoppedIsNotConnected'
      BY <1>0, <2>2 DEF Held, Guarded, StoppedIsNotConnected
    <2>6. InterfaceHasOwner'
      BY <1>0, <2>1, <2>3, Gens DEF Held, NativeTyped, Guarded, InterfaceHasOwner
    <2> QED
      BY <2>3, <2>4, <2>5, <2>6 DEF Held, Guarded
  <1> QED
    BY <1>1, <1>2

(* A worker that announces itself is the one in RUNNING, or is waited for. *)
LEMMA RunKeepsHeld ==
    ASSUME Held, NEW g \in Gen, Announce(g) \/ EngineEnds(g)
    PROVE  Held'
  <1>0. /\ worker[g] \in {"announcing", "running"}
        /\ UNCHANGED <<pending, running, thread, stack, iface, service, shown>>
        /\ running' \in [gen : {running.gen}, handle : {running.handle, g}]
    BY DEF Announce, EngineEnds, Worker, appVars, Held, NativeTyped
  <1>1. \E to \in {"running", "ended"} : worker' = [worker EXCEPT ![g] = to]
    BY DEF Announce, EngineEnds, Worker
  <1>2. /\ worker' \in [Gen -> Workers] /\ worker'[g] # "connecting"
        /\ \A h \in Gen \ {g} : worker'[h] = worker[h]
        /\ OneEngine' /\ HandleIsOwn' /\ HeldMeanwhile'
    BY <1>0, <1>1, WorkerKeepsOneEngine DEF Workers
  <1>3. state' \in {"Connected", "Idle"}
    BY DEF Announce, EngineEnds
  <1>4. NativeTyped'
    BY <1>0, <1>2, <1>3 DEF Held, NativeTyped, States
  <1>5. ~(thread.at = "idle" /\ running.gen = 0)
    BY <1>0, Gens DEF Held, Guarded, OneEngine
  <1>6. StoppedIsNotConnected'
    BY <1>0, <1>5 DEF StoppedIsNotConnected
  <1>7. InterfaceHasOwner'
    BY <1>0, <1>2, Gens DEF Held, NativeTyped, Guarded, InterfaceHasOwner
  <1> QED
    BY <1>2, <1>4, <1>6, <1>7 DEF Held, Guarded

(* A stack that is gone has closed its descriptor.                         *)
LEMMA ExitKeepsHeld ==
    ASSUME Held, NEW g \in Gen, StackExits(g)
    PROVE  Held'
  <1>1. /\ stack' = [stack EXCEPT ![g] = "gone"] /\ iface' = WithoutFd(g)
        /\ UNCHANGED <<pending, running, state, thread, worker, service, shown>>
    BY DEF StackExits, appVars
  <1>2. NativeTyped'
    BY <1>1, Gens DEF Held, NativeTyped, Stacks, WithoutFd
  <1>3. HeldMeanwhile' /\ OneEngine' /\ HandleIsOwn' /\ StoppedIsNotConnected'
    BY <1>1 DEF Held, Guarded, HeldMeanwhile, OneEngine, HandleIsOwn, StoppedIsNotConnected
  <1>4. InterfaceHasOwner'
    BY <1>1, Gens DEF Held, NativeTyped, Guarded, InterfaceHasOwner, WithoutFd
  <1> QED
    BY <1>2, <1>3, <1>4 DEF Held, Guarded

----------------------------------------------------------------------------
(* Each step of the system keeps all of it.                                *)

(* The first state.                                                        *)
LEMMA EngineInit == Init => EngineInvariant
  <1> SUFFICES ASSUME Init PROVE EngineInvariant
    OBVIOUS
  <1>1. MaxTaps \in Nat /\ MaxRevokes \in Nat
    BY AndroidEngineAssumption
  <1>2. commands = <<>> /\ Len(commands) = 0 /\ commands \in Seq({"start", "disconnect"})
    BY EmptySeq DEF Init
  <1>3. Budget
    BY <1>1, <1>2 DEF Init, Budget, Disconnects
  <1>4. BooksTyped
    BY <1>1, <1>2 DEF Init, BooksTyped, MaxCommands
  <1>5. NativeTyped
    BY Gens DEF Init, NativeTyped, States, Threads, Workers, Stacks
  <1>6. Guarded
    BY DEF Init, Guarded, HeldMeanwhile, OneEngine, HandleIsOwn, StoppedIsNotConnected,
           InterfaceHasOwner
  <1> QED
    BY <1>3, <1>4, <1>5, <1>6, TypeSplits DEF EngineInvariant

(* A step that takes and adds no intent leaves their account as it is.     *)
LEMMA BooksKept ==
    ASSUME EngineInvariant, Held', UNCHANGED <<commands, asking, left>>
    PROVE  EngineInvariant'
  <1>1. Budget'
    BY DEF EngineInvariant, Budget, Disconnects
  <1>2. BooksTyped'
    BY TypeSplits DEF EngineInvariant, BooksTyped
  <1>3. TypeOK'
    BY <1>2, TypeJoins DEF Held
  <1> QED
    BY <1>1, <1>3 DEF EngineInvariant, Held

(* The Dart side.                                                          *)
LEMMA AppSteps ==
    ASSUME EngineInvariant, Tap \/ Consent \/ TapDisconnect \/ Poll
    PROVE  EngineInvariant'
  <1>0. Held /\ TypeOK /\ Budget
    BY TypeSplits DEF EngineInvariant, Held
  <1>1. /\ UNCHANGED <<running, thread, worker, stack, iface, service>>
        /\ state' \in {state, "Idle"}
    BY DEF Tap, Consent, TapDisconnect, Poll, nativeVars
  <1>2. pending' \in BOOLEAN /\ shown' \in States
    BY <1>0 DEF Tap, Consent, TapDisconnect, Poll, nativeVars, Held, NativeTyped
  <1>3. service' \in [tornDown : BOOLEAN, stopping : BOOLEAN]
    BY <1>0, <1>1 DEF Held, NativeTyped
  <1>4. Held'
    BY <1>0, <1>1, <1>2, <1>3, AppKeepsHeld
  <1>5. CASE Poll
    BY <1>4, <1>5, BooksKept DEF Poll
  <1>6. CASE Tap \/ Consent \/ TapDisconnect
    <2>1. Budget' /\ BooksTyped'
      BY <1>0, <1>6, TapBudget DEF BooksTyped
    <2>2. TypeOK'
      BY <1>4, <2>1, TypeJoins DEF Held
    <2> QED
      BY <1>4, <2>1, <2>2 DEF EngineInvariant, Held
  <1> QED
    BY <1>5, <1>6

(* onStartCommand.                                                         *)
LEMMA CommandSteps ==
    ASSUME EngineInvariant, OnStart \/ OnDisconnect
    PROVE  EngineInvariant'
  <1>0. Held /\ TypeOK /\ Budget
    BY TypeSplits DEF EngineInvariant, Held
  <1>1. /\ commands # <<>> /\ commands' = Tail(commands) /\ UNCHANGED <<asking, shown>>
        /\ thread.at = "idle"
    BY DEF OnStart, OnDisconnect, IsNext, appVars
  <1>2. CASE OnStart
    <2> DEFINE g == MaxTaps - left.starts + 1
    <2>1. Head(commands) = "start" /\ (Established(g) \/ NotEstablished)
      BY <1>2 DEF OnStart, IsNext
    <2>2. left' \in {left, [left EXCEPT !.starts = @ - 1]}
      BY <2>1 DEF Established, NotEstablished
    <2>3. Budget' /\ BooksTyped' /\ g \in Gen
      BY <1>0, <1>1, <2>1, <2>2, IntentBudget DEF BooksTyped, TypeOK
    <2> HIDE DEF g
    <2>4. CASE Established(g)
      <3>1. worker' = worker
        BY <2>4 DEF Established
      <3> QED
        BY <1>0, <1>1, <2>3, <2>4, <3>1, EstablishedKeepsHeld, TypeJoins
        DEF EngineInvariant, Held
    <2>5. CASE NotEstablished
      <3>1. /\ UNCHANGED <<pending, running, state, thread, worker, stack, iface>>
            /\ service' = [service EXCEPT !.stopping = TRUE]
        BY <2>5 DEF NotEstablished
      <3>2. service' \in [tornDown : BOOLEAN, stopping : BOOLEAN]
        BY <1>0, <3>1 DEF Held, NativeTyped
      <3>3. pending' \in BOOLEAN /\ shown' \in States
        BY <1>0, <1>1, <3>1 DEF Held, NativeTyped
      <3>4. Held'
        BY <1>0, <3>1, <3>2, <3>3, AppKeepsHeld
      <3> QED
        BY <2>3, <3>4, TypeJoins DEF EngineInvariant, Held
    <2> QED
      BY <2>1, <2>4, <2>5
  <1>3. CASE OnDisconnect
    <2>1. /\ Head(commands) = "disconnect" /\ left' = left /\ Teardown
          /\ service' = [tornDown |-> TRUE, stopping |-> TRUE]
          /\ UNCHANGED <<pending, worker, iface>>
      BY <1>3 DEF OnDisconnect, IsNext
    <2>2. service' \in [tornDown : BOOLEAN, stopping : BOOLEAN]
      BY <2>1
    <2>3. Held'
      BY <1>0, <1>1, <2>1, <2>2, TeardownKeepsHeld
    <2>4. Budget' /\ BooksTyped'
      BY <1>0, <1>1, <2>1, IntentBudget DEF BooksTyped, TypeOK
    <2> QED
      BY <2>3, <2>4, TypeJoins DEF EngineInvariant, Held
  <1> QED
    BY <1>2, <1>3

(* onRevoke and onDestroy.                                                 *)
LEMMA ServiceSteps ==
    ASSUME EngineInvariant, OnRevoke \/ OnDestroy
    PROVE  EngineInvariant'
  <1>0. Held /\ TypeOK /\ Budget /\ BooksTyped
    BY TypeSplits DEF EngineInvariant, Held
  <1>1. CASE OnRevoke
    <2>1. /\ left' = [left EXCEPT !.revokes = @ - 1] /\ left.revokes > 0
          /\ service' = [service EXCEPT !.stopping = TRUE] /\ iface' = 0
          /\ UNCHANGED <<pending, running, state, thread, worker, stack, commands, asking, shown>>
      BY <1>1 DEF OnRevoke, appVars
    <2>2. service' \in [tornDown : BOOLEAN, stopping : BOOLEAN]
      BY <1>0, <2>1 DEF Held, NativeTyped
    <2>3. pending' \in BOOLEAN /\ shown' \in States
      BY <1>0, <2>1 DEF Held, NativeTyped
    <2>4. Held'
      BY <1>0, <2>1, <2>2, <2>3, AppKeepsHeld
    <2>5. left'.starts = left.starts /\ left'.taps = left.taps
      BY <1>0, <2>1 DEF BooksTyped
    <2>6. left' \in [starts : 0 .. MaxTaps, taps : 0 .. MaxTaps, revokes : 0 .. MaxRevokes]
      BY <1>0, <2>1, AndroidEngineAssumption DEF BooksTyped
    <2>7. BooksTyped'
      BY <1>0, <2>1, <2>6 DEF BooksTyped
    <2>8. Budget'
      BY <1>0, <2>1, <2>5 DEF Budget, Disconnects
    <2> QED
      BY <2>4, <2>7, <2>8, TypeJoins DEF EngineInvariant, Held
  <1>2. CASE OnDestroy
    <2>1. /\ thread.at = "idle" /\ Teardown
          /\ service' = [tornDown |-> FALSE, stopping |-> FALSE]
          /\ UNCHANGED <<pending, worker, iface, commands, left, asking, shown>>
      BY <1>2 DEF OnDestroy, appVars
    <2>2. service' \in [tornDown : BOOLEAN, stopping : BOOLEAN]
      BY <2>1
    <2>3. Held'
      BY <1>0, <2>1, <2>2, TeardownKeepsHeld
    <2> QED
      BY <2>1, <2>3, BooksKept
  <1> QED
    BY <1>1, <1>2

(* The main thread in start and stop, the workers and the stacks.          *)
LEMMA NativeSteps ==
    ASSUME EngineInvariant,
           \/ AssignRunning \/ Replaced \/ Joined
           \/ \E g \in Gen : \/ Assembled(g) \/ AssembleFails(g) \/ StoreHandles(g)
                             \/ Announce(g) \/ EngineEnds(g) \/ ToldStackExits(g)
                             \/ SeveredStackExits(g) \/ StackDies(g)
    PROVE  EngineInvariant'
  <1>0. Held
    BY TypeSplits DEF EngineInvariant, Held
  <1>1. CASE AssignRunning
    BY <1>0, <1>1, AssignKeepsHeld, BooksKept DEF AssignRunning, appVars
  <1>2. CASE Replaced
    BY <1>0, <1>2, ReplacedKeepsHeld, BooksKept DEF Replaced, appVars
  <1>3. CASE Joined
    BY <1>0, <1>3, JoinedKeepsHeld, BooksKept DEF Joined, appVars
  <1>4. ASSUME NEW g \in Gen, Assembled(g) \/ AssembleFails(g)
        PROVE  EngineInvariant'
    BY <1>0, <1>4, AssembleKeepsHeld, BooksKept DEF Assembled, AssembleFails, appVars
  <1>5. ASSUME NEW g \in Gen, StoreHandles(g)
        PROVE  EngineInvariant'
    BY <1>0, <1>5, StoreKeepsHeld, BooksKept DEF StoreHandles, appVars
  <1>6. ASSUME NEW g \in Gen, Announce(g) \/ EngineEnds(g)
        PROVE  EngineInvariant'
    BY <1>0, <1>6, RunKeepsHeld, BooksKept DEF Announce, EngineEnds, appVars
  <1>7. ASSUME NEW g \in Gen, ToldStackExits(g) \/ SeveredStackExits(g) \/ StackDies(g)
        PROVE  EngineInvariant'
    <2>1. StackExits(g)
      BY <1>7 DEF ToldStackExits, SeveredStackExits, StackDies
    <2> QED
      BY <1>0, <2>1, ExitKeepsHeld, BooksKept DEF StackExits, appVars
  <1> QED
    BY <1>1, <1>2, <1>3, <1>4, <1>5, <1>6, <1>7

(* A step that changes nothing.                                            *)
LEMMA EngineStutters ==
    ASSUME EngineInvariant, UNCHANGED vars
    PROVE  EngineInvariant'
  <1>1. Held /\ UNCHANGED <<running, thread, worker, stack, iface, service, pending, state, shown>>
    BY TypeSplits DEF EngineInvariant, Held, vars
  <1>2. pending' \in BOOLEAN /\ shown' \in States
        /\ service' \in [tornDown : BOOLEAN, stopping : BOOLEAN]
    BY <1>1 DEF Held, NativeTyped
  <1>3. Held'
    BY <1>1, <1>2, AppKeepsHeld
  <1> QED
    BY <1>3, BooksKept DEF vars

(* The invariant of every behaviour.                                       *)
THEOREM EngineIsHeld == Spec => []EngineInvariant
  <1>1. EngineInvariant /\ [Next]_vars => EngineInvariant'
    BY AppSteps, CommandSteps, ServiceSteps, NativeSteps, EngineStutters DEF Next
  <1> QED
    BY EngineInit, <1>1, PTL DEF Spec

(* However starts, stops and revocations follow one another, a worker that *)
(* can still connect or relay is the one RUNNING holds or the one a stop   *)
(* is waiting for, and the handle in RUNNING is that worker's own.         *)
THEOREM OneOwnEngineAlways == Spec => []OneOwnEngine
  <1>1. EngineInvariant => OneOwnEngine
    BY DEF EngineInvariant, Guarded, OneOwnEngine
  <1> QED
    BY EngineIsHeld, <1>1, PTL

(* After a stop no late worker shows the tunnel as connecting or           *)
(* connected: it was waited for, or found RUNNING empty under the lock.    *)
THEOREM StoppedStaysStopped == Spec => []StoppedIsNotConnected
  <1>1. EngineInvariant => StoppedIsNotConnected
    BY DEF EngineInvariant, Guarded
  <1> QED
    BY EngineIsHeld, <1>1, PTL

(* The device's traffic goes into an interface that somebody reads: its    *)
(* descriptor is with the main thread, a connecting worker or a stack.     *)
THEOREM InterfaceIsRead == Spec => []InterfaceHasOwner
  <1>1. EngineInvariant => InterfaceHasOwner
    BY DEF EngineInvariant, Guarded
  <1> QED
    BY EngineIsHeld, <1>1, PTL
=============================================================================
