---------------------------- MODULE SignalHandler ----------------------------
(***************************************************************************)
(* Signals and slots of the D1 runtime (class SignalHandler and what it is *)
(* made of, d1/qt/Signal.d).  One handler, owned by one sender, keeps for  *)
(* each signal three lists of slots.  Slots are called from emit, on the   *)
(* emitting thread and with the handler locked, and may do anything with   *)
(* the handler: connect, disconnect, emit again, destroy receivers, block  *)
(* signals or throw.                                                       *)
(*                                                                         *)
(* Three parameters say what the program does with the handler: MaxSlots   *)
(* bounds each list of slots, RemoveAny says whether slots may leave lists *)
(* that can hold several, and Reemit whether a slot may emit the very      *)
(* signal that called it.  A list that holds several slots loses the wrong *)
(* one (listRemove), so what depends on removal holds only while such      *)
(* lists just grow.                                                        *)
(***************************************************************************)
EXTENDS Integers, Sequences, SequencesExt, FiniteSets

CONSTANTS
  NULL,
  LastSignal,     \* signal ids are 0 .. LastSignal
  Functions,      \* receivers that are function pointers
  Delegates,      \* receivers that are delegates
  Objects,        \* the D objects delegates refer to
  ObjectOf,       \* the object of a delegate; NULL: connected with NoObject
  MaxSlots,       \* the longest each list of each signal may get
  MaxDelayed, MaxDepth, MaxBlocked,               \* bounds
  RemoveAny,      \* may slots leave lists that can hold several?
  Reemit          \* may a slot emit the signal that called it?

Signals   == 0 .. LastSignal
Receivers == Functions \cup Delegates
ListOrder == <<"Func", "Weak", "Strong">>
Lists     == ToSet(ListOrder)

ASSUME SignalAssumption ==
  /\ LastSignal \in Nat /\ MaxSlots \in [Signals -> [Lists -> Nat]]
  /\ MaxDelayed \in [Signals -> Nat] /\ MaxDepth \in Nat /\ MaxBlocked \in Nat
  /\ RemoveAny \in BOOLEAN /\ Reemit \in BOOLEAN
  /\ Functions \cap Delegates = {}
  /\ NULL \notin Objects
  /\ ObjectOf \in [Delegates -> Objects \cup {NULL}]

VARIABLES
  slots,          \* connections[s].slotLists
  isInUse,        \* connections[s].isInUse
  delayed,        \* connections[s].delayedDisconnects
  allocated,      \* connections.length
  refs,           \* receivers.data: how many slots refer to an object
  alive,          \* the receiving objects that exist
  listening,      \* what signalEvent last said: a first slot, or no slot
  blocked,
  signalSender,   \* is it the owner (or null)?
  stack           \* the calls of emit that are running, innermost first

connVars == <<slots, isInUse, delayed, allocated>>
vars == <<connVars, refs, alive, listening, blocked, signalSender, stack>>

(* late (connected while its signal was being emitted) and heard (how      *)
(* often the running emission called it) only serve the properties.        *)
Slot == [r : Receivers, disposed : BOOLEAN, late : BOOLEAN, heard : Nat]

Frame == [sig : Signals, list : 1 .. Len(ListOrder) + 1, slotId : Nat \ {0},
          lengths : [Lists -> Int], at : {"loop", "slot"}]

TypeOK ==
  /\ slots \in [Signals -> [Lists -> Seq(Slot)]]
  /\ isInUse \in [Signals -> BOOLEAN]
  /\ delayed \in [Signals -> [{"fn", "dg"} -> Seq(Receivers)]]
  /\ allocated \in 0 .. LastSignal + 1
  /\ refs \in [Objects -> Nat]
  /\ alive \in SUBSET Objects
  /\ listening \in [Signals -> BOOLEAN]
  /\ blocked \in 0 .. MaxBlocked
  /\ signalSender \in BOOLEAN
  /\ stack \in Seq(Frame)

Init ==
  /\ slots = [s \in Signals |-> [l \in Lists |-> <<>>]]
  /\ isInUse = [s \in Signals |-> FALSE]
  /\ delayed = [s \in Signals |-> [k \in {"fn", "dg"} |-> <<>>]]
  /\ allocated = 0
  /\ refs = [o \in Objects |-> 0]
  /\ alive = Objects
  /\ listening = [s \in Signals |-> FALSE]
  /\ blocked = 0
  /\ signalSender = FALSE
  /\ stack = <<>>

-----------------------------------------------------------------------------
(* Slots and lists of slots. *)

(* The operators with a suffix, here and below, are variants with a        *)
(* plausible bug that the runs must reject.                                *)
getObject_Disposed(slot) == IF slot.r \in Functions THEN NULL ELSE ObjectOf[slot.r]

getObject(slot) ==
  IF slot.disposed \/ slot.r \in Functions THEN NULL ELSE ObjectOf[slot.r]

slotCount(lists) == Len(lists["Func"]) + Len(lists["Weak"]) + Len(lists["Strong"])

(* SlotList.remove: memmove from slotId to slotId + 1, then drop the last. *)
listRemove(list, i) ==
  [j \in 1 .. Len(list) - 1 |-> IF j <= i THEN list[j] ELSE list[j - 1]]

removeSlot_NoEvent(st, l, i) ==
  LET obj == getObject(st.lists[l][i])
  IN  [st EXCEPT !.lists[l] = listRemove(@, i),
                 !.refs = [o \in Objects |-> IF o = obj THEN @[o] - 1 ELSE @[o]]]

(* SignalHandler.removeSlot, on what it changes for one signal. *)
removeSlot(st, l, i) ==
  LET obj   == getObject(st.lists[l][i])
      after == [st.lists EXCEPT ![l] = listRemove(@, i)]
  IN  [lists     |-> after,
       refs      |-> [o \in Objects |-> IF o = obj THEN st.refs[o] - 1 ELSE st.refs[o]],
       listening |-> st.listening /\ slotCount(after) # 0]

(* The loop of SignalHandler.disconnect: drop the disposed slots it meets  *)
(* and the first one that is the receiver's.                               *)
Scanning(st, i, todo) == [st |-> st, i |-> i, todo |-> todo]

ScanStep(scan, r) ==
  LET l == Head(scan.todo)
      s == scan.st.lists[l][scan.i]
      without == removeSlot(scan.st, l, scan.i)
  IN  IF scan.todo = <<>> THEN scan
      ELSE IF scan.i > Len(scan.st.lists[l]) THEN Scanning(scan.st, 1, Tail(scan.todo))
      ELSE IF s.disposed THEN Scanning(without, scan.i, scan.todo)
      ELSE IF s.r = r THEN Scanning(without, scan.i, <<>>)
      ELSE Scanning(scan.st, scan.i + 1, scan.todo)

Scan(st, r) ==
  LET start == Scanning(st, 1, IF r \in Functions THEN <<"Func">> ELSE <<"Weak", "Strong">>)
      scan[k \in Nat] == IF k = 0 THEN start ELSE ScanStep(scan[k - 1], r)
  IN  scan

(* It ends: a step leaves a slot or a list behind. *)
disconnectNow(st, r) == Scan(st, r)[slotCount(st.lists) + 2].st

(* disconnect for each receiver of a queue, in order *)
DisconnectAll(st, queue) ==
  LET done[k \in Nat] == IF k = 0 THEN st ELSE disconnectNow(done[k - 1], queue[k])
  IN  done

StateOf(s) == [lists |-> slots[s], refs |-> refs, listening |-> listening[s]]

SetState(s, st) == /\ slots' = [slots EXCEPT ![s] = st.lists]
                   /\ refs' = st.refs
                   /\ listening' = [listening EXCEPT ![s] = st.listening]

Emitting(s, stk) == \E i \in DOMAIN stk : stk[i].sig = s

-----------------------------------------------------------------------------
(* What the program does, between emissions and in slots. *)

UserCode == stack # <<>> => Head(stack).at = "slot"

ListsFor(r) == IF r \in Functions THEN {"Func"} ELSE {"Weak", "Strong"}

MayRemove(s, r) == RemoveAny \/ \A l \in ListsFor(r) : MaxSlots[s][l] <= 1

MayDispose(o) ==
  \A r \in Delegates : ObjectOf[r] = o => \A s \in Signals : MayRemove(s, r)

(* connections is not grown while an emission holds a pointer into it: the *)
(* program connects every signal it will use once, before it emits.        *)
connect(s, r, l) ==
  /\ UserCode
  /\ stack # <<>> => s < allocated
  /\ l \in ListsFor(r) /\ Len(slots[s][l]) < MaxSlots[s][l]
  /\ LET obj  == IF r \in Functions THEN NULL ELSE ObjectOf[r]
         slot == [r |-> r, disposed |-> FALSE, late |-> Emitting(s, stack), heard |-> 0]
         after == [slots[s] EXCEPT ![l] = Append(@, slot)]
     IN  /\ obj # NULL => obj \in alive
         /\ slots' = [slots EXCEPT ![s] = after]
         /\ refs' = [o \in Objects |-> IF o = obj THEN refs[o] + 1 ELSE refs[o]]
         /\ listening' = [listening EXCEPT ![s] = @ \/ slotCount(after) = 1]
  /\ allocated' = IF s < allocated THEN allocated ELSE s + 1
  /\ UNCHANGED <<isInUse, delayed, alive, blocked, signalSender, stack>>

disconnectLater_AtOnce(s, r) ==
  /\ UserCode /\ MayRemove(s, r) /\ s < allocated /\ isInUse[s]
  /\ SetState(s, disconnectNow(StateOf(s), r))
  /\ UNCHANGED <<isInUse, delayed, allocated, alive, blocked, signalSender, stack>>

(* "if called from a slot being executed by this signal, delay             *)
(* disconnection until all slots has been called" ...                      *)
disconnectLater(s, r) ==
  /\ UserCode /\ MayRemove(s, r) /\ s < allocated /\ isInUse[s]
  /\ LET k == IF r \in Functions THEN "fn" ELSE "dg"
     IN  /\ Len(delayed[s][k]) < MaxDelayed[s]
         /\ delayed' = [delayed EXCEPT ![s][k] = Append(@, r)]
  /\ UNCHANGED <<slots, isInUse, allocated, refs, alive, listening, blocked,
                 signalSender, stack>>

(* ... else disconnect at once. *)
disconnect(s, r) ==
  /\ UserCode /\ MayRemove(s, r) /\ s < allocated /\ ~isInUse[s]
  /\ SetState(s, disconnectNow(StateOf(s), r))
  /\ UNCHANGED <<isInUse, delayed, allocated, alive, blocked, signalSender, stack>>

onReceiverDisposed_NotMarked(o) ==
  /\ UserCode /\ MayDispose(o) /\ o \in alive
  /\ alive' = alive \ {o}
  /\ refs' = [refs EXCEPT ![o] = 0]
  /\ UNCHANGED <<connVars, listening, blocked, signalSender, stack>>

(* A receiver is destroyed; its dispose event reaches the handler if one   *)
(* is attached.                                                            *)
onReceiverDisposed(o) ==
  /\ UserCode /\ MayDispose(o) /\ o \in alive
  /\ alive' = alive \ {o}
  /\ IF refs[o] = 0 THEN UNCHANGED <<slots, refs>>
     ELSE /\ refs' = [refs EXCEPT ![o] = 0]
          /\ slots' = [s \in Signals |-> [l \in Lists |-> [i \in DOMAIN slots[s][l] |->
               IF getObject(slots[s][l][i]) = o THEN [slots[s][l][i] EXCEPT !.disposed = TRUE]
                                                ELSE slots[s][l][i]]]]
  /\ UNCHANGED <<isInUse, delayed, allocated, listening, blocked, signalSender, stack>>

blockSignals ==
  /\ UserCode /\ blocked < MaxBlocked
  /\ blocked' = blocked + 1
  /\ UNCHANGED <<connVars, refs, alive, listening, signalSender, stack>>

unblockSignals ==
  /\ UserCode /\ blocked > 0
  /\ blocked' = blocked - 1
  /\ UNCHANGED <<connVars, refs, alive, listening, signalSender, stack>>

-----------------------------------------------------------------------------
(* emit, one step per slot. *)

emit(s) ==
  /\ UserCode /\ Len(stack) < MaxDepth
  /\ Reemit \/ ~Emitting(s, stack)
  /\ s < allocated /\ blocked = 0 /\ slotCount(slots[s]) > 0
  /\ isInUse' = [isInUse EXCEPT ![s] = TRUE]
  /\ signalSender' = TRUE
  /\ stack' = <<[sig |-> s, list |-> 1, slotId |-> 1, at |-> "loop",
                 lengths |-> [l \in Lists |-> Len(slots[s][l])]]>> \o stack
  /\ UNCHANGED <<slots, delayed, allocated, refs, alive, listening, blocked>>

Top  == Head(stack)
Sig  == Top.sig
List == ListOrder[Top.list]
Current == slots[Sig][List][Top.slotId]

Looping == stack # <<>> /\ Top.at = "loop"

HasSlot_CurrentLength == /\ Looping /\ Top.list <= Len(ListOrder)
                         /\ Top.slotId <= Len(slots[Sig][List])

(* The loop looks at another slot of the list. *)
HasSlot == /\ Looping /\ Top.list <= Len(ListOrder)
           /\ Top.slotId <= Top.lengths[List]

SetTop(frame) == stack' = <<frame>> \o Tail(stack)

nextList ==
  /\ Looping /\ Top.list <= Len(ListOrder) /\ Top.slotId > Top.lengths[List]
  /\ SetTop([Top EXCEPT !.list = @ + 1, !.slotId = 1])
  /\ UNCHANGED <<connVars, refs, alive, listening, blocked, signalSender>>

dropDisposed_KeepsLength ==
  /\ HasSlot /\ Top.slotId <= Len(slots[Sig][List]) /\ Current.disposed
  /\ SetState(Sig, removeSlot(StateOf(Sig), List, Top.slotId))
  /\ UNCHANGED <<isInUse, delayed, allocated, alive, blocked, signalSender, stack>>

dropDisposed ==
  /\ HasSlot /\ Top.slotId <= Len(slots[Sig][List]) /\ Current.disposed
  /\ SetState(Sig, removeSlot(StateOf(Sig), List, Top.slotId))
  /\ SetTop([Top EXCEPT !.lengths[List] = @ - 1])
  /\ UNCHANGED <<isInUse, delayed, allocated, alive, blocked, signalSender>>

callSlot ==
  /\ HasSlot /\ Top.slotId <= Len(slots[Sig][List]) /\ ~Current.disposed
  /\ slots' = [slots EXCEPT ![Sig][List][Top.slotId].heard = @ + 1]
  /\ SetTop([Top EXCEPT !.at = "slot"])
  /\ UNCHANGED <<isInUse, delayed, allocated, refs, alive, listening, blocked, signalSender>>

slotReturns ==
  /\ stack # <<>> /\ Top.at = "slot"
  /\ SetTop([Top EXCEPT !.at = "loop", !.slotId = @ + 1])
  /\ UNCHANGED <<connVars, refs, alive, listening, blocked, signalSender>>

(* The marks of the properties end with the outermost emission of s. *)
Unmarked(s, lists) ==
  IF Emitting(s, Tail(stack)) THEN lists
  ELSE [l \in Lists |-> [i \in DOMAIN lists[l] |->
          [lists[l][i] EXCEPT !.late = FALSE, !.heard = 0]]]

LeaveEmit(s) == /\ isInUse' = [isInUse EXCEPT ![s] = FALSE]
                /\ signalSender' = FALSE
                /\ stack' = Tail(stack)

emitReturns_Forgets ==
  /\ Looping /\ Top.list > Len(ListOrder)
  /\ slots' = [slots EXCEPT ![Sig] = Unmarked(Sig, @)]
  /\ LeaveEmit(Sig)
  /\ delayed' = [delayed EXCEPT ![Sig] = [k \in {"fn", "dg"} |-> <<>>]]
  /\ UNCHANGED <<allocated, refs, alive, listening, blocked>>

(* All slots have been called: leave the scope, then disconnect what the   *)
(* slots asked to disconnect.                                              *)
emitReturns ==
  /\ Looping /\ Top.list > Len(ListOrder)
  /\ LET s     == Sig
         queue == delayed[s]["fn"] \o delayed[s]["dg"]
         st    == DisconnectAll(StateOf(s), queue)[Len(queue)]
     IN  /\ SetState(s, [st EXCEPT !.lists = Unmarked(s, @)])
         /\ LeaveEmit(s)
         /\ delayed' = [delayed EXCEPT ![s] = [k \in {"fn", "dg"} |-> <<>>]]
  /\ UNCHANGED <<allocated, alive, blocked>>

(* A slot throws: scope(exit) runs, and the caller of emit gets the        *)
(* exception.                                                              *)
slotThrows ==
  /\ stack # <<>> /\ Top.at = "slot"
  /\ LeaveEmit(Sig)
  /\ slots' = [slots EXCEPT ![Sig] = Unmarked(Sig, @)]
  /\ UNCHANGED <<delayed, allocated, refs, alive, listening, blocked>>

-----------------------------------------------------------------------------
Next ==
  \/ \E s \in Signals, r \in Receivers : \/ disconnectLater(s, r) \/ disconnect(s, r)
                                         \/ \E l \in Lists : connect(s, r, l)
  \/ \E s \in Signals : emit(s)
  \/ \E o \in Objects : onReceiverDisposed(o)
  \/ blockSignals \/ unblockSignals
  \/ nextList \/ dropDisposed \/ callSlot \/ slotReturns \/ emitReturns \/ slotThrows

Spec == Init /\ [][Next]_vars

-----------------------------------------------------------------------------
(* The slots of one signal that call r *)
SlotsOf(lists, r) ==
  {p \in UNION {{<<l, i>> : i \in DOMAIN lists[l]} : l \in Lists} :
     LET slot == lists[p[1]][p[2]] IN slot.r = r /\ ~slot.disposed}

Live(s, r) == Cardinality(SlotsOf(slots[s], r))

(* The slots of all signals that refer to o *)
SlotsTo(all, o) ==
  {p \in UNION {UNION {{<<s, l, i>> : i \in DOMAIN all[s][l]} : l \in Lists} : s \in Signals} :
     getObject(all[p[1]][p[2]][p[3]]) = o}

(* The tables agree with the slots: the receivers table counts, over all   *)
(* signals of the sender, the slots that refer to each object, so a dispose *)
(* event is attached exactly while one does and nothing refers to an object *)
(* that is gone; and Qt is told to forward a signal exactly while it has a *)
(* slot.                                                                   *)
TablesMatchSlots ==
  /\ \A o \in Objects : /\ refs[o] = Cardinality(SlotsTo(slots, o))
                        /\ o \notin alive => refs[o] = 0
  /\ \A s \in Signals : listening[s] <=> slotCount(slots[s]) > 0

(* A slot that is being called belongs to an object that exists when the   *)
(* call is made, whatever earlier slots of the emission destroyed.         *)
OnlyLiveReceiversCalled ==
  [][callSlot => LET r == Current.r
                 IN  r \in Delegates /\ ObjectOf[r] # NULL => ObjectOf[r] \in alive]_vars

(* An emission calls, exactly once each, the slots that were there when it *)
(* began and whose receiver still exists when it ends, and none of those   *)
(* connected on the way: "avoid calling new slots connected in the slots   *)
(* being called" (lines 746-747).                                          *)
EmissionCallsSlotsFound ==
  [][/\ callSlot => ~Current.late
     /\ emitReturns => \A l \in Lists : \A i \in DOMAIN slots[Sig][l] :
          LET slot == slots[Sig][l][i]
          IN  ~slot.late /\ ~slot.disposed => slot.heard = 1]_vars

(* "delay disconnection until all slots has been called" (line 687): while *)
(* a signal is being emitted none of its slots goes away, except those of  *)
(* destroyed receivers.                                                    *)
DisconnectionDelayed ==
  [][\A s \in Signals, r \in Receivers :
       Emitting(s, stack) /\ Emitting(s, stack') /\ alive' = alive => Live(s, r)' >= Live(s, r)]_vars

(* ... and then it happens: each delayed request takes away one slot of    *)
(* its own receiver, if there is one, and nothing else.                    *)
DelayedDisconnectsDone ==
  [][emitReturns => \A s \in Signals, r \in Receivers : s = Sig =>
       LET queue == delayed[s]["fn"] \o delayed[s]["dg"]
           asked == Cardinality({i \in DOMAIN queue : queue[i] = r})
       IN  Live(s, r)' = IF asked < Live(s, r) THEN Live(s, r) - asked ELSE 0]_vars

(* The loop of emit stays within the list it walks, although slots change  *)
(* the lists under it.                                                     *)
LoopInBounds == HasSlot => Top.slotId <= Len(slots[Sig][List])

(* disconnect(&bar) disconnects bar ("s.changed.disconnect(&bar); // must  *)
(* be explicitly disconnected", line 303), and bar only.                   *)
DisconnectRemovesOne ==
  [][\A s \in Signals, r \in Receivers :
       disconnect(s, r) =>
         \A q \in Receivers :
           Live(s, q)' = IF q = r /\ Live(s, r) > 0 THEN Live(s, q) - 1 ELSE Live(s, q)]_vars
=============================================================================
