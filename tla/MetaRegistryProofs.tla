------------------------- MODULE MetaRegistryProofs -------------------------
(***************************************************************************)
(* Proofs about MetaRegistry for any forest of classes and any number of   *)
(* threads: registrations look atomic, no class is built twice, the lists  *)
(* of derived classes are complete, and a search that takes no lock ends   *)
(* at the closest class.                                                   *)
(***************************************************************************)
EXTENDS MetaRegistry, FiniteSetTheorems, SequenceTheorems, DataInduction, TLAPS

(* Where a call of meta! has a meta-object of its own, where its base has  *)
(* been set, and where it holds the lock.                                  *)
Built  == {"base", "next", "push", "nativeId", "createWrapper", "share"}
Based  == Built \ {"base"}
Done   == {"unlock", "cache"}
Inside == Built \cup {"unlock"}

RegistryTypeOK ==
  /\ sharedM \in [Types -> Ref]
  /\ m \in [Threads -> [Types -> Ref]]
  /\ made \in [Types -> 0 .. MaxMade]
  /\ calls \in [Threads -> Seq(Call)]

(* What a thread knows is shared. *)
KnownIsShared == \A th \in Threads : \A t \in Types : m[th][t] # NULL => sharedM[t] # NULL

FrameOK(c, shared) ==
  /\ c.pc \in Built => c.self # NULL
  /\ c.pc \in Based /\ BaseOf[c.type] # NULL => shared[BaseOf[c.type]] # NULL
  /\ c.pc \in Done => shared[c.type] # NULL

FramesOK == \A th \in Threads : \A i \in 1 .. Len(calls[th]) : FrameOK(calls[th][i], sharedM)

RegistryInv == RegistryTypeOK /\ KnownIsShared /\ FramesOK

-----------------------------------------------------------------------------
(* The three ways in which a step changes a thread's stack of calls *)

Others(th) == \A o \in Threads \ {th} : calls'[o] = calls[o]

Replaced(th, c) ==
  /\ calls' \in [Threads -> Seq(Call)] /\ Others(th)
  /\ Len(calls'[th]) = Len(calls[th])
  /\ calls'[th][1] = c
  /\ \A i \in 2 .. Len(calls[th]) : calls'[th][i] = calls[th][i]

Pushed(th, c) ==
  /\ calls' \in [Threads -> Seq(Call)] /\ Others(th)
  /\ Len(calls'[th]) = Len(calls[th]) + 1
  /\ calls'[th][1] = c
  /\ \A i \in 1 .. Len(calls[th]) : calls'[th][i + 1] = calls[th][i]

Popped(th) ==
  /\ calls' \in [Threads -> Seq(Call)] /\ Others(th)
  /\ Len(calls'[th]) = Len(calls[th]) - 1
  /\ \A i \in 1 .. Len(calls[th]) - 1 : calls'[th][i] = calls[th][i + 1]

LEMMA HeadCall ==
  ASSUME RegistryTypeOK, NEW th \in Threads, calls[th] # <<>>
  PROVE  /\ Len(calls[th]) \in Nat \ {0}
         /\ 1 \in 1 .. Len(calls[th])
         /\ Head(calls[th]) = calls[th][1]
         /\ calls[th][1] \in Call
  <1>1. calls[th] \in Seq(Call)
    BY DEF RegistryTypeOK
  <1>2. Len(calls[th]) \in Nat \ {0}
    BY <1>1, EmptySeq
  <1>3. calls[th] \in [1 .. Len(calls[th]) -> Call]
    BY <1>1, LenProperties
  <1>4. Head(calls[th]) = calls[th][1]
    OBVIOUS
  <1>5. QED
    BY <1>2, <1>3, <1>4

LEMMA ReplaceHead ==
  ASSUME RegistryTypeOK, NEW th \in Threads, calls[th] # <<>>, NEW c \in Call,
         calls' = [calls EXCEPT ![th] = [calls[th] EXCEPT ![1] = c]]
  PROVE  Replaced(th, c)
  <1>1. 1 \in 1 .. Len(calls[th]) /\ calls[th] \in Seq(Call)
    BY HeadCall DEF RegistryTypeOK
  <1>2. /\ [calls[th] EXCEPT ![1] = c] \in Seq(Call)
        /\ Len([calls[th] EXCEPT ![1] = c]) = Len(calls[th])
        /\ \A j \in 1 .. Len(calls[th]) :
             [calls[th] EXCEPT ![1] = c][j] = IF j = 1 THEN c ELSE calls[th][j]
    BY <1>1, ExceptSeq
  <1>3. calls \in [Threads -> Seq(Call)] /\ calls'[th] = [calls[th] EXCEPT ![1] = c]
    BY DEF RegistryTypeOK
  <1>4. calls' \in [Threads -> Seq(Call)] /\ Others(th)
    BY <1>2, <1>3 DEF Others
  <1>5. \A i \in 2 .. Len(calls[th]) : i \in 1 .. Len(calls[th]) /\ i # 1
    BY <1>1, LenProperties
  <1>6. QED
    BY <1>1, <1>2, <1>3, <1>4, <1>5 DEF Replaced

LEMMA GotoReplaces ==
  ASSUME RegistryTypeOK, NEW th \in Threads, calls[th] # <<>>,
         NEW pc \in {"lock", "base", "next", "push", "nativeId", "createWrapper", "share",
                     "unlock", "cache"},
         Goto(th, pc)
  PROVE  Replaced(th, [calls[th][1] EXCEPT !.pc = pc])
  <1>1. calls[th][1] \in Call
    BY HeadCall
  <1>2. [calls[th][1] EXCEPT !.pc = pc] \in Call
    BY <1>1 DEF Call
  <1>3. calls' = [calls EXCEPT ![th] = [calls[th] EXCEPT ![1] = [calls[th][1] EXCEPT !.pc = pc]]]
    BY DEF Goto
  <1>4. QED
    BY <1>2, <1>3, ReplaceHead

LEMMA PushReplaces ==
  ASSUME RegistryTypeOK, NEW th \in Threads, NEW c \in Call,
         calls' = [calls EXCEPT ![th] = <<c>> \o calls[th]]
  PROVE  Pushed(th, c)
  <1>1. calls[th] \in Seq(Call) /\ <<c>> \in Seq(Call) /\ Len(<<c>>) = 1 /\ <<c>>[1] = c
    BY DEF RegistryTypeOK
  <1>2. /\ <<c>> \o calls[th] \in Seq(Call)
        /\ Len(<<c>> \o calls[th]) = 1 + Len(calls[th])
        /\ \A i \in 1 .. 1 + Len(calls[th]) :
             (<<c>> \o calls[th])[i] = IF i <= 1 THEN c ELSE calls[th][i - 1]
    BY <1>1, ConcatProperties
  <1>3. calls \in [Threads -> Seq(Call)] /\ calls'[th] = <<c>> \o calls[th]
    BY DEF RegistryTypeOK
  <1>4. calls' \in [Threads -> Seq(Call)] /\ Others(th)
    BY <1>2, <1>3 DEF Others
  <1>5. Len(calls[th]) \in Nat
    BY <1>1, LenProperties
  <1>6. \A i \in 1 .. Len(calls[th]) : calls'[th][i + 1] = calls[th][i]
    <2>1. TAKE i \in 1 .. Len(calls[th])
    <2>2. i + 1 \in 1 .. 1 + Len(calls[th]) /\ ~(i + 1 <= 1) /\ (i + 1) - 1 = i
      BY <1>5
    <2>3. QED
      BY <1>2, <1>3, <2>2
  <1>7. calls'[th][1] = c
    BY <1>2, <1>3, <1>5
  <1>8. QED
    BY <1>2, <1>3, <1>4, <1>5, <1>6, <1>7 DEF Pushed

LEMMA PopReplaces ==
  ASSUME RegistryTypeOK, NEW th \in Threads, calls[th] # <<>>,
         calls' = [calls EXCEPT ![th] = Tail(calls[th])]
  PROVE  Popped(th)
  <1>1. calls[th] \in Seq(Call)
    BY DEF RegistryTypeOK
  <1>2. /\ Tail(calls[th]) \in Seq(Call)
        /\ Len(Tail(calls[th])) = Len(calls[th]) - 1
        /\ \A i \in 1 .. Len(Tail(calls[th])) : Tail(calls[th])[i] = calls[th][i + 1]
    BY <1>1, HeadTailProperties
  <1>3. calls \in [Threads -> Seq(Call)] /\ calls'[th] = Tail(calls[th])
    BY DEF RegistryTypeOK
  <1>4. calls' \in [Threads -> Seq(Call)] /\ Others(th)
    BY <1>2, <1>3 DEF Others
  <1>5. QED
    BY <1>2, <1>3, <1>4 DEF Popped

-----------------------------------------------------------------------------
(* Each action, by what it does to sharedM, m, made and the stack          *)

PCs == {"lock", "base", "next", "push", "nativeId", "createWrapper", "share",
        "unlock", "cache"}

(* Only Share writes sharedM, only Cache writes m, only Lock writes made.  *)
Quiet == UNCHANGED <<sharedM, m, made>>

LEMMA CallTyped ==
  ASSUME NEW c \in Call
  PROVE  c.type \in Types /\ c.self \in Ref /\ c.pc \in PCs
  BY DEF Call, PCs

LEMMA EnterTyped ==
  ASSUME NEW t \in Types
  PROVE  Enter(t) \in Call /\ Enter(t).pc = "lock" /\ Enter(t).type = t
  BY DEF Enter, Call, Ref

(* Invariants of frames survive when sharedM only grows. *)
Grows == \A t \in Types : sharedM[t] # NULL => sharedM'[t] # NULL

LEMMA FrameStays ==
  ASSUME NEW c \in Call, FrameOK(c, sharedM), Grows
  PROVE  FrameOK(c, sharedM')
  <1>1. c.type \in Types /\ BaseOf[c.type] \in Types \cup {NULL}
    BY CallTyped, RegistryAssumption
  <1>2. QED
    BY <1>1 DEF FrameOK, Grows

LEMMA ReplacedKeepsFrames ==
  ASSUME RegistryInv, NEW th \in Threads, NEW c, Replaced(th, c), FrameOK(c, sharedM'), Grows
  PROVE  FramesOK'
  <1>1. SUFFICES ASSUME NEW o \in Threads, NEW i \in 1 .. Len(calls'[o])
                 PROVE  FrameOK(calls'[o][i], sharedM')
    BY DEF FramesOK
  <1>2. CASE o = th /\ i = 1
    BY <1>2 DEF Replaced
  <1>3. CASE ~(o = th /\ i = 1)
    <2>1. i \in 1 .. Len(calls[o]) /\ calls'[o][i] = calls[o][i]
      BY <1>3, LenProperties DEF Replaced, Others
    <2>2. calls[o][i] \in Call /\ FrameOK(calls[o][i], sharedM)
      BY <2>1, LenProperties DEF RegistryInv, RegistryTypeOK, FramesOK
    <2>3. QED
      BY <2>1, <2>2, FrameStays
  <1>4. QED
    BY <1>2, <1>3

LEMMA PushedKeepsFrames ==
  ASSUME RegistryInv, NEW th \in Threads, NEW c, Pushed(th, c), FrameOK(c, sharedM'), Grows
  PROVE  FramesOK'
  <1>1. SUFFICES ASSUME NEW o \in Threads, NEW i \in 1 .. Len(calls'[o])
                 PROVE  FrameOK(calls'[o][i], sharedM')
    BY DEF FramesOK
  <1>2. CASE o = th /\ i = 1
    BY <1>2 DEF Pushed
  <1>3. CASE o = th /\ i # 1
    <2>1. calls[th] \in Seq(Call) /\ Len(calls[th]) \in Nat
      BY LenProperties DEF RegistryInv, RegistryTypeOK
    <2>2. i - 1 \in 1 .. Len(calls[th]) /\ (i - 1) + 1 = i
      BY <1>3, <2>1 DEF Pushed
    <2>3. calls'[o][i] = calls[th][i - 1]
      BY <1>3, <2>2 DEF Pushed
    <2>4. calls[th][i - 1] \in Call /\ FrameOK(calls[th][i - 1], sharedM)
      BY <2>2, <2>1, LenProperties DEF RegistryInv, FramesOK
    <2>5. QED
      BY <2>3, <2>4, FrameStays
  <1>4. CASE o # th
    <2>1. i \in 1 .. Len(calls[o]) /\ calls'[o][i] = calls[o][i]
      BY <1>4 DEF Pushed, Others
    <2>2. calls[o][i] \in Call /\ FrameOK(calls[o][i], sharedM)
      BY <2>1, LenProperties DEF RegistryInv, RegistryTypeOK, FramesOK
    <2>3. QED
      BY <2>1, <2>2, FrameStays
  <1>5. QED
    BY <1>2, <1>3, <1>4

LEMMA PoppedKeepsFrames ==
  ASSUME RegistryInv, NEW th \in Threads, calls[th] # <<>>, Popped(th), Grows
  PROVE  FramesOK'
  <1>1. SUFFICES ASSUME NEW o \in Threads, NEW i \in 1 .. Len(calls'[o])
                 PROVE  FrameOK(calls'[o][i], sharedM')
    BY DEF FramesOK
  <1>2. PICK j \in 1 .. Len(calls[o]) : calls'[o][i] = calls[o][j]
    <2>1. CASE o = th
      <3>1. Len(calls[th]) \in Nat
        BY HeadCall DEF RegistryInv
      <3>2. i \in 1 .. Len(calls[th]) - 1 /\ i + 1 \in 1 .. Len(calls[th])
        BY <2>1, <3>1 DEF Popped
      <3>3. QED
        BY <2>1, <3>2 DEF Popped
    <2>2. CASE o # th
      BY <2>2 DEF Popped, Others
    <2>3. QED
      BY <2>1, <2>2
  <1>3. calls[o][j] \in Call /\ FrameOK(calls[o][j], sharedM)
    BY LenProperties DEF RegistryInv, RegistryTypeOK, FramesOK
  <1>4. QED
    BY <1>2, <1>3, FrameStays

-----------------------------------------------------------------------------
LEMMA InitEstablishesRegistryInv == Init => RegistryInv
  <1>1. SUFFICES ASSUME Init PROVE RegistryInv
    OBVIOUS
  <1>2. <<>> \in Seq(Call) /\ Len(<<>>) = 0
    BY EmptySeq
  <1>3. RegistryTypeOK
    BY <1>1, <1>2 DEF Init, RegistryTypeOK, Ref, MaxMade
  <1>4. KnownIsShared
    BY <1>1 DEF Init, KnownIsShared
  <1>5. FramesOK
    BY <1>1, <1>2 DEF Init, FramesOK
  <1>6. QED
    BY <1>3, <1>4, <1>5 DEF RegistryInv

(* Steps that only move the head of a stack, or leave all of this alone.   *)
LEMMA QuietReplace ==
  ASSUME RegistryInv, NEW th \in Threads, NEW c \in Call, Replaced(th, c), Quiet,
         FrameOK(c, sharedM)
  PROVE  RegistryInv'
  <1>1. RegistryTypeOK'
    BY DEF RegistryInv, RegistryTypeOK, Quiet, Replaced
  <1>2. KnownIsShared'
    BY DEF RegistryInv, KnownIsShared, Quiet
  <1>3. Grows /\ sharedM' = sharedM
    BY DEF Grows, Quiet
  <1>4. FramesOK'
    BY <1>3, ReplacedKeepsFrames
  <1>5. QED
    BY <1>1, <1>2, <1>4 DEF RegistryInv

LEMMA QuietGoto ==
  ASSUME RegistryInv, NEW th \in Threads, calls[th] # <<>>, NEW pc \in PCs, Goto(th, pc), Quiet,
         FrameOK([calls[th][1] EXCEPT !.pc = pc], sharedM)
  PROVE  RegistryInv'
  <1>1. Replaced(th, [calls[th][1] EXCEPT !.pc = pc])
    BY GotoReplaces DEF RegistryInv, PCs
  <1>2. [calls[th][1] EXCEPT !.pc = pc] \in Call
    BY HeadCall DEF RegistryInv, Call, PCs
  <1>3. QED
    BY <1>1, <1>2, QuietReplace

(* What the head of a stack satisfies, by its place in the code.           *)
LEMMA HeadFrame ==
  ASSUME RegistryInv, NEW th \in Threads, NEW pc, At(th, pc)
  PROVE  /\ calls[th] # <<>>
         /\ calls[th][1] \in Call /\ calls[th][1].pc = pc
         /\ FrameOK(calls[th][1], sharedM)
         /\ T(th) = calls[th][1].type /\ T(th) \in Types
         /\ Self(th) = calls[th][1].self /\ Self(th) \in Ref
  BY HeadCall, CallTyped DEF RegistryInv, FramesOK, At, T, Self

LEMMA MovedFrame ==
  ASSUME NEW c \in Call, NEW pc \in PCs
  PROVE  /\ [c EXCEPT !.pc = pc] \in Call
         /\ [c EXCEPT !.pc = pc].pc = pc
         /\ [c EXCEPT !.pc = pc].type = c.type
         /\ [c EXCEPT !.pc = pc].self = c.self
  BY DEF Call, PCs

LEMMA AskKeepsRegistryInv ==
  ASSUME RegistryInv, NEW th \in Threads, NEW t \in Types, Ask(th, t)
  PROVE  RegistryInv'
  <1>1. calls[th] = <<>> /\ calls' = [calls EXCEPT ![th] = <<Enter(t)>>] /\ Quiet
    BY DEF Ask, Idle, Quiet
  <1>2. <<Enter(t)>> = <<Enter(t)>> \o calls[th] /\ Enter(t) \in Call /\ Enter(t).pc = "lock"
    BY <1>1, EnterTyped
  <1>3. Pushed(th, Enter(t))
    BY <1>1, <1>2, PushReplaces DEF RegistryInv
  <1>4. FrameOK(Enter(t), sharedM') /\ Grows
    BY <1>1, <1>2 DEF FrameOK, Built, Based, Done, Grows, Quiet
  <1>5. FramesOK'
    BY <1>3, <1>4, PushedKeepsFrames
  <1>6. QED
    BY <1>1, <1>3, <1>5 DEF RegistryInv, RegistryTypeOK, KnownIsShared, Quiet, Pushed

LEMMA CallBaseKeepsRegistryInv ==
  ASSUME RegistryInv, NEW th \in Threads, CallBase(th)
  PROVE  RegistryInv'
  <1>1. /\ BaseOf[T(th)] \in Types
        /\ calls' = [calls EXCEPT ![th] = <<Enter(BaseOf[T(th)])>> \o calls[th]] /\ Quiet
    BY HeadFrame, RegistryAssumption DEF CallBase, Quiet
  <1>2. Enter(BaseOf[T(th)]) \in Call /\ Enter(BaseOf[T(th)]).pc = "lock"
    BY <1>1, EnterTyped
  <1>3. Pushed(th, Enter(BaseOf[T(th)]))
    BY <1>1, <1>2, PushReplaces DEF RegistryInv
  <1>4. FrameOK(Enter(BaseOf[T(th)]), sharedM') /\ Grows
    BY <1>1, <1>2 DEF FrameOK, Built, Based, Done, Grows, Quiet
  <1>5. FramesOK'
    BY <1>3, <1>4, PushedKeepsFrames
  <1>6. QED
    BY <1>1, <1>3, <1>5 DEF RegistryInv, RegistryTypeOK, KnownIsShared, Quiet, Pushed

LEMMA MadeRange ==
  ASSUME RegistryInv, NEW t \in Types
  PROVE  /\ made \in [Types -> Nat] /\ made[t] \in Nat /\ made[t] <= MaxMade /\ MaxMade = 2
  BY DEF RegistryInv, RegistryTypeOK, MaxMade

(* The meta-object M.create allocates, in the frame of its call            *)
Created(th) == [calls[th][1] EXCEPT !.self = <<T(th), made[T(th)] + 1>>, !.pc = "base"]

LEMMA CreatedTyped ==
  ASSUME RegistryInv, NEW th \in Threads, At(th, "lock"), made[T(th)] < MaxMade
  PROVE  /\ made[T(th)] + 1 \in 1 .. MaxMade
         /\ Created(th) \in Call /\ Created(th).type = T(th) /\ Created(th).pc = "base"
         /\ Created(th).self # NULL
         /\ FrameOK(Created(th), sharedM)
  <1>1. T(th) \in Types /\ calls[th][1] \in Call /\ T(th) = calls[th][1].type
    BY HeadFrame
  <1>2. made[T(th)] + 1 \in 1 .. MaxMade
    BY <1>1, MadeRange
  <1>3. <<T(th), made[T(th)] + 1>> \in Metas /\ <<T(th), made[T(th)] + 1>> # NULL
    BY <1>1, <1>2, RegistryAssumption DEF Metas
  <1>4. /\ Created(th) \in Call /\ Created(th).type = T(th) /\ Created(th).pc = "base"
        /\ Created(th).self = <<T(th), made[T(th)] + 1>>
    BY <1>1, <1>3 DEF Created, Call, Ref
  <1>5. QED
    BY <1>2, <1>3, <1>4 DEF FrameOK, Built, Based, Done

LEMMA LockCreates ==
  ASSUME RegistryInv, NEW th \in Threads, Lock(th), sharedM[T(th)] = NULL
  PROVE  /\ made[T(th)] < MaxMade /\ made' = [made EXCEPT ![T(th)] = @ + 1]
         /\ Replaced(th, Created(th))
  <1>1. At(th, "lock") /\ made[T(th)] < MaxMade /\ made' = [made EXCEPT ![T(th)] = @ + 1]
    BY DEF Lock
  <1>2. T(th) \in Types /\ calls[th] # <<>>
    BY <1>1, HeadFrame
  <1>3. made'[T(th)] = made[T(th)] + 1
    BY <1>1, <1>2, MadeRange
  <1>4. calls' = [calls EXCEPT ![th][1] =
                 [@ EXCEPT !.self = <<T(th), made[T(th)] + 1>>, !.pc = "base"]]
    BY <1>3 DEF Lock
  <1>5. calls' = [calls EXCEPT ![th] = [calls[th] EXCEPT ![1] = Created(th)]]
    BY <1>4 DEF Created
  <1>6. Created(th) \in Call
    BY <1>1, CreatedTyped
  <1>7. QED
    BY <1>1, <1>2, <1>5, <1>6, ReplaceHead DEF RegistryInv

LEMMA LockKeepsRegistryInv ==
  ASSUME RegistryInv, NEW th \in Threads, Lock(th)
  PROVE  RegistryInv'
  <1>1. At(th, "lock") /\ UNCHANGED <<sharedM, m>>
    BY DEF Lock
  <1>2. CASE sharedM[T(th)] # NULL
    <2>1. Goto(th, "unlock") /\ Quiet
      BY <1>1, <1>2 DEF Lock, Quiet
    <2>2. FrameOK([calls[th][1] EXCEPT !.pc = "unlock"], sharedM)
      BY <1>1, <1>2, HeadFrame, MovedFrame DEF FrameOK, Built, Based, Done, PCs
    <2>3. QED
      BY <1>1, <2>1, <2>2, QuietGoto, HeadFrame DEF PCs
  <1>3. CASE sharedM[T(th)] = NULL
    <2>1. /\ made[T(th)] < MaxMade /\ made' = [made EXCEPT ![T(th)] = @ + 1]
          /\ Replaced(th, Created(th))
      BY <1>3, LockCreates
    <2>2. /\ made[T(th)] + 1 \in 0 .. MaxMade
          /\ Created(th) \in Call /\ FrameOK(Created(th), sharedM)
      BY <1>1, <2>1, CreatedTyped
    <2>3. RegistryTypeOK'
      BY <1>1, <2>1, <2>2, HeadFrame DEF RegistryInv, RegistryTypeOK, Replaced
    <2>4. KnownIsShared'
      BY <1>1 DEF RegistryInv, KnownIsShared
    <2>5. FramesOK'
      BY <1>1, <2>1, <2>2, ReplacedKeepsFrames DEF Grows
    <2>6. QED
      BY <2>3, <2>4, <2>5 DEF RegistryInv
  <1>4. QED
    BY <1>2, <1>3

(* From SetBase to Share a frame keeps what it has.                        *)
LEMMA BasedMoves ==
  ASSUME RegistryInv, NEW th \in Threads, NEW pc \in Based, At(th, pc), NEW to \in Based,
         Goto(th, to), Quiet
  PROVE  RegistryInv'
  <1>1. pc \in Built /\ to \in Built /\ to \notin Done /\ to \in PCs
    BY DEF Based, Built, Done, PCs
  <1>2. FrameOK([calls[th][1] EXCEPT !.pc = to], sharedM)
    BY <1>1, HeadFrame, MovedFrame DEF FrameOK
  <1>3. QED
    BY <1>1, <1>2, QuietGoto, HeadFrame

LEMMA SetBaseKeepsRegistryInv ==
  ASSUME RegistryInv, NEW th \in Threads, SetBase(th)
  PROVE  RegistryInv'
  <1>1. At(th, "base")
    BY DEF SetBase
  <1>2. CASE BaseOf[T(th)] = NULL
    <2>1. Goto(th, "nativeId") /\ Quiet
      BY <1>2 DEF SetBase, Quiet
    <2>2. FrameOK([calls[th][1] EXCEPT !.pc = "nativeId"], sharedM)
      BY <1>1, <1>2, HeadFrame, MovedFrame DEF FrameOK, Built, Based, Done, PCs
    <2>3. QED
      BY <1>1, <2>1, <2>2, QuietGoto, HeadFrame DEF PCs
  <1>3. CASE BaseOf[T(th)] # NULL
    <2>1. Goto(th, "next") /\ Quiet /\ m[th][BaseOf[T(th)]] # NULL
      BY <1>3 DEF SetBase, Set, Quiet
    <2>2. BaseOf[T(th)] \in Types
      BY <1>1, <1>3, HeadFrame, RegistryAssumption
    <2>3. sharedM[BaseOf[T(th)]] # NULL
      BY <2>1, <2>2 DEF RegistryInv, KnownIsShared
    <2>4. FrameOK([calls[th][1] EXCEPT !.pc = "next"], sharedM)
      BY <1>1, <2>3, HeadFrame, MovedFrame DEF FrameOK, Built, Based, Done, PCs
    <2>5. QED
      BY <1>1, <2>1, <2>4, QuietGoto, HeadFrame DEF PCs
  <1>4. QED
    BY <1>2, <1>3

LEMMA BuildingKeepsRegistryInv ==
  ASSUME RegistryInv, NEW th \in Threads,
         SetNext(th) \/ Push(th) \/ SetNativeId(th) \/ SetCreateWrapper(th)
  PROVE  RegistryInv'
  <1>1. PICK pc \in Based, to \in Based : At(th, pc) /\ Goto(th, to) /\ Quiet
    <2>1. {"next", "push", "nativeId", "createWrapper", "share"} = Based
      BY DEF Based, Built
    <2>2. QED
      BY <2>1 DEF SetNext, Push, SetNativeId, SetCreateWrapper, Set, Quiet
  <1>2. QED
    BY <1>1, BasedMoves

LEMMA ShareFacts ==
  ASSUME RegistryInv, NEW th \in Threads, Share(th)
  PROVE  /\ T(th) \in Types /\ Self(th) \in Ref \ {NULL}
         /\ sharedM' = [sharedM EXCEPT ![T(th)] = Self(th)]
         /\ BaseOf[T(th)] # NULL => sharedM[BaseOf[T(th)]] # NULL
         /\ Grows
  <1>1. At(th, "share") /\ sharedM' = [sharedM EXCEPT ![T(th)] = Self(th)]
    BY DEF Share
  <1>2. T(th) \in Types /\ Self(th) \in Ref \ {NULL}
    BY <1>1, HeadFrame DEF FrameOK, Built
  <1>3. BaseOf[T(th)] # NULL => sharedM[BaseOf[T(th)]] # NULL
    BY <1>1, HeadFrame DEF FrameOK, Built, Based
  <1>4. Grows
    BY <1>1, <1>2 DEF RegistryInv, RegistryTypeOK, Grows
  <1>5. QED
    BY <1>1, <1>2, <1>3, <1>4

LEMMA ShareKeepsRegistryInv ==
  ASSUME RegistryInv, NEW th \in Threads, Share(th)
  PROVE  RegistryInv'
  <1>1. At(th, "share") /\ Goto(th, "unlock") /\ UNCHANGED <<m, made>>
    BY DEF Share
  <1>2. /\ Replaced(th, [calls[th][1] EXCEPT !.pc = "unlock"])
        /\ [calls[th][1] EXCEPT !.pc = "unlock"] \in Call
    BY <1>1, GotoReplaces, HeadFrame, MovedFrame DEF RegistryInv, PCs
  <1>3. sharedM'[T(th)] # NULL
    BY ShareFacts DEF RegistryInv, RegistryTypeOK
  <1>4. FrameOK([calls[th][1] EXCEPT !.pc = "unlock"], sharedM')
    BY <1>1, <1>3, HeadFrame, MovedFrame DEF FrameOK, Built, Based, Done, PCs
  <1>5. FramesOK'
    BY <1>2, <1>4, ShareFacts, ReplacedKeepsFrames
  <1>6. RegistryTypeOK'
    BY <1>1, <1>2, ShareFacts DEF RegistryInv, RegistryTypeOK, Replaced
  <1>7. KnownIsShared'
    BY <1>1, ShareFacts DEF RegistryInv, KnownIsShared, Grows
  <1>8. QED
    BY <1>5, <1>6, <1>7 DEF RegistryInv

LEMMA UnlockKeepsRegistryInv ==
  ASSUME RegistryInv, NEW th \in Threads, Unlock(th)
  PROVE  RegistryInv'
  <1>1. At(th, "unlock") /\ Goto(th, "cache") /\ Quiet
    BY DEF Unlock, Quiet
  <1>2. FrameOK([calls[th][1] EXCEPT !.pc = "cache"], sharedM)
    BY <1>1, HeadFrame, MovedFrame DEF FrameOK, Built, Based, Done, PCs
  <1>3. QED
    BY <1>1, <1>2, QuietGoto, HeadFrame DEF PCs

LEMMA CacheFacts ==
  ASSUME RegistryInv, NEW th \in Threads, Cache(th)
  PROVE  /\ T(th) \in Types /\ sharedM[T(th)] \in Ref \ {NULL}
         /\ m' \in [Threads -> [Types -> Ref]]
         /\ \A o \in Threads, t \in Types :
              m'[o][t] = IF o = th /\ t = T(th) THEN sharedM[T(th)] ELSE m[o][t]
         /\ sharedM' = sharedM /\ Popped(th)
  <1>1. At(th, "cache")
    BY DEF Cache
  <1>2. T(th) \in Types /\ sharedM[T(th)] # NULL /\ calls[th] # <<>>
    BY <1>1, HeadFrame DEF FrameOK, Done
  <1>3. Popped(th)
    BY <1>2, PopReplaces DEF Cache, RegistryInv
  <1>4. sharedM[T(th)] \in Ref /\ m \in [Threads -> [Types -> Ref]]
    BY <1>2 DEF RegistryInv, RegistryTypeOK
  <1>5. [m[th] EXCEPT ![T(th)] = sharedM[T(th)]] \in [Types -> Ref]
    BY <1>2, <1>4
  <1>6. m' = [m EXCEPT ![th] = [m[th] EXCEPT ![T(th)] = sharedM[T(th)]]]
    BY DEF Cache
  <1>7. m' \in [Threads -> [Types -> Ref]]
    BY <1>4, <1>5, <1>6
  <1>8. ASSUME NEW o \in Threads, NEW t \in Types
        PROVE  m'[o][t] = IF o = th /\ t = T(th) THEN sharedM[T(th)] ELSE m[o][t]
    <2>1. m'[o] = IF o = th THEN [m[th] EXCEPT ![T(th)] = sharedM[T(th)]] ELSE m[o]
      BY <1>4, <1>6
    <2>2. m[th] \in [Types -> Ref]
      BY <1>4
    <2>3. QED
      BY <1>2, <2>1, <2>2
  <1>9. QED
    BY <1>2, <1>3, <1>4, <1>7, <1>8 DEF Cache

LEMMA CacheKeepsRegistryInv ==
  ASSUME RegistryInv, NEW th \in Threads, Cache(th)
  PROVE  RegistryInv'
  <1>1. At(th, "cache") /\ made' = made /\ calls[th] # <<>> /\ Grows
    BY HeadFrame DEF Cache, Grows
  <1>2. FramesOK'
    BY <1>1, CacheFacts, PoppedKeepsFrames
  <1>3. RegistryTypeOK'
    BY <1>1, CacheFacts DEF RegistryInv, RegistryTypeOK, Popped
  <1>4. KnownIsShared'
    BY CacheFacts DEF RegistryInv, KnownIsShared
  <1>5. QED
    BY <1>2, <1>3, <1>4 DEF RegistryInv

(* Steps that change none of this *)
Still == UNCHANGED <<sharedM, m, made, calls, owner, depth>>

LEMMA SearchIsStill ==
  ASSUME NEW th \in Threads,
         \/ SearchStep(th)
         \/ \E t, native \in Types : getWrapper(th, t, native)
  PROVE  Still
  BY DEF SearchStep, FirstDerived, Match, NextDerived, NoMatch, Create, getWrapper, Still, lockVars

LEMMA StillKeepsRegistryInv ==
  ASSUME RegistryInv, Still
  PROVE  RegistryInv'
  BY DEF Still, RegistryInv, RegistryTypeOK, KnownIsShared, FramesOK

LEMMA NextKeepsRegistryInv ==
  ASSUME RegistryInv, [Next]_vars
  PROVE  RegistryInv'
  <1>1. CASE UNCHANGED vars
    BY <1>1, StillKeepsRegistryInv DEF vars, lockVars, Still
  <1>2. ASSUME NEW th \in Threads,
               \/ \E t \in Types : Ask(th, t) \/ \E native \in Types : getWrapper(th, t, native)
               \/ MetaStep(th) \/ SearchStep(th)
        PROVE  RegistryInv'
    BY <1>2, AskKeepsRegistryInv, LockKeepsRegistryInv, CallBaseKeepsRegistryInv,
       SetBaseKeepsRegistryInv, BuildingKeepsRegistryInv, ShareKeepsRegistryInv,
       UnlockKeepsRegistryInv, CacheKeepsRegistryInv, SearchIsStill, StillKeepsRegistryInv
    DEF MetaStep
  <1>3. QED
    BY <1>1, <1>2 DEF Next

LEMMA RegistryInvariant == Spec => []RegistryInv
  BY InitEstablishesRegistryInv, NextKeepsRegistryInv, PTL DEF Spec

-----------------------------------------------------------------------------
(* The refinement of TypeRegistry *)

LEMMA ShareRegisters ==
  ASSUME RegistryInv, NEW th \in Threads, Share(th)
  PROVE  \/ UNCHANGED <<Registered, Known>>
         \/ \E t \in Types : Abstract!Register(t)
  <1>1. m' = m
    BY DEF Share
  <1>2. Known' = Known
    BY <1>1 DEF Known
  <1>3. /\ T(th) \in Types /\ BaseOf[T(th)] \in Types \cup {NULL}
        /\ Registered' = Registered \cup {T(th)}
    BY ShareFacts, RegistryAssumption DEF Registered, RegistryInv, RegistryTypeOK
  <1>4. CASE T(th) \in Registered
    BY <1>2, <1>3, <1>4
  <1>5. CASE T(th) \notin Registered
    <2>1. BaseOf[T(th)] # NULL => BaseOf[T(th)] \in Registered
      BY <1>3, ShareFacts DEF Registered
    <2>2. Abstract!Register(T(th))
      BY <1>2, <1>3, <1>5, <2>1 DEF Abstract!Register, Registered, Known
    <2>3. QED
      BY <1>3, <2>2
  <1>6. QED
    BY <1>4, <1>5

LEMMA CacheLearns ==
  ASSUME RegistryInv, NEW th \in Threads, Cache(th)
  PROVE  \E t \in Types : Abstract!Learn(th, t)
  <1>1. T(th) \in Types /\ T(th) \in Registered /\ Registered' = Registered
    BY CacheFacts DEF Registered
  <1>2. Known' = [Known EXCEPT ![th] = @ \cup {T(th)}]
    <2>1. \A o \in Threads : {t \in Types : m'[o][t] # NULL} =
             IF o = th THEN {t \in Types : m[o][t] # NULL} \cup {T(th)}
             ELSE {t \in Types : m[o][t] # NULL}
      BY CacheFacts
    <2>2. QED
      BY <2>1 DEF Known
  <1>3. Abstract!Learn(th, T(th))
    BY <1>1, <1>2 DEF Abstract!Learn, Registered, Known
  <1>4. QED
    BY <1>1, <1>3

(* Registrations look atomic: whatever the threads do, a class is          *)
(* registered once, after its base, and a thread knows only classes that   *)
(* are registered (meta! and MetaClass.construct, d2/qtd/meta/Runtime.d).  *)
THEOREM RegistrationsAreAtomic == Spec => ImplementsRegistry
  <1>1. Init => Abstract!Init
    BY DEF Init, Abstract!Init, Registered, Known
  <1>2. RegistryInv /\ [Next]_vars => [Abstract!Next]_<<Registered, Known>>
    <2>1. SUFFICES ASSUME RegistryInv, [Next]_vars
                   PROVE  [Abstract!Next]_<<Registered, Known>>
      OBVIOUS
    <2>2. ASSUME sharedM' = sharedM, m' = m
          PROVE  UNCHANGED <<Registered, Known>>
      BY <2>2 DEF Registered, Known
    <2>3. CASE UNCHANGED vars
      BY <2>2, <2>3 DEF vars
    <2>4. ASSUME NEW th \in Threads,
                 \/ \E t \in Types : Ask(th, t) \/ \E native \in Types : getWrapper(th, t, native)
                 \/ MetaStep(th) \/ SearchStep(th)
          PROVE  [Abstract!Next]_<<Registered, Known>>
      <3>1. CASE Share(th)
        BY <2>1, <3>1, ShareRegisters DEF Abstract!Next
      <3>2. CASE Cache(th)
        BY <2>1, <3>2, CacheLearns DEF Abstract!Next
      <3>3. CASE ~Share(th) /\ ~Cache(th)
        <4>1. sharedM' = sharedM /\ m' = m
          BY <2>4, <3>3, SearchIsStill
          DEF MetaStep, Ask, Lock, CallBase, SetBase, SetNext, Push, SetNativeId,
              SetCreateWrapper, Set, Unlock, Still
        <4>2. QED
          BY <2>2, <4>1
      <3>4. QED
        BY <3>1, <3>2, <3>3
    <2>5. QED
      BY <2>1, <2>3, <2>4 DEF Next
  <1>3. QED
    BY RegistryInvariant, <1>1, <1>2, PTL
    DEF Spec, ImplementsRegistry, Abstract!Spec

-----------------------------------------------------------------------------
(* No class is built twice.  The lock keeps other threads out; the forest  *)
(* of classes keeps the thread itself from asking for a class whose        *)
(* meta-object it is building further up its stack.                        *)

Rank == CHOOSE rank \in [Types -> 1 .. Cardinality(Types)] :
          \A t \in Types : BaseOf[t] # NULL => rank[BaseOf[t]] < rank[t]

(* How often a stack of calls holds the lock                               *)
Held(s) ==
  IF Len(s) = 0 THEN 0
  ELSE IF s[1].pc \in {"lock", "cache"} THEN Len(s) - 1 ELSE Len(s)

LockCounts ==
  /\ depth \in Nat /\ owner \in Threads \cup {NULL}
  /\ owner = NULL <=> depth = 0
  /\ \A th \in Threads : Held(calls[th]) = IF owner = th THEN depth ELSE 0

(* Calls wait for their bases, which come before them in the forest.       *)
CallsNest ==
  \A th \in Threads :
    /\ \A i \in 2 .. Len(calls[th]) : calls[th][i].pc = "base"
    /\ \A i, j \in 1 .. Len(calls[th]) :
         i < j => Rank[calls[th][i].type] < Rank[calls[th][j].type]

BuiltBy(t) ==
  \E th \in Threads : \E i \in 1 .. Len(calls[th]) :
    calls[th][i].type = t /\ calls[th][i].pc \in Built

MadeOnce ==
  \A t \in Types : made[t] <= 1 /\ (made[t] = 1 /\ sharedM[t] = NULL => BuiltBy(t))

BuildInv == RegistryInv /\ LockCounts /\ CallsNest /\ MadeOnce

LEMMA RankDecreases ==
  ASSUME NEW t \in Types
  PROVE  /\ Rank[t] \in Nat
         /\ BaseOf[t] # NULL => BaseOf[t] \in Types /\ Rank[BaseOf[t]] < Rank[t]
  <1>1. Cardinality(Types) \in Nat
    BY RegistryAssumption, FS_CardinalityType
  <1>2. /\ Rank \in [Types -> 1 .. Cardinality(Types)]
        /\ \A u \in Types : BaseOf[u] # NULL => Rank[BaseOf[u]] < Rank[u]
    BY RegistryAssumption DEF Rank
  <1>3. QED
    BY <1>1, <1>2, RegistryAssumption

LEMMA CallsTyped ==
  ASSUME RegistryInv, NEW th \in Threads
  PROVE  /\ Len(calls[th]) \in Nat
         /\ \A i \in 1 .. Len(calls[th]) : calls[th][i] \in Call /\ calls[th][i].type \in Types
  <1>1. calls[th] \in Seq(Call)
    BY DEF RegistryInv, RegistryTypeOK
  <1>2. QED
    BY <1>1, LenProperties, CallTyped

LEMMA OthersHold ==
  ASSUME NEW th \in Threads, Others(th), NEW o \in Threads, o # th
  PROVE  Held(calls'[o]) = Held(calls[o])
  BY DEF Others

(* A new head of the same type                                             *)
LEMMA ReplacedEffects ==
  ASSUME RegistryInv, CallsNest, NEW th \in Threads, calls[th] # <<>>,
         NEW c \in Call, Replaced(th, c), c.type = calls[th][1].type
  PROVE  /\ CallsNest'
         /\ Held(calls'[th]) = IF c.pc \in {"lock", "cache"} THEN Len(calls[th]) - 1
                               ELSE Len(calls[th])
         /\ (calls[th][1].pc \in Built => c.pc \in Built) =>
              \A t \in Types : BuiltBy(t) => BuiltBy(t)'
  <1>1. Len(calls[th]) \in Nat \ {0} /\ 1 \in 1 .. Len(calls[th])
    BY HeadCall DEF RegistryInv
  <1>2. /\ Len(calls'[th]) = Len(calls[th]) /\ calls'[th][1] = c
        /\ \A i \in 1 .. Len(calls[th]) : i # 1 => calls'[th][i] = calls[th][i]
        /\ \A i \in 1 .. Len(calls[th]) : calls'[th][i].type = calls[th][i].type
        /\ \A o \in Threads : o # th => calls'[o] = calls[o]
    BY <1>1 DEF Replaced, Others
  <1>3. CallsNest'
    <2>1. SUFFICES ASSUME NEW o \in Threads
                   PROVE  /\ \A i \in 2 .. Len(calls'[o]) : calls'[o][i].pc = "base"
                          /\ \A i, j \in 1 .. Len(calls'[o]) :
                               i < j => Rank[calls'[o][i].type] < Rank[calls'[o][j].type]
      BY DEF CallsNest
    <2>2. CASE o = th
      BY <1>1, <1>2, <2>2 DEF CallsNest
    <2>3. CASE o # th
      BY <1>2, <2>3 DEF CallsNest
    <2>4. QED
      BY <2>2, <2>3
  <1>4. Held(calls'[th]) = IF c.pc \in {"lock", "cache"} THEN Len(calls[th]) - 1
                           ELSE Len(calls[th])
    BY <1>1, <1>2 DEF Held
  <1>5. ASSUME calls[th][1].pc \in Built => c.pc \in Built,
               NEW t \in Types, BuiltBy(t)
        PROVE  BuiltBy(t)'
    <2>a. PICK o \in Threads : \E i \in 1 .. Len(calls[o]) :
            calls[o][i].type = t /\ calls[o][i].pc \in Built
      BY <1>5 DEF BuiltBy
    <2>1. PICK i \in 1 .. Len(calls[o]) : calls[o][i].type = t /\ calls[o][i].pc \in Built
      BY <2>a
    <2>2. i \in 1 .. Len(calls'[o]) /\ calls'[o][i].type = t /\ calls'[o][i].pc \in Built
      BY <1>1, <1>2, <1>5, <2>1
    <2>3. QED
      BY <2>2 DEF BuiltBy
  <1>6. QED
    BY <1>3, <1>4, <1>5

(* A call that starts, from no call or from one that waits for its base    *)
LEMMA PushedEffects ==
  ASSUME RegistryInv, CallsNest, NEW th \in Threads, NEW c \in Call, Pushed(th, c),
         c.pc = "lock",
         calls[th] # <<>> => /\ calls[th][1].pc = "base"
                             /\ Rank[c.type] < Rank[calls[th][1].type]
  PROVE  /\ CallsNest'
         /\ Held(calls'[th]) = Held(calls[th])
         /\ \A t \in Types : BuiltBy(t) => BuiltBy(t)'
  <1>1. Len(calls[th]) \in Nat
    BY CallsTyped
  <1>2. /\ Len(calls'[th]) = Len(calls[th]) + 1 /\ calls'[th][1] = c
        /\ \A i \in 1 .. Len(calls[th]) : calls'[th][i + 1] = calls[th][i]
        /\ \A o \in Threads : o # th => calls'[o] = calls[o]
    BY DEF Pushed, Others
  <1>3. calls[th] = <<>> <=> Len(calls[th]) = 0
    BY EmptySeq DEF RegistryInv, RegistryTypeOK
  <1>4. \A i \in 2 .. Len(calls'[th]) :
          i - 1 \in 1 .. Len(calls[th]) /\ calls'[th][i] = calls[th][i - 1]
    <2>1. TAKE i \in 2 .. Len(calls'[th])
    <2>2. i - 1 \in 1 .. Len(calls[th]) /\ (i - 1) + 1 = i
      BY <1>1, <1>2
    <2>3. calls'[th][(i - 1) + 1] = calls[th][i - 1]
      BY <1>2, <2>2
    <2>4. QED
      BY <2>2, <2>3
  <1>5. \A i \in 2 .. Len(calls'[th]) : calls'[th][i].pc = "base"
    <2>1. TAKE i \in 2 .. Len(calls'[th])
    <2>2. i - 1 \in 1 .. Len(calls[th]) /\ calls'[th][i] = calls[th][i - 1]
      BY <1>4
    <2>3. CASE i - 1 = 1
      BY <1>1, <1>3, <2>2, <2>3
    <2>4. CASE i - 1 # 1
      <3>1. i - 1 \in 2 .. Len(calls[th])
        BY <1>1, <2>2, <2>4
      <3>2. QED
        BY <2>2, <3>1 DEF CallsNest
    <2>5. QED
      BY <2>3, <2>4
  <1>6. \A j \in 1 .. Len(calls[th]) : Rank[c.type] < Rank[calls[th][j].type]
    <2>1. TAKE j \in 1 .. Len(calls[th])
    <2>2. 1 \in 1 .. Len(calls[th]) /\ Rank[c.type] < Rank[calls[th][1].type]
      BY <1>1, <1>3
    <2>3. CASE j = 1
      BY <2>2, <2>3
    <2>4. CASE j # 1
      <3>1. Rank[calls[th][1].type] < Rank[calls[th][j].type]
        BY <1>1, <2>2, <2>4 DEF CallsNest
      <3>2. /\ Rank[c.type] \in Nat /\ Rank[calls[th][1].type] \in Nat
            /\ Rank[calls[th][j].type] \in Nat
        BY <2>2, RankDecreases, CallsTyped, CallTyped
      <3>3. QED
        BY <2>2, <3>1, <3>2
    <2>5. QED
      BY <2>3, <2>4
  <1>7. \A i, j \in 1 .. Len(calls'[th]) :
          i < j => Rank[calls'[th][i].type] < Rank[calls'[th][j].type]
    <2>1. TAKE i, j \in 1 .. Len(calls'[th])
    <2>2. HAVE i < j
    <2>3. j \in 2 .. Len(calls'[th]) /\ (i = 1 \/ i \in 2 .. Len(calls'[th]))
      BY <1>1, <1>2, <2>2
    <2>4. j - 1 \in 1 .. Len(calls[th]) /\ calls'[th][j] = calls[th][j - 1]
      BY <1>4, <2>3
    <2>5. CASE i = 1
      BY <1>2, <1>6, <2>4, <2>5
    <2>6. CASE i \in 2 .. Len(calls'[th])
      <3>1. i - 1 \in 1 .. Len(calls[th]) /\ calls'[th][i] = calls[th][i - 1]
        BY <1>4, <2>6
      <3>2. i - 1 < j - 1
        BY <1>1, <1>2, <2>2
      <3>3. QED
        BY <2>4, <3>1, <3>2 DEF CallsNest
    <2>7. QED
      BY <2>3, <2>5, <2>6
  <1>8. CallsNest'
    <2>1. SUFFICES ASSUME NEW o \in Threads
                   PROVE  /\ \A i \in 2 .. Len(calls'[o]) : calls'[o][i].pc = "base"
                          /\ \A i, j \in 1 .. Len(calls'[o]) :
                                i < j => Rank[calls'[o][i].type] < Rank[calls'[o][j].type]
      BY Zenon DEF CallsNest
    <2>2. CASE o = th
      BY <1>5, <1>7, <2>2, Zenon
    <2>3. CASE o # th
      <3>1. calls'[o] = calls[o]
        BY <1>2, <2>3
      <3>2. QED
        BY <3>1, Zenon DEF CallsNest
    <2>4. QED
      BY <2>2, <2>3
  <1>9. Held(calls'[th]) = Held(calls[th])
    BY <1>1, <1>2, <1>3 DEF Held
  <1>10. ASSUME NEW t \in Types, BuiltBy(t)
         PROVE  BuiltBy(t)'
    <2>a. PICK o \in Threads : \E i \in 1 .. Len(calls[o]) :
            calls[o][i].type = t /\ calls[o][i].pc \in Built
      BY <1>10 DEF BuiltBy
    <2>1. PICK i \in 1 .. Len(calls[o]) : calls[o][i].type = t /\ calls[o][i].pc \in Built
      BY <2>a
    <2>2. CASE o = th
      <3>1. i + 1 \in 1 .. Len(calls'[th]) /\ calls'[th][i + 1] = calls[th][i]
        BY <1>1, <1>2, <2>2
      <3>2. QED
        BY <2>1, <2>2, <3>1 DEF BuiltBy
    <2>3. CASE o # th
      BY <1>2, <2>1, <2>3 DEF BuiltBy
    <2>4. QED
      BY <2>2, <2>3
  <1>11. QED
    BY <1>8, <1>9, <1>10

(* A call that returns                                                     *)
LEMMA PoppedEffects ==
  ASSUME RegistryInv, CallsNest, NEW th \in Threads, calls[th] # <<>>, Popped(th),
         calls[th][1].pc = "cache"
  PROVE  /\ CallsNest'
         /\ Held(calls'[th]) = Held(calls[th])
         /\ \A t \in Types : BuiltBy(t) => BuiltBy(t)'
  <1>1. Len(calls[th]) \in Nat \ {0}
    BY HeadCall DEF RegistryInv
  <1>2. /\ Len(calls'[th]) = Len(calls[th]) - 1
        /\ \A i \in 1 .. Len(calls'[th]) :
             i + 1 \in 2 .. Len(calls[th]) /\ calls'[th][i] = calls[th][i + 1]
        /\ \A o \in Threads : o # th => calls'[o] = calls[o]
    BY <1>1 DEF Popped, Others
  <1>3. \A i \in 1 .. Len(calls'[th]) : calls'[th][i].pc = "base"
    BY <1>2 DEF CallsNest
  <1>4. \A i, j \in 1 .. Len(calls'[th]) :
          i < j => Rank[calls'[th][i].type] < Rank[calls'[th][j].type]
    <2>1. TAKE i, j \in 1 .. Len(calls'[th])
    <2>2. HAVE i < j
    <2>3. i + 1 \in 1 .. Len(calls[th]) /\ j + 1 \in 1 .. Len(calls[th]) /\ i + 1 < j + 1
      BY <1>1, <1>2, <2>2
    <2>4. QED
      BY <1>2, <2>3 DEF CallsNest
  <1>5. CallsNest'
    <2>1. \A i \in 2 .. Len(calls'[th]) : calls'[th][i].pc = "base"
      <3>1. \A i \in 2 .. Len(calls'[th]) : i \in 1 .. Len(calls'[th])
        BY <1>1, <1>2
      <3>2. QED
        BY <1>3, <3>1
    <2>2. ASSUME NEW o \in Threads
          PROVE  /\ \A i \in 2 .. Len(calls'[o]) : calls'[o][i].pc = "base"
                 /\ \A i, j \in 1 .. Len(calls'[o]) :
                      i < j => Rank[calls'[o][i].type] < Rank[calls'[o][j].type]
      <3>1. CASE o = th
        BY <1>4, <2>1, <3>1
      <3>2. CASE o # th
        BY <1>2, <3>2 DEF CallsNest
      <3>3. QED
        BY <3>1, <3>2
    <2>3. QED
      BY <2>2 DEF CallsNest
  <1>6. Held(calls'[th]) = Held(calls[th])
    <2>1. Held(calls[th]) = Len(calls[th]) - 1
      BY <1>1 DEF Held
    <2>2. Len(calls'[th]) # 0 => calls'[th][1].pc = "base"
      <3>1. Len(calls'[th]) \in Nat
        <4>1. Len(calls'[th]) = Len(calls[th]) - 1
          BY <1>2
        <4>2. QED
          BY <1>1, <4>1
      <3>2. Len(calls'[th]) # 0 => 1 \in 1 .. Len(calls'[th])
        BY <3>1
      <3>3. QED
        BY <1>3, <3>2
    <2>3. Held(calls'[th]) = Len(calls'[th])
      BY <1>1, <1>2, <2>2 DEF Held
    <2>4. QED
      BY <1>2, <2>1, <2>3
  <1>7. ASSUME NEW t \in Types, BuiltBy(t)
        PROVE  BuiltBy(t)'
    <2>1. PICK o \in Threads : \E i \in 1 .. Len(calls[o]) :
            calls[o][i].type = t /\ calls[o][i].pc \in Built
      BY <1>7 DEF BuiltBy
    <2>2. PICK i \in 1 .. Len(calls[o]) : calls[o][i].type = t /\ calls[o][i].pc \in Built
      BY <2>1
    <2>3. CASE o = th
      <3>1. i # 1
        BY <2>2, <2>3 DEF Built
      <3>2. i - 1 \in 1 .. Len(calls'[th]) /\ (i - 1) + 1 = i
        BY <1>1, <1>2, <2>3, <3>1
      <3>3. calls'[th][i - 1] = calls[th][(i - 1) + 1]
        BY <1>2, <3>2
      <3>4. QED
        BY <2>2, <2>3, <3>2, <3>3 DEF BuiltBy
    <2>4. CASE o # th
      BY <1>2, <2>2, <2>4 DEF BuiltBy
    <2>5. QED
      BY <2>3, <2>4
  <1>8. QED
    BY <1>5, <1>6, <1>7

(* Who is past "lock" in the call it is in has the lock.                   *)
LEMMA InsideOwns ==
  ASSUME BuildInv, NEW th \in Threads, NEW pc \in Inside, At(th, pc)
  PROVE  owner = th /\ depth = Len(calls[th]) /\ depth \in Nat \ {0}
  <1>1. Len(calls[th]) \in Nat \ {0} /\ calls[th][1].pc = pc
    BY HeadFrame, HeadCall DEF BuildInv, RegistryInv
  <1>2. pc \notin {"lock", "cache"}
    BY DEF Inside, Built
  <1>3. Held(calls[th]) = Len(calls[th])
    BY <1>1, <1>2 DEF Held
  <1>4. QED
    BY <1>1, <1>3 DEF BuildInv, LockCounts

(* Nobody else is building while a thread takes the lock, and the thread   *)
(* itself is not building the class it asks for.                           *)
LEMMA LockedIsUnbuilt ==
  ASSUME BuildInv, NEW th \in Threads, At(th, "lock"), owner \in {th, NULL}
  PROVE  ~BuiltBy(T(th))
  <1>1. SUFFICES ASSUME NEW o \in Threads, NEW i \in 1 .. Len(calls[o]),
                        calls[o][i].type = T(th), calls[o][i].pc \in Built
                 PROVE  FALSE
    BY DEF BuiltBy
  <1>2. RegistryInv /\ CallsNest /\ calls[th][1].pc = "lock" /\ T(th) = calls[th][1].type
    BY HeadFrame DEF BuildInv
  <1>3. Len(calls[o]) \in Nat /\ Len(calls[th]) \in Nat /\ calls[o][i].type \in Types
    BY <1>2, CallsTyped
  <1>4. Held(calls[o]) # 0
    <2>1. CASE i = 1
      BY <1>1, <1>3, <2>1 DEF Held, Built
    <2>2. CASE i # 1
      BY <1>3, <2>2 DEF Held
    <2>3. QED
      BY <2>1, <2>2
  <1>5. o = th
    BY <1>4, RegistryAssumption DEF BuildInv, LockCounts
  <1>6. i # 1
    BY <1>1, <1>2, <1>5 DEF Built
  <1>7. Rank[calls[th][1].type] < Rank[calls[th][i].type]
    BY <1>2, <1>3, <1>5, <1>6 DEF CallsNest
  <1>8. Rank[calls[o][i].type] \in Nat
    BY <1>3, RankDecreases
  <1>9. QED
    BY <1>1, <1>2, <1>5, <1>7, <1>8

(* MadeOnce when made and sharedM stay                                     *)
LEMMA MadeStays ==
  ASSUME MadeOnce, made' = made, Grows, RegistryInv',
         \A t \in Types : BuiltBy(t) => BuiltBy(t)' \/ sharedM'[t] # NULL
  PROVE  MadeOnce'
  BY DEF MadeOnce, Grows

(* LockCounts when the lock stays                                          *)
LEMMA LockStays ==
  ASSUME LockCounts, NEW th \in Threads, Others(th), UNCHANGED lockVars,
         Held(calls'[th]) = Held(calls[th])
  PROVE  LockCounts'
  <1>1. \A o \in Threads : Held(calls'[o]) = Held(calls[o])
    BY OthersHold
  <1>2. QED
    BY <1>1 DEF LockCounts, lockVars

(* The parts of the invariant but RegistryInv, which has its own lemmas    *)
Rest == LockCounts /\ CallsNest /\ MadeOnce

LEMMA AskKeepsRest ==
  ASSUME BuildInv, NEW th \in Threads, NEW t \in Types, Ask(th, t), RegistryInv'
  PROVE  Rest'
  <1>1. /\ calls[th] = <<>> /\ calls' = [calls EXCEPT ![th] = <<Enter(t)>>]
        /\ UNCHANGED <<sharedM, made, lockVars>> /\ RegistryInv /\ CallsNest
    BY DEF Ask, Idle, BuildInv
  <1>2. <<Enter(t)>> = <<Enter(t)>> \o calls[th] /\ Enter(t) \in Call /\ Enter(t).pc = "lock"
    BY <1>1, EnterTyped
  <1>3. Pushed(th, Enter(t))
    BY <1>1, <1>2, PushReplaces DEF RegistryInv
  <1>4. /\ CallsNest' /\ Held(calls'[th]) = Held(calls[th])
        /\ \A u \in Types : BuiltBy(u) => BuiltBy(u)'
    BY <1>1, <1>2, <1>3, PushedEffects
  <1>5. LockCounts'
    BY <1>1, <1>3, <1>4, LockStays DEF Pushed, BuildInv
  <1>6. MadeOnce'
    BY <1>1, <1>4, MadeStays DEF BuildInv, Grows
  <1>7. QED
    BY <1>4, <1>5, <1>6 DEF Rest

LEMMA CallBaseKeepsRest ==
  ASSUME BuildInv, NEW th \in Threads, CallBase(th), RegistryInv'
  PROVE  Rest'
  <1> DEFINE base == BaseOf[T(th)]
  <1>1. /\ At(th, "base") /\ base # NULL
        /\ calls' = [calls EXCEPT ![th] = <<Enter(base)>> \o calls[th]]
        /\ UNCHANGED <<sharedM, made, lockVars>> /\ RegistryInv /\ CallsNest
    BY DEF CallBase, BuildInv
  <1>2. calls[th][1].pc = "base" /\ T(th) = calls[th][1].type /\ T(th) \in Types
    BY <1>1, HeadFrame
  <1>3. base \in Types /\ Rank[base] < Rank[calls[th][1].type]
    BY <1>1, <1>2, RankDecreases
  <1>4. Enter(base) \in Call /\ Enter(base).pc = "lock" /\ Enter(base).type = base
    BY <1>3, EnterTyped
  <1>5. Pushed(th, Enter(base))
    BY <1>1, <1>4, PushReplaces DEF RegistryInv
  <1>6. /\ CallsNest' /\ Held(calls'[th]) = Held(calls[th])
        /\ \A u \in Types : BuiltBy(u) => BuiltBy(u)'
    BY <1>1, <1>2, <1>3, <1>4, <1>5, PushedEffects
  <1>7. LockCounts'
    BY <1>1, <1>5, <1>6, LockStays DEF Pushed, BuildInv
  <1>8. MadeOnce'
    BY <1>1, <1>6, MadeStays DEF BuildInv, Grows
  <1>9. QED
    BY <1>6, <1>7, <1>8 DEF Rest

LEMMA LockKeepsRest ==
  ASSUME BuildInv, NEW th \in Threads, Lock(th), RegistryInv'
  PROVE  Rest'
  <1>1. /\ At(th, "lock") /\ owner \in {th, NULL} /\ sharedM' = sharedM
        /\ owner' = th /\ depth' = depth + 1 /\ RegistryInv /\ CallsNest
    BY DEF Lock, BuildInv
  <1>2. /\ calls[th] # <<>> /\ calls[th][1].pc = "lock" /\ calls[th][1] \in Call
        /\ T(th) = calls[th][1].type /\ T(th) \in Types
    BY <1>1, HeadFrame
  <1>3. Len(calls[th]) \in Nat \ {0}
    BY <1>1, <1>2, HeadCall DEF RegistryInv
  <1>4. ASSUME NEW c \in Call, Replaced(th, c), c.pc \notin {"lock", "cache"},
               c.type = calls[th][1].type
        PROVE  CallsNest' /\ LockCounts' /\ \A t \in Types : BuiltBy(t) => BuiltBy(t)'
    <2>1. /\ CallsNest' /\ Held(calls'[th]) = Len(calls[th])
          /\ \A t \in Types : BuiltBy(t) => BuiltBy(t)'
      BY <1>1, <1>2, <1>4, ReplacedEffects DEF Built
    <2>2. Held(calls[th]) = Len(calls[th]) - 1
      BY <1>2, <1>3 DEF Held
    <2>3. Held(calls[th]) = depth /\ depth \in Nat
      BY <1>1, RegistryAssumption DEF BuildInv, LockCounts
    <2>4. \A o \in Threads \ {th} : Held(calls'[o]) = Held(calls[o]) /\ Held(calls[o]) = 0
      BY <1>1, <1>4, OthersHold, RegistryAssumption DEF Replaced, BuildInv, LockCounts
    <2>5. Held(calls'[th]) = depth'
      BY <1>1, <1>3, <2>1, <2>2, <2>3
    <2>6. depth' \in Nat /\ depth' # 0 /\ owner' # NULL
      BY <1>1, <2>3, RegistryAssumption
    <2>7. LockCounts'
      BY <1>1, <2>4, <2>5, <2>6 DEF LockCounts
    <2>8. QED
      BY <2>1, <2>7
  <1>5. CASE sharedM[T(th)] # NULL
    <2>1. Goto(th, "unlock") /\ made' = made
      BY <1>5 DEF Lock
    <2>2. Replaced(th, [calls[th][1] EXCEPT !.pc = "unlock"])
      BY <1>1, <1>2, <2>1, GotoReplaces DEF RegistryInv
    <2>3. CallsNest' /\ LockCounts' /\ \A t \in Types : BuiltBy(t) => BuiltBy(t)'
      BY <1>2, <1>4, <2>2, MovedFrame DEF PCs
    <2>4. MadeOnce'
      BY <1>1, <2>1, <2>3, MadeStays DEF BuildInv, Grows
    <2>5. QED
      BY <2>3, <2>4 DEF Rest
  <1>6. CASE sharedM[T(th)] = NULL
    <2>1. /\ made[T(th)] < MaxMade /\ made' = [made EXCEPT ![T(th)] = @ + 1]
          /\ Replaced(th, Created(th))
      BY <1>1, <1>6, LockCreates
    <2>2. Created(th) \in Call /\ Created(th).type = T(th) /\ Created(th).pc = "base"
      BY <1>1, <2>1, CreatedTyped
    <2>3. CallsNest' /\ LockCounts' /\ \A t \in Types : BuiltBy(t) => BuiltBy(t)'
      BY <1>2, <1>4, <2>1, <2>2
    <2>4. made[T(th)] = 0
      BY <1>1, <1>2, <1>6, LockedIsUnbuilt, MadeRange DEF BuildInv, MadeOnce
    <2>5. ASSUME NEW t \in Types, t = T(th)
          PROVE  BuiltBy(t)'
      <3>1. /\ 1 \in 1 .. Len(calls'[th]) /\ calls'[th][1].type = t
            /\ calls'[th][1].pc \in Built
        BY <1>3, <2>1, <2>2, <2>5 DEF Replaced, Built
      <3>2. QED
        BY <3>1 DEF BuiltBy
    <2>6. ASSUME NEW t \in Types
          PROVE  made'[t] <= 1 /\ (made'[t] = 1 /\ sharedM'[t] = NULL => BuiltBy(t)')
      <3>0. made \in [Types -> Nat]
        BY <1>1, MadeRange
      <3>1. CASE t = T(th)
        <4>1. made'[t] = 1
          BY <1>2, <2>1, <2>4, <3>0, <3>1
        <4>2. QED
          BY <2>5, <3>1, <4>1
      <3>2. CASE t # T(th)
        <4>1. made'[t] = made[t]
          BY <1>2, <2>1, <3>0, <3>2
        <4>2. QED
          BY <1>1, <2>3, <4>1 DEF BuildInv, MadeOnce
      <3>3. QED
        BY <3>1, <3>2
    <2>7. MadeOnce'
      BY <2>6 DEF MadeOnce
    <2>8. QED
      BY <2>3, <2>7 DEF Rest
  <1>7. QED
    BY <1>5, <1>6

(* From Lock to Unlock only the head of the stack moves.                   *)
LEMMA MoveKeepsRest ==
  ASSUME BuildInv, NEW th \in Threads, NEW pc \in Built, NEW to \in Inside,
         At(th, pc), Goto(th, to), UNCHANGED <<made, lockVars>>, Grows, RegistryInv',
         to \in Built \/ sharedM'[T(th)] # NULL
  PROVE  Rest'
  <1>1. RegistryInv /\ CallsNest /\ to \in PCs
    BY DEF BuildInv, Inside, Built, PCs
  <1>2. /\ calls[th] # <<>> /\ calls[th][1].pc = pc /\ calls[th][1] \in Call
        /\ T(th) = calls[th][1].type
    BY <1>1, HeadFrame
  <1>3. Len(calls[th]) \in Nat \ {0}
    BY <1>1, <1>2, HeadCall DEF RegistryInv
  <1> DEFINE c == [calls[th][1] EXCEPT !.pc = to]
  <1>4. c \in Call /\ c.pc = to /\ c.type = calls[th][1].type
    BY <1>1, <1>2, MovedFrame
  <1>5. Replaced(th, c)
    BY <1>1, <1>2, GotoReplaces DEF RegistryInv, PCs
  <1>6. /\ CallsNest'
        /\ Held(calls'[th]) = IF to \in {"lock", "cache"} THEN Len(calls[th]) - 1
                              ELSE Len(calls[th])
        /\ to \in Built => \A t \in Types : BuiltBy(t) => BuiltBy(t)'
    BY <1>1, <1>2, <1>4, <1>5, ReplacedEffects
  <1>7. Held(calls'[th]) = Held(calls[th])
    BY <1>2, <1>3, <1>6 DEF Held, Inside, Built
  <1>8. LockCounts'
    BY <1>5, <1>7, LockStays DEF Replaced, BuildInv
  <1>9. \A t \in Types : BuiltBy(t) => BuiltBy(t)' \/ sharedM'[t] # NULL
    <2>1. CASE to \in Built
      BY <1>6, <2>1
    <2>2. CASE sharedM'[T(th)] # NULL
      <3>1. SUFFICES ASSUME NEW t \in Types, BuiltBy(t), t # T(th)
                     PROVE  BuiltBy(t)'
        BY <2>2
      <3>2. PICK o \in Threads : \E i \in 1 .. Len(calls[o]) :
              calls[o][i].type = t /\ calls[o][i].pc \in Built
        BY <3>1 DEF BuiltBy
      <3>3. PICK i \in 1 .. Len(calls[o]) : calls[o][i].type = t /\ calls[o][i].pc \in Built
        BY <3>2
      <3>4. i \in 1 .. Len(calls'[o]) /\ calls'[o][i] = calls[o][i]
        <4>1. CASE o = th
          <5>1. i # 1
            BY <1>2, <3>1, <3>3, <4>1
          <5>2. i \in 2 .. Len(calls[th])
            BY <1>3, <4>1, <5>1
          <5>3. QED
            BY <1>3, <1>5, <4>1, <5>2 DEF Replaced
        <4>2. CASE o # th
          BY <1>5, <4>2 DEF Replaced, Others
        <4>3. QED
          BY <4>1, <4>2
      <3>5. QED
        BY <3>3, <3>4 DEF BuiltBy
    <2>3. QED
      BY <2>1, <2>2
  <1>10. MadeOnce'
    BY <1>9, MadeStays DEF BuildInv
  <1>11. QED
    BY <1>6, <1>8, <1>10 DEF Rest

LEMMA BuildingKeepsRest ==
  ASSUME BuildInv, NEW th \in Threads, RegistryInv',
         SetBase(th) \/ SetNext(th) \/ Push(th) \/ SetNativeId(th) \/ SetCreateWrapper(th)
  PROVE  Rest'
  <1>1. PICK pc \in Built, to \in Built :
          At(th, pc) /\ Goto(th, to) /\ UNCHANGED <<sharedM, made, lockVars>>
    BY DEF SetBase, SetNext, Push, SetNativeId, SetCreateWrapper, Set, Built
  <1>2. to \in Inside /\ Grows
    BY <1>1 DEF Inside, Grows
  <1>3. QED
    BY <1>1, <1>2, MoveKeepsRest

LEMMA ShareKeepsRest ==
  ASSUME BuildInv, NEW th \in Threads, Share(th), RegistryInv'
  PROVE  Rest'
  <1>1. /\ RegistryInv /\ At(th, "share") /\ Goto(th, "unlock")
        /\ UNCHANGED <<made, lockVars>>
    BY DEF Share, BuildInv
  <1>2. Grows /\ sharedM'[T(th)] # NULL
    BY <1>1, ShareFacts DEF RegistryInv, RegistryTypeOK
  <1>3. "share" \in Built /\ "unlock" \in Inside
    BY DEF Built, Inside
  <1>4. QED
    BY <1>1, <1>2, <1>3, MoveKeepsRest

LEMMA UnlockKeepsRest ==
  ASSUME BuildInv, NEW th \in Threads, Unlock(th), RegistryInv'
  PROVE  Rest'
  <1>1. /\ At(th, "unlock") /\ Goto(th, "cache") /\ UNCHANGED <<sharedM, made>>
        /\ depth' = depth - 1 /\ owner' = IF depth' = 0 THEN NULL ELSE th
        /\ RegistryInv /\ CallsNest
    BY DEF Unlock, BuildInv
  <1>2. /\ calls[th] # <<>> /\ calls[th][1].pc = "unlock" /\ calls[th][1] \in Call
    BY <1>1, HeadFrame
  <1>3. owner = th /\ depth = Len(calls[th]) /\ depth \in Nat \ {0}
    BY <1>1, InsideOwns DEF Inside
  <1> DEFINE c == [calls[th][1] EXCEPT !.pc = "cache"]
  <1>4. c \in Call /\ c.pc = "cache" /\ c.type = calls[th][1].type /\ "cache" \in PCs
    BY <1>2, MovedFrame DEF PCs
  <1>5. Replaced(th, c)
    BY <1>1, <1>2, <1>4, GotoReplaces DEF RegistryInv, PCs
  <1>6. /\ CallsNest' /\ Held(calls'[th]) = depth'
        /\ \A t \in Types : BuiltBy(t) => BuiltBy(t)'
    BY <1>1, <1>2, <1>3, <1>4, <1>5, ReplacedEffects DEF Built
  <1>7. \A o \in Threads \ {th} : Held(calls'[o]) = 0
    BY <1>3, <1>5, OthersHold DEF Replaced, BuildInv, LockCounts
  <1>8. depth' \in Nat /\ NULL # th
    BY <1>1, <1>3, RegistryAssumption
  <1>9. LockCounts'
    BY <1>1, <1>6, <1>7, <1>8 DEF LockCounts
  <1>10. MadeOnce'
    BY <1>1, <1>6, MadeStays DEF BuildInv, Grows
  <1>11. QED
    BY <1>6, <1>9, <1>10 DEF Rest

LEMMA CacheKeepsRest ==
  ASSUME BuildInv, NEW th \in Threads, Cache(th), RegistryInv'
  PROVE  Rest'
  <1>1. /\ At(th, "cache") /\ UNCHANGED <<sharedM, made, lockVars>> /\ RegistryInv /\ CallsNest
        /\ calls[th] # <<>> /\ calls[th][1].pc = "cache"
    BY HeadFrame DEF Cache, BuildInv
  <1>2. Popped(th)
    BY <1>1, CacheFacts
  <1>3. /\ CallsNest' /\ Held(calls'[th]) = Held(calls[th])
        /\ \A t \in Types : BuiltBy(t) => BuiltBy(t)'
    BY <1>1, <1>2, PoppedEffects
  <1>4. LockCounts'
    BY <1>1, <1>2, <1>3, LockStays DEF Popped, BuildInv
  <1>5. MadeOnce'
    BY <1>1, <1>3, MadeStays DEF BuildInv, Grows
  <1>6. QED
    BY <1>3, <1>4, <1>5 DEF Rest

LEMMA StillKeepsRest ==
  ASSUME BuildInv, Still
  PROVE  Rest'
  BY DEF BuildInv, Rest, Still, LockCounts, CallsNest, MadeOnce, BuiltBy

LEMMA InitEstablishesBuildInv == Init => BuildInv
  <1>1. SUFFICES ASSUME Init PROVE BuildInv
    OBVIOUS
  <1>2. Len(<<>>) = 0
    BY EmptySeq
  <1>3. \A th \in Threads : Len(calls[th]) = 0
    BY <1>1, <1>2 DEF Init
  <1>4. LockCounts
    BY <1>1, <1>3, RegistryAssumption DEF Init, LockCounts, Held
  <1>5. CallsNest
    BY <1>3 DEF CallsNest
  <1>6. MadeOnce
    BY <1>1 DEF Init, MadeOnce
  <1>7. QED
    BY <1>1, <1>4, <1>5, <1>6, InitEstablishesRegistryInv DEF BuildInv

LEMMA NextKeepsBuildInv ==
  ASSUME BuildInv, [Next]_vars
  PROVE  BuildInv'
  <1>1. RegistryInv'
    BY NextKeepsRegistryInv DEF BuildInv
  <1>2. ASSUME UNCHANGED vars PROVE Rest'
    BY <1>2, StillKeepsRest DEF vars, lockVars, Still
  <1>3. ASSUME NEW th \in Threads,
               \/ \E t \in Types : Ask(th, t) \/ \E native \in Types : getWrapper(th, t, native)
               \/ MetaStep(th) \/ SearchStep(th)
        PROVE  Rest'
    BY <1>1, <1>3, AskKeepsRest, LockKeepsRest, CallBaseKeepsRest, BuildingKeepsRest,
       ShareKeepsRest, UnlockKeepsRest, CacheKeepsRest, SearchIsStill, StillKeepsRest
    DEF MetaStep
  <1>4. Rest'
    BY <1>2, <1>3 DEF Next
  <1>5. QED
    BY <1>1, <1>4 DEF BuildInv, Rest

(* meta!T builds one meta-object for a type, however many threads ask for  *)
(* it, for its base and for its subclasses at the same time.               *)
THEOREM ClassesBuiltOnce == Spec => []OneMetaPerType
  <1>1. BuildInv => OneMetaPerType
    BY DEF BuildInv, MadeOnce, OneMetaPerType
  <1>2. QED
    BY InitEstablishesBuildInv, NextKeepsBuildInv, <1>1, PTL DEF Spec

-----------------------------------------------------------------------------
(* A class and its bases *)

UpwardClosed(S) == \A t \in S : BaseOf[t] # NULL => BaseOf[t] \in S

(* What every set contains that contains t and the base of each member     *)
Up(t) == {u \in Types : \A S \in SUBSET Types : t \in S /\ UpwardClosed(S) => u \in S}

(* A base is a class.                                                      *)
LEMMA BaseTyped ==
  ASSUME NEW t \in Types
  PROVE  NULL \notin Types /\ (BaseOf[t] # NULL => BaseOf[t] \in Types)
  BY RegistryAssumption

(* Every class is above itself, and what is above its base is above it.    *)
LEMMA UpContains ==
  ASSUME NEW t \in Types
  PROVE  /\ t \in Up(t) /\ UpwardClosed(Up(t))
         /\ BaseOf[t] # NULL => Up(BaseOf[t]) \subseteq Up(t)
  <1>1. t \in Up(t)
    BY DEF Up
  <1>2. UpwardClosed(Up(t))
    <2>1. SUFFICES ASSUME NEW u \in Up(t), BaseOf[u] # NULL
                   PROVE  BaseOf[u] \in Up(t)
      BY DEF UpwardClosed
    <2>2. u \in Types /\ BaseOf[u] \in Types
      BY <2>1, BaseTyped DEF Up
    <2>3. SUFFICES ASSUME NEW S \in SUBSET Types, t \in S, UpwardClosed(S)
                   PROVE  BaseOf[u] \in S
      BY <2>2 DEF Up
    <2>4. u \in S
      BY <2>3 DEF Up
    <2>5. QED
      BY <2>1, <2>3, <2>4 DEF UpwardClosed
  <1>3. ASSUME BaseOf[t] # NULL, NEW u \in Up(BaseOf[t])
        PROVE  u \in Up(t)
    <2>1. u \in Types
      BY DEF Up
    <2>2. SUFFICES ASSUME NEW S \in SUBSET Types, t \in S, UpwardClosed(S)
                   PROVE  u \in S
      BY <2>1 DEF Up
    <2>3. BaseOf[t] \in S
      BY <1>3, <2>2 DEF UpwardClosed
    <2>4. QED
      BY <2>2, <2>3 DEF Up
  <1>4. QED
    BY <1>1, <1>2, <1>3

(* Up is what Ancestors computes.                                          *)
LEMMA UpUnfolds ==
  ASSUME NEW t \in Types
  PROVE  Up(t) = {t} \cup IF BaseOf[t] = NULL THEN {} ELSE Up(BaseOf[t])
  <1> DEFINE A == {t} \cup IF BaseOf[t] = NULL THEN {} ELSE Up(BaseOf[t])
  <1>1. A \subseteq Up(t)
    BY UpContains
  <1>2. A \in SUBSET Types /\ t \in A
    BY DEF Up
  <1>3. UpwardClosed(A)
    <2>1. CASE BaseOf[t] = NULL
      BY <2>1 DEF UpwardClosed
    <2>2. CASE BaseOf[t] # NULL
      <3>1. BaseOf[t] \in Types
        BY <2>2, BaseTyped
      <3>2. BaseOf[t] \in Up(BaseOf[t]) /\ UpwardClosed(Up(BaseOf[t]))
        BY <3>1, UpContains
      <3>3. QED
        BY <2>2, <3>2 DEF UpwardClosed
    <2>3. QED
      BY <2>1, <2>2
  <1>4. Up(t) \subseteq A
    <2> HIDE DEF A
    <2> QED
      BY <1>2, <1>3 DEF Up
  <1>5. QED
    BY <1>1, <1>4

(* No class is left out by an argument along its bases.                    *)
LEMMA ForestInduction ==
  ASSUME NEW S, \A t \in Types : (BaseOf[t] # NULL => BaseOf[t] \in S) => t \in S
  PROVE  Types \subseteq S
  <1>1. SUFFICES ASSUME NEW bad \in Types, bad \notin S
                 PROVE  FALSE
    OBVIOUS
  <1> DEFINE R == {Rank[t] : t \in Types \ S}
  <1>2. R \in SUBSET Nat /\ R # {}
    BY <1>1, RankDecreases
  <1>3. PICK r \in R : \A q \in R : r <= q
    <2> HIDE DEF R
    <2> QED
      BY <1>2, LeastNat
  <1>4. PICK t \in Types \ S : r = Rank[t]
    BY <1>3
  <1>5. BaseOf[t] # NULL /\ BaseOf[t] \in Types \ S
    BY <1>4, BaseTyped
  <1>6. Rank[BaseOf[t]] < Rank[t] /\ Rank[BaseOf[t]] \in Nat /\ Rank[t] \in Nat
    BY <1>4, <1>5, RankDecreases
  <1>7. Rank[BaseOf[t]] \in R
    BY <1>5
  <1>8. QED
    <2> HIDE DEF R
    <2> QED
      BY <1>3, <1>4, <1>6, <1>7

(* Ancestors, defined by recursion, is the least set closed under bases.   *)
LEMMA AncestorsAre ==
  /\ Ancestors = [t \in Types |-> Up(t)]
  /\ \A t \in Types : Ancestors[t] = Up(t)
  <1> DEFINE Def(g) == [t \in Types |-> {t} \cup IF BaseOf[t] = NULL THEN {} ELSE g[BaseOf[t]]]
             up == [t \in Types |-> Up(t)]
  <1>1. up = Def(up)
    <2>1. SUFFICES ASSUME NEW t \in Types
                   PROVE  up[t] = {t} \cup IF BaseOf[t] = NULL THEN {} ELSE up[BaseOf[t]]
      BY Zenon
    <2>2. up[t] = Up(t) /\ (BaseOf[t] # NULL => up[BaseOf[t]] = Up(BaseOf[t]))
      BY BaseTyped
    <2> HIDE DEF up
    <2>3. QED
      BY <2>2, UpUnfolds
  <1>2. Ancestors = CHOOSE g : g = Def(g)
    BY DEF Ancestors
  <1>3. Ancestors = Def(Ancestors)
    <2> HIDE DEF Def, up
    <2> QED
      BY <1>1, <1>2
  <1> DEFINE S == {t \in Types : Ancestors[t] = Up(t)}
  <1>4. ASSUME NEW t \in Types, BaseOf[t] # NULL => BaseOf[t] \in S
        PROVE  t \in S
    <2>1. Ancestors[t] = {t} \cup IF BaseOf[t] = NULL THEN {} ELSE Ancestors[BaseOf[t]]
      BY <1>3
    <2>2. QED
      BY <1>4, <2>1, UpUnfolds
  <1>5. Types \subseteq S
    <2> HIDE DEF S
    <2> QED
      BY <1>4, ForestInduction
  <1>6. \A t \in Types : Ancestors[t] = Up(t)
    BY <1>5
  <1>7. Ancestors = [t \in Types |-> Ancestors[t]]
    <2> HIDE DEF up, S
    <2> QED
      BY <1>3
  <1>8. QED
    BY <1>6, <1>7

(* Above a class are itself and its bases.                                 *)
LEMMA AncestorFacts ==
  ASSUME NEW t \in Types
  PROVE  /\ Ancestors[t] \subseteq Types /\ t \in Ancestors[t]
         /\ UpwardClosed(Ancestors[t])
         /\ Ancestors[t] = {t} \cup IF BaseOf[t] = NULL THEN {} ELSE Ancestors[BaseOf[t]]
  <1>1. Ancestors[t] = Up(t) /\ (BaseOf[t] # NULL => Ancestors[BaseOf[t]] = Up(BaseOf[t]))
    BY AncestorsAre, BaseTyped
  <1>2. QED
    BY <1>1, UpContains, UpUnfolds DEF Up

(* What holds of a class and goes on to the base holds of all above it.    *)
LEMMA AllAbove ==
  ASSUME NEW t \in Types, NEW S, t \in S,
         \A u \in S : u \in Types /\ BaseOf[u] # NULL => BaseOf[u] \in S
  PROVE  Ancestors[t] \subseteq S
  <1>1. S \cap Types \in SUBSET Types /\ t \in S \cap Types
    OBVIOUS
  <1>2. UpwardClosed(S \cap Types)
    BY BaseTyped DEF UpwardClosed
  <1>3. Ancestors[t] = Up(t)
    BY AncestorsAre
  <1>4. QED
    BY <1>1, <1>2, <1>3 DEF Up

(* The ranks of the bases are lower.                                       *)
LEMMA AncestorRank ==
  ASSUME NEW t \in Types, NEW u \in Ancestors[t]
  PROVE  u = t \/ Rank[u] < Rank[t]
  <1> DEFINE S == {v \in Types : v = t \/ Rank[v] < Rank[t]}
  <1>1. ASSUME NEW v \in S, BaseOf[v] # NULL
        PROVE  BaseOf[v] \in S
    <2>1. BaseOf[v] \in Types /\ Rank[BaseOf[v]] < Rank[v] /\ Rank[BaseOf[v]] \in Nat
      BY <1>1, RankDecreases
    <2>2. Rank[v] \in Nat /\ Rank[t] \in Nat
      BY RankDecreases
    <2>3. QED
      BY <2>1, <2>2
  <1>2. t \in S
    OBVIOUS
  <1>3. Ancestors[t] \subseteq S
    <2> HIDE DEF S
    <2> QED
      BY <1>1, <1>2, AllAbove
  <1>4. QED
    BY <1>3

(* What is above a base is above the class.                                *)
LEMMA AncestorsNest ==
  ASSUME NEW t \in Types, NEW u \in Ancestors[t]
  PROVE  u \in Types /\ Ancestors[u] \subseteq Ancestors[t]
  <1>1. u \in Types /\ UpwardClosed(Ancestors[t])
    BY AncestorFacts
  <1>2. QED
    BY <1>1, AllAbove DEF UpwardClosed

(* Of two classes above a third one is above the other.                    *)
LEMMA AncestorsChain ==
  ASSUME NEW t \in Types, NEW u \in Ancestors[t], NEW v \in Ancestors[t]
  PROVE  u \in Ancestors[v] \/ v \in Ancestors[u]
  <1> DEFINE S == {w \in Types : u \in Ancestors[w] \/ w \in Ancestors[u]}
  <1>1. u \in Types
    BY AncestorsNest
  <1>2. ASSUME NEW w \in S, BaseOf[w] # NULL
        PROVE  BaseOf[w] \in S
    <2>1. w \in Types /\ BaseOf[w] \in Types
      BY <1>2, BaseTyped
    <2>2. CASE w \in Ancestors[u]
      BY <1>1, <1>2, <2>1, <2>2, AncestorFacts DEF UpwardClosed
    <2>3. CASE u \in Ancestors[w]
      <3>1. u = w \/ u \in Ancestors[BaseOf[w]]
        BY <1>2, <2>1, <2>3, AncestorFacts
      <3>2. w \in Ancestors[w]
        BY <2>1, AncestorFacts
      <3>3. QED
        BY <2>1, <2>2, <3>1, <3>2
    <2>4. QED
      BY <2>2, <2>3
  <1>3. t \in S
    OBVIOUS
  <1>4. Ancestors[t] \subseteq S
    <2> HIDE DEF S
    <2> QED
      BY <1>2, <1>3, AllAbove
  <1>5. QED
    BY <1>4

(* On the way from a class down to one below it lies just one subclass.    *)
LEMMA TowardBelow ==
  ASSUME NEW native \in Types, NEW t \in Ancestors[native], t # native
  PROVE  /\ t \in Types /\ Toward(t, native) \in Types
         /\ Toward(t, native) \in Ancestors[native]
         /\ BaseOf[Toward(t, native)] = t
         /\ \A c \in Ancestors[native] : BaseOf[c] = t => c = Toward(t, native)
  <1>1. t \in Types /\ Ancestors[native] \subseteq Types
    BY AncestorFacts
  <1>2. \E c \in Ancestors[native] : BaseOf[c] = t
    <2>1. SUFFICES ASSUME \A c \in Ancestors[native] : BaseOf[c] # t
                   PROVE  FALSE
      OBVIOUS
    <2> DEFINE S == Ancestors[native] \ {t}
    <2>2. ASSUME NEW u \in S, BaseOf[u] # NULL
          PROVE  BaseOf[u] \in S
      BY <2>1, <2>2, AncestorFacts DEF UpwardClosed
    <2>3. native \in S
      BY AncestorFacts
    <2>4. Ancestors[native] \subseteq S
      <3> HIDE DEF S
      <3> QED
        BY <2>2, <2>3, AllAbove
    <2>5. QED
      BY <2>4
  <1>3. ASSUME NEW c \in Ancestors[native], NEW e \in Ancestors[native],
               BaseOf[c] = t, BaseOf[e] = t, c \in Ancestors[e]
        PROVE  c = e
    <2>1. c \in Types /\ e \in Types /\ t # NULL
      BY <1>1, BaseTyped
    <2>2. c = e \/ c \in Ancestors[t]
      BY <1>3, <2>1, AncestorFacts
    <2>3. Rank[t] < Rank[c] /\ Rank[t] \in Nat /\ Rank[c] \in Nat
      BY <1>1, <1>3, <2>1, RankDecreases
    <2>4. c \in Ancestors[t] => c = t \/ Rank[c] < Rank[t]
      BY <1>1, AncestorRank
    <2>5. QED
      BY <2>2, <2>3, <2>4
  <1>4. \A c, e \in Ancestors[native] : BaseOf[c] = t /\ BaseOf[e] = t => c = e
    BY <1>3, AncestorsChain
  <1>5. Toward(t, native) \in Ancestors[native] /\ BaseOf[Toward(t, native)] = t
    BY <1>2 DEF Toward
  <1>6. QED
    BY <1>1, <1>4, <1>5

(* If a class above native is not above t, it is below t, on that way.     *)
LEMMA TowardAbove ==
  ASSUME NEW native \in Types, NEW t \in Ancestors[native], NEW b \in Ancestors[native],
         b \notin Ancestors[t]
  PROVE  t # native /\ Toward(t, native) \in Ancestors[b]
  <1>1. t # native
    OBVIOUS
  <1>2. b \in Types /\ t \in Types
    BY AncestorsNest
  <1>3. t \in Ancestors[b] /\ t # b
    BY <1>2, AncestorsChain, AncestorFacts
  <1>4. /\ Toward(t, b) \in Ancestors[b] /\ BaseOf[Toward(t, b)] = t
    BY <1>2, <1>3, TowardBelow
  <1>5. Toward(t, b) \in Ancestors[native]
    BY <1>4, AncestorsNest
  <1>6. Toward(t, b) = Toward(t, native)
    BY <1>1, <1>4, <1>5, TowardBelow
  <1>7. QED
    BY <1>1, <1>4, <1>6

-----------------------------------------------------------------------------
(* The invariant of the heap *)

MetaOf(t) == <<t, 1>>
Own(t)    == {NULL, MetaOf(t)}
MetaRefs  == {MetaOf(t) : t \in Types} \cup {NULL}

(* From Push on a meta-object is on the list of its base.                  *)
Reached == {"nativeId", "createWrapper", "share"}

(* References to a class lead to its only meta-object.                     *)
OwnMetas ==
  /\ \A t \in Types : sharedM[t] \in Own(t)
  /\ \A th \in Threads : \A t \in Types : m[th][t] \in Own(t)

(* What is shared was built, and its base before it.                       *)
SharedOK ==
  \A t \in Types : sharedM[t] # NULL =>
    /\ made[t] = 1
    /\ heap[MetaOf(t)].nativeId
    /\ BaseOf[t] # NULL => sharedM[BaseOf[t]] # NULL

(* What a call has written, by its place in the code                       *)
Place(c) ==
  /\ c.self \in Own(c.type)
  /\ c.pc \in Built => made[c.type] = 1 /\ sharedM[c.type] = NULL
  /\ c.pc \in {"base", "next"} => heap[MetaOf(c.type)].next = NULL
  /\ c.pc \in {"next", "push"} =>
       BaseOf[c.type] # NULL /\ heap[MetaOf(c.type)].base = MetaOf(BaseOf[c.type])
  /\ c.pc = "push" =>
       heap[MetaOf(c.type)].next = heap[MetaOf(BaseOf[c.type])].firstDerived
  /\ c.pc \in {"createWrapper", "share"} => heap[MetaOf(c.type)].nativeId

Placed == \A th \in Threads : \A i \in 1 .. Len(calls[th]) : Place(calls[th][i])

HeapTyped ==
  /\ heap \in [Metas -> Meta]
  /\ \A t \in Types : /\ heap[MetaOf(t)].firstDerived \in MetaRefs
                      /\ heap[MetaOf(t)].next \in MetaRefs
                      /\ made[t] = 0 => heap[MetaOf(t)].next = NULL

LinkedBy(t, th) ==
  \E i \in 1 .. Len(calls[th]) : calls[th][i].type = t /\ calls[th][i].pc \in Reached

Linked(t) == sharedM[t] # NULL \/ \E th \in Threads : LinkedBy(t, th)

Subclasses(t) == {u \in Types : BaseOf[u] = t /\ Linked(u)}

(* The meta-objects derived from t's, in a heap h, are those of S, in the  *)
(* order of L.                                                             *)
Node(L, i) == IF i \in 1 .. Len(L) THEN MetaOf(L[i]) ELSE NULL

IsList(t, L, h, S) ==
  /\ L \in Seq(Types)
  /\ \A i, j \in 1 .. Len(L) : L[i] = L[j] => i = j
  /\ {L[i] : i \in 1 .. Len(L)} = S
  /\ h[MetaOf(t)].firstDerived = Node(L, 1)
  /\ \A i \in 1 .. Len(L) : h[MetaOf(L[i])].next = Node(L, i + 1)

HasLists == \A t \in Types : \E L \in Seq(Types) : IsList(t, L, heap, Subclasses(t))

(* Who follows next from mo comes to x.                                    *)
Closed(S, h) == \A x \in S : h[x].next # NULL => h[x].next \in S

Ahead(mo, x, h) ==
  mo # NULL /\ \A S \in SUBSET Metas : mo \in S /\ Closed(S, h) => x \in S

(* A search that is above the closest class has the way down before it.    *)
SearchOK(s) ==
  /\ s.this \in MetaRefs /\ s.this[1] \in Ancestors[s.native]
  /\ s.mo \in MetaRefs
  /\ sharedM[s.best] # NULL /\ s.best \in Ancestors[s.native]
  /\ s.pc = "create" => s.best \in Ancestors[s.this[1]]
  /\ s.pc # "create" => s.this[1] # s.native
  /\ s.pc = "loop" /\ s.best \notin Ancestors[s.this[1]] =>
       Ahead(s.mo, MetaOf(Toward(s.this[1], s.native)), heap)

SearchesOK ==
  /\ search \in [Threads -> Search \cup {NULL}]
  /\ \A th \in Threads : search[th] # NULL => SearchOK(search[th])

HeapInv == OwnMetas /\ SharedOK /\ Placed /\ HeapTyped /\ HasLists

MetaInv == BuildInv /\ HeapInv /\ SearchesOK

-----------------------------------------------------------------------------
(* Meta-objects *)

(* A class and its meta-object determine each other.                       *)
LEMMA MetaOfFacts ==
  /\ \A t \in Types : MetaOf(t) \in Metas /\ MetaOf(t) # NULL /\ MetaOf(t)[1] = t
  /\ \A t, u : MetaOf(t) = MetaOf(u) => t = u
  /\ NULL \notin Types /\ NULL \notin Metas
  /\ MetaRefs \subseteq Ref
  /\ \A x \in MetaRefs : x # NULL => x[1] \in Types /\ x = MetaOf(x[1])
  <1>1. 1 \in 1 .. MaxMade
    BY DEF MaxMade
  <1>2. NULL \notin Types /\ NULL \notin Metas
    BY RegistryAssumption
  <1>3. \A t \in Types : MetaOf(t) \in Metas /\ MetaOf(t) # NULL /\ MetaOf(t)[1] = t
    BY <1>1, <1>2 DEF MetaOf, Metas
  <1>4. \A t, u : MetaOf(t) = MetaOf(u) => t = u
    BY DEF MetaOf
  <1>5. QED
    BY <1>2, <1>3, <1>4 DEF MetaRefs, Ref

Fields == {"base", "next", "firstDerived", "nativeId", "createWrapper"}

(* At most the field of the meta-object x is written. *)
Only(x, field) ==
  /\ heap' \in [Metas -> Meta]
  /\ \A y \in Metas : \A f \in Fields : y # x \/ f # field => heap'[y][f] = heap[y][f]

(* An assignment to a field of the right type writes only that.            *)
LEMMA Writes ==
  ASSUME heap \in [Metas -> Meta], NEW x \in Metas, NEW field \in Fields, NEW value,
         \/ field \in {"base", "next", "firstDerived"} /\ value \in Ref
         \/ field \in {"nativeId", "createWrapper"} /\ value = TRUE,
         heap' = [heap EXCEPT ![x][field] = value]
  PROVE  Only(x, field) /\ heap'[x][field] = value
  <1>1. heap[x] \in Meta /\ DOMAIN heap[x] = Fields
    BY DEF Meta, Fields
  <1>2. [heap[x] EXCEPT ![field] = value] \in Meta
    BY <1>1 DEF Meta, Fields
  <1>3. heap' = [heap EXCEPT ![x] = [heap[x] EXCEPT ![field] = value]]
    OBVIOUS
  <1>4. heap' \in [Metas -> Meta]
    BY <1>2, <1>3
  <1>5. heap'[x] = [heap[x] EXCEPT ![field] = value]
    BY <1>3
  <1>6. \A f \in Fields : heap'[x][f] = IF f = field THEN value ELSE heap[x][f]
    BY <1>1, <1>5
  <1>7. \A y \in Metas : y # x => heap'[y] = heap[y]
    BY <1>3
  <1>8. QED
    BY <1>4, <1>6, <1>7 DEF Only

-----------------------------------------------------------------------------
(* Calls *)

(* Nobody but the holder of the lock is building, and what its other calls *)
(* build are other classes, which wait for their bases.                    *)
LEMMA LoneBuilder ==
  ASSUME BuildInv, NEW th \in Threads, NEW pc \in Inside, At(th, pc),
         NEW o \in Threads, NEW i \in 1 .. Len(calls[o]), ~(o = th /\ i = 1)
  PROVE  /\ calls[o][i].pc \in {"lock", "base", "cache"}
         /\ calls[o][i].pc \in Built => calls[o][i].type # T(th)
  <1>1. RegistryInv /\ CallsNest /\ LockCounts
    BY DEF BuildInv
  <1>2. /\ Len(calls[o]) \in Nat /\ calls[o][i].type \in Types
        /\ Len(calls[th]) \in Nat \ {0} /\ T(th) = calls[th][1].type /\ T(th) \in Types
    BY <1>1, CallsTyped, HeadFrame, HeadCall DEF RegistryInv
  <1>3. CASE o = th
    <2>1. i \in 2 .. Len(calls[th])
      BY <1>2, <1>3
    <2>2. calls[th][i].pc = "base" /\ Rank[calls[th][1].type] < Rank[calls[th][i].type]
      BY <1>1, <1>2, <1>3, <2>1 DEF CallsNest
    <2>3. Rank[T(th)] \in Nat
      BY <1>2, RankDecreases
    <2>4. QED
      BY <1>2, <1>3, <2>2, <2>3
  <1>4. CASE o # th
    <2>1. owner = th
      BY InsideOwns
    <2>2. Held(calls[o]) = 0
      BY <1>1, <1>4, <2>1 DEF LockCounts
    <2>3. calls[o][1].pc \in {"lock", "cache"} /\ i = 1
      BY <1>2, <2>2 DEF Held
    <2>4. QED
      BY <2>3 DEF Built
  <1>5. QED
    BY <1>3, <1>4

(* The calls after the head of a stack changed, by index                   *)
LEMMA ReplacedCalls ==
  ASSUME RegistryInv, NEW th \in Threads, NEW c, Replaced(th, c),
         NEW o \in Threads, NEW i \in 1 .. Len(calls'[o])
  PROVE  \/ o = th /\ i = 1 /\ calls'[o][i] = c
         \/ i \in 1 .. Len(calls[o]) /\ calls'[o][i] = calls[o][i] /\ ~(o = th /\ i = 1)
  BY CallsTyped DEF Replaced, Others

(* The calls after one was pushed                                          *)
LEMMA PushedCalls ==
  ASSUME RegistryInv, NEW th \in Threads, NEW c, Pushed(th, c),
         NEW o \in Threads, NEW i \in 1 .. Len(calls'[o])
  PROVE  \/ o = th /\ i = 1 /\ calls'[o][i] = c
         \/ \E j \in 1 .. Len(calls[o]) : calls'[o][i] = calls[o][j]
  <1>1. Len(calls[o]) \in Nat
    BY CallsTyped
  <1>2. CASE o = th /\ i # 1
    <2>1. i - 1 \in 1 .. Len(calls[o]) /\ (i - 1) + 1 = i
      BY <1>1, <1>2 DEF Pushed
    <2>2. QED
      BY <1>2, <2>1 DEF Pushed
  <1>3. CASE o # th
    BY <1>3 DEF Pushed, Others
  <1>4. QED
    BY <1>2, <1>3 DEF Pushed

(* The calls after one was popped                                          *)
LEMMA PoppedCalls ==
  ASSUME RegistryInv, NEW th \in Threads, Popped(th),
         NEW o \in Threads, NEW i \in 1 .. Len(calls'[o])
  PROVE  \E j \in 1 .. Len(calls[o]) : calls'[o][i] = calls[o][j] /\ (o = th => j = i + 1)
  <1>1. Len(calls[o]) \in Nat
    BY CallsTyped
  <1>2. CASE o = th
    <2>1. i \in 1 .. Len(calls[o]) - 1 /\ i + 1 \in 1 .. Len(calls[o])
      BY <1>1, <1>2 DEF Popped
    <2>2. QED
      BY <1>2, <2>1 DEF Popped
  <1>3. CASE o # th
    BY <1>3 DEF Popped, Others
  <1>4. QED
    BY <1>2, <1>3

(* What is on the lists of derived meta-objects stays the same unless the  *)
(* head of a stack gets there.                                             *)
LEMMA ReplacedLinks ==
  ASSUME RegistryInv, NEW th \in Threads, calls[th] # <<>>, NEW c, Replaced(th, c),
         c.type = calls[th][1].type, NEW u,
         u = c.type => (c.pc \in Reached <=> calls[th][1].pc \in Reached),
         NEW o \in Threads
  PROVE  LinkedBy(u, o)' <=> LinkedBy(u, o)
  <1>1. Len(calls[th]) \in Nat \ {0}
    BY HeadCall DEF RegistryInv
  <1>2. CASE o = th
    <2>1. \A i \in 1 .. Len(calls[th]) :
            calls'[th][i].type = u /\ calls'[th][i].pc \in Reached <=>
              calls[th][i].type = u /\ calls[th][i].pc \in Reached
      <3>1. SUFFICES ASSUME NEW i \in 1 .. Len(calls[th])
                     PROVE  calls'[th][i].type = u /\ calls'[th][i].pc \in Reached <=>
                              calls[th][i].type = u /\ calls[th][i].pc \in Reached
        OBVIOUS
      <3>2. i = 1 \/ i \in 2 .. Len(calls[th])
        BY <1>1
      <3>3. QED
        BY <3>2 DEF Replaced
    <2>2. Len(calls'[th]) = Len(calls[th])
      BY DEF Replaced
    <2>3. QED
      BY <1>2, <2>1, <2>2 DEF LinkedBy
  <1>3. CASE o # th
    BY <1>3 DEF Replaced, Others, LinkedBy
  <1>4. QED
    BY <1>2, <1>3

LEMMA PushedLinks ==
  ASSUME RegistryInv, NEW th \in Threads, NEW c, Pushed(th, c), c.pc = "lock",
         NEW u, NEW o \in Threads
  PROVE  LinkedBy(u, o)' <=> LinkedBy(u, o)
  <1>1. Len(calls[th]) \in Nat
    BY CallsTyped
  <1>2. CASE o = th
    <2>1. ASSUME NEW i \in 1 .. Len(calls'[th]), calls'[th][i].type = u, calls'[th][i].pc \in Reached
          PROVE  LinkedBy(u, th)
      <3>1. i # 1
        BY <2>1 DEF Pushed, Reached
      <3>2. i - 1 \in 1 .. Len(calls[th]) /\ (i - 1) + 1 = i
        BY <1>1, <3>1 DEF Pushed
      <3>3. calls'[th][i] = calls[th][i - 1]
        BY <3>2 DEF Pushed
      <3>4. QED
        BY <2>1, <3>2, <3>3 DEF LinkedBy
    <2>2. ASSUME NEW i \in 1 .. Len(calls[th]), calls[th][i].type = u, calls[th][i].pc \in Reached
          PROVE  LinkedBy(u, th)'
      <3>1. i + 1 \in 1 .. Len(calls'[th]) /\ calls'[th][i + 1] = calls[th][i]
        BY <1>1 DEF Pushed
      <3>2. QED
        BY <2>2, <3>1 DEF LinkedBy
    <2>3. QED
      BY <1>2, <2>1, <2>2 DEF LinkedBy
  <1>3. CASE o # th
    BY <1>3 DEF Pushed, Others, LinkedBy
  <1>4. QED
    BY <1>2, <1>3

LEMMA PoppedLinks ==
  ASSUME RegistryInv, NEW th \in Threads, calls[th] # <<>>, Popped(th),
         calls[th][1].pc \notin Reached, NEW u, NEW o \in Threads
  PROVE  LinkedBy(u, o)' <=> LinkedBy(u, o)
  <1>1. Len(calls[th]) \in Nat \ {0}
    BY HeadCall DEF RegistryInv
  <1>2. CASE o = th
    <2>1. ASSUME NEW i \in 1 .. Len(calls'[th]), calls'[th][i].type = u, calls'[th][i].pc \in Reached
          PROVE  LinkedBy(u, th)
      BY <2>1, PoppedCalls DEF LinkedBy
    <2>2. ASSUME NEW i \in 1 .. Len(calls[th]), calls[th][i].type = u, calls[th][i].pc \in Reached
          PROVE  LinkedBy(u, th)'
      <3>1. i # 1
        BY <2>2
      <3>2. i - 1 \in 1 .. Len(calls[th]) - 1 /\ (i - 1) + 1 = i
        BY <1>1, <3>1
      <3>3. i - 1 \in 1 .. Len(calls'[th]) /\ calls'[th][i - 1] = calls[th][i]
        BY <3>2 DEF Popped
      <3>4. QED
        BY <2>2, <3>3 DEF LinkedBy
    <2>3. QED
      BY <1>2, <2>1, <2>2 DEF LinkedBy
  <1>3. CASE o # th
    BY <1>3 DEF Popped, Others, LinkedBy
  <1>4. QED
    BY <1>2, <1>3

(* Steps that only move calls keep the heap's invariant.                   *)
LEMMA HeapStays ==
  ASSUME HeapInv, UNCHANGED <<sharedM, made, heap>>,
         \A th \in Threads : \A t \in Types : m'[th][t] \in Own(t),
         \A o \in Threads : \A i \in 1 .. Len(calls'[o]) :
           \/ Place(calls'[o][i])
           \/ \E j \in 1 .. Len(calls[o]) : calls'[o][i] = calls[o][j],
         \A u \in Types : BaseOf[u] # NULL => (Linked(u)' <=> Linked(u))
  PROVE  HeapInv'
  <1>1. OwnMetas' /\ SharedOK' /\ HeapTyped'
    BY DEF HeapInv, OwnMetas, SharedOK, HeapTyped
  <1>2. Placed'
    <2>1. SUFFICES ASSUME NEW o \in Threads, NEW i \in 1 .. Len(calls'[o])
                   PROVE  Place(calls[o][i])'
      BY DEF Placed
    <2>2. Place(calls'[o][i])
      BY DEF HeapInv, Placed
    <2>3. QED
      BY <2>2 DEF Place
  <1>3. HasLists'
    <2>1. SUFFICES ASSUME NEW t \in Types
                   PROVE  \E L \in Seq(Types) : IsList(t, L, heap, Subclasses(t))'
      BY DEF HasLists
    <2>2. Subclasses(t)' = Subclasses(t)
      BY MetaOfFacts DEF Subclasses
    <2>3. QED
      BY <2>2 DEF HeapInv, HasLists, IsList
  <1>4. QED
    BY <1>1, <1>2, <1>3 DEF HeapInv

(* A new call has written nothing.                                         *)
LEMMA PushedStays ==
  ASSUME BuildInv, HeapInv, NEW th \in Threads, NEW t \in Types, Pushed(th, Enter(t)),
         UNCHANGED <<sharedM, m, made, heap>>
  PROVE  HeapInv'
  <1>1. RegistryInv /\ Enter(t).pc = "lock" /\ Enter(t).self = NULL
    BY DEF BuildInv, Enter
  <1>2. Place(Enter(t))
    BY <1>1 DEF Place, Own, Built
  <1>3. ASSUME NEW o \in Threads, NEW i \in 1 .. Len(calls'[o])
        PROVE  \/ Place(calls'[o][i])
               \/ \E j \in 1 .. Len(calls[o]) : calls'[o][i] = calls[o][j]
    BY <1>1, <1>2, PushedCalls
  <1>4. \A u \in Types : Linked(u)' <=> Linked(u)
    BY <1>1, PushedLinks DEF Linked
  <1>5. \A o \in Threads : \A u \in Types : m'[o][u] \in Own(u)
    BY DEF HeapInv, OwnMetas
  <1>6. QED
    BY <1>3, <1>4, <1>5, HeapStays

(* A call that only moves on keeps the heap's invariant if it is where     *)
(* it should be.                                                           *)
LEMMA GotoStays ==
  ASSUME BuildInv, HeapInv, NEW th \in Threads, NEW pc \in PCs, NEW to \in PCs,
         At(th, pc), Goto(th, to), UNCHANGED <<sharedM, m, made, heap>>,
         Place([calls[th][1] EXCEPT !.pc = to]),
         BaseOf[T(th)] = NULL \/ (to \in Reached <=> pc \in Reached)
  PROVE  HeapInv'
  <1> DEFINE c == [calls[th][1] EXCEPT !.pc = to]
  <1>1. /\ RegistryInv /\ calls[th] # <<>> /\ calls[th][1] \in Call /\ calls[th][1].pc = pc
        /\ T(th) = calls[th][1].type
    BY HeadFrame DEF BuildInv
  <1>2. c.pc = to /\ c.type = calls[th][1].type
    BY <1>1, MovedFrame
  <1>3. Replaced(th, c)
    BY <1>1, GotoReplaces DEF RegistryInv, PCs
  <1>4. ASSUME NEW o \in Threads, NEW i \in 1 .. Len(calls'[o])
        PROVE  \/ Place(calls'[o][i])
               \/ \E j \in 1 .. Len(calls[o]) : calls'[o][i] = calls[o][j]
    BY <1>1, <1>3, ReplacedCalls
  <1>5. \A u \in Types : BaseOf[u] # NULL => (Linked(u)' <=> Linked(u))
    <2>1. SUFFICES ASSUME NEW u \in Types, BaseOf[u] # NULL
                   PROVE  \A o \in Threads : LinkedBy(u, o)' <=> LinkedBy(u, o)
      BY DEF Linked
    <2> HIDE DEF c
    <2>2. QED
      BY <1>1, <1>2, <1>3, <2>1, ReplacedLinks
  <1>6. \A o \in Threads : \A u \in Types : m'[o][u] \in Own(u)
    BY DEF HeapInv, OwnMetas
  <1>7. QED
    BY <1>4, <1>5, <1>6, HeapStays

(* The head of a stack is where it should be.                              *)
LEMMA HeadPlace ==
  ASSUME BuildInv, HeapInv, NEW th \in Threads, NEW pc, At(th, pc)
  PROVE  /\ calls[th] # <<>> /\ calls[th][1] \in Call /\ calls[th][1].pc = pc
         /\ T(th) = calls[th][1].type /\ T(th) \in Types /\ Self(th) = calls[th][1].self
         /\ Place(calls[th][1])
         /\ pc \in Built => Self(th) = MetaOf(T(th))
  <1>1. RegistryInv
    BY DEF BuildInv
  <1>2. /\ calls[th] # <<>> /\ calls[th][1] \in Call /\ calls[th][1].pc = pc
        /\ T(th) = calls[th][1].type /\ T(th) \in Types /\ Self(th) = calls[th][1].self
        /\ FrameOK(calls[th][1], sharedM)
    BY <1>1, HeadFrame
  <1>3. Place(calls[th][1])
    BY <1>1, <1>2, HeadCall DEF HeapInv, Placed, RegistryInv
  <1>4. QED
    BY <1>2, <1>3 DEF Place, FrameOK, Own

(* Steps that write nothing to the heap, one by one                        *)
LEMMA AskKeepsHeap ==
  ASSUME BuildInv, HeapInv, NEW th \in Threads, NEW t \in Types, Ask(th, t)
  PROVE  HeapInv'
  <1>1. calls[th] = <<>> /\ calls' = [calls EXCEPT ![th] = <<Enter(t)>>]
    BY DEF Ask, Idle
  <1>2. <<Enter(t)>> = <<Enter(t)>> \o calls[th] /\ Enter(t) \in Call
    BY <1>1, EnterTyped
  <1>3. Pushed(th, Enter(t))
    BY <1>1, <1>2, PushReplaces DEF BuildInv, RegistryInv
  <1>4. QED
    BY <1>3, PushedStays DEF Ask

LEMMA CallBaseKeepsHeap ==
  ASSUME BuildInv, HeapInv, NEW th \in Threads, CallBase(th)
  PROVE  HeapInv'
  <1>1. /\ BaseOf[T(th)] \in Types
        /\ calls' = [calls EXCEPT ![th] = <<Enter(BaseOf[T(th)])>> \o calls[th]]
    BY HeadFrame, BaseTyped DEF CallBase, BuildInv
  <1>2. Pushed(th, Enter(BaseOf[T(th)]))
    BY <1>1, EnterTyped, PushReplaces DEF BuildInv, RegistryInv
  <1>3. QED
    BY <1>1, <1>2, PushedStays DEF CallBase

LEMMA UnlockKeepsHeap ==
  ASSUME BuildInv, HeapInv, NEW th \in Threads, Unlock(th)
  PROVE  HeapInv'
  <1>1. /\ At(th, "unlock") /\ Goto(th, "cache") /\ UNCHANGED <<sharedM, m, made, heap>>
        /\ "unlock" \in PCs /\ "cache" \in PCs
    BY DEF Unlock, PCs
  <1>2. calls[th][1] \in Call /\ Place(calls[th][1])
    BY <1>1, HeadPlace
  <1>3. Place([calls[th][1] EXCEPT !.pc = "cache"])
    BY <1>1, <1>2, MovedFrame DEF Place, Built
  <1>4. QED
    BY <1>1, <1>3, GotoStays DEF Reached

LEMMA CacheKeepsHeap ==
  ASSUME BuildInv, HeapInv, NEW th \in Threads, Cache(th)
  PROVE  HeapInv'
  <1>1. /\ RegistryInv /\ At(th, "cache") /\ UNCHANGED <<sharedM, made, heap>>
        /\ calls[th] # <<>> /\ calls[th][1].pc = "cache"
    BY HeadPlace DEF Cache, BuildInv
  <1>2. Popped(th)
    BY <1>1, CacheFacts
  <1>3. ASSUME NEW o \in Threads, NEW i \in 1 .. Len(calls'[o])
        PROVE  \E j \in 1 .. Len(calls[o]) : calls'[o][i] = calls[o][j]
    BY <1>1, <1>2, PoppedCalls
  <1>4. \A u \in Types : Linked(u)' <=> Linked(u)
    BY <1>1, <1>2, PoppedLinks DEF Linked, Reached
  <1>5. \A o \in Threads : \A u \in Types : m'[o][u] \in Own(u)
    BY <1>1, CacheFacts DEF HeapInv, OwnMetas
  <1>6. QED
    BY <1>1, <1>3, <1>4, <1>5, HeapStays

LEMMA LockKeepsHeap ==
  ASSUME BuildInv, HeapInv, NEW th \in Threads, Lock(th)
  PROVE  HeapInv'
  <1>1. /\ At(th, "lock") /\ owner \in {th, NULL} /\ UNCHANGED <<sharedM, m, heap>>
        /\ "lock" \in PCs /\ "unlock" \in PCs /\ RegistryInv
    BY DEF Lock, PCs, BuildInv
  <1>2. calls[th][1] \in Call /\ Place(calls[th][1]) /\ T(th) = calls[th][1].type
        /\ T(th) \in Types /\ calls[th] # <<>> /\ calls[th][1].pc = "lock"
    BY <1>1, HeadPlace
  <1>3. CASE sharedM[T(th)] # NULL
    <2>1. Goto(th, "unlock") /\ made' = made
      BY <1>3 DEF Lock
    <2>2. Place([calls[th][1] EXCEPT !.pc = "unlock"])
      BY <1>1, <1>2, MovedFrame DEF Place, Built
    <2>3. QED
      BY <1>1, <2>1, <2>2, GotoStays DEF Reached
  <1>4. CASE sharedM[T(th)] = NULL
    <2> DEFINE c == Created(th)
    <2>1. /\ made[T(th)] < MaxMade /\ made' = [made EXCEPT ![T(th)] = @ + 1] /\ Replaced(th, c)
      BY <1>1, <1>4, LockCreates
    <2>2. ~BuiltBy(T(th))
      BY <1>1, LockedIsUnbuilt
    <2>3. made[T(th)] = 0
      BY <1>1, <1>2, <1>4, <2>2, MadeRange DEF BuildInv, MadeOnce
    <2>4. \A t \in Types : made'[t] = IF t = T(th) THEN 1 ELSE made[t]
      BY <1>1, <1>2, <2>1, <2>3, MadeRange
    <2>5. c.self = MetaOf(T(th)) /\ c.type = T(th) /\ c.pc = "base"
      BY <1>2, <2>3 DEF Created, MetaOf, Call
    <2>6. OwnMetas' /\ SharedOK' /\ HeapTyped'
      BY <1>1, <1>4, <2>4 DEF HeapInv, OwnMetas, SharedOK, HeapTyped
    <2>7. Placed'
      <3>1. SUFFICES ASSUME NEW o \in Threads, NEW i \in 1 .. Len(calls'[o])
                     PROVE  Place(calls[o][i])'
        BY DEF Placed
      <3>2. CASE calls'[o][i] = c
        <4>1. heap[MetaOf(T(th))].next = NULL
          BY <1>2, <2>3 DEF HeapInv, HeapTyped
        <4> HIDE DEF c
        <4>2. QED
          BY <1>1, <1>2, <1>4, <2>4, <2>5, <3>2, <4>1 DEF Place, Own
      <3>3. CASE calls'[o][i] # c
        <4>1. i \in 1 .. Len(calls[o]) /\ calls'[o][i] = calls[o][i]
          BY <1>1, <2>1, <3>3, ReplacedCalls
        <4>2. Place(calls[o][i]) /\ calls[o][i].type \in Types
          BY <1>1, <4>1, CallsTyped DEF HeapInv, Placed
        <4>3. calls[o][i].pc \in Built => calls[o][i].type # T(th)
          BY <2>2, <4>1 DEF BuiltBy
        <4>4. QED
          BY <1>1, <2>4, <4>1, <4>2, <4>3 DEF Place
      <3>4. QED
        BY <3>2, <3>3
    <2>8. \A u \in Types : Linked(u)' <=> Linked(u)
      <3> HIDE DEF c
      <3>1. \A u \in Types, o \in Threads : LinkedBy(u, o)' <=> LinkedBy(u, o)
        BY <1>1, <1>2, <2>1, <2>5, ReplacedLinks DEF Reached
      <3>2. QED
        BY <1>1, <3>1 DEF Linked
    <2>9. \A t \in Types : Subclasses(t)' = Subclasses(t)
      BY <2>8 DEF Subclasses
    <2>10. HasLists'
      BY <1>1, <2>9 DEF HeapInv, HasLists, IsList
    <2>11. QED
      BY <2>6, <2>7, <2>10 DEF HeapInv
  <1>5. QED
    BY <1>3, <1>4

-----------------------------------------------------------------------------
(* Writing to the meta-object under construction *)

Moved(th, to) == [calls[th][1] EXCEPT !.pc = to]

(* What a call that builds knows before and after it moves on              *)
LEMMA MovedFacts ==
  ASSUME BuildInv, HeapInv, NEW th \in Threads, NEW pc \in Built, At(th, pc),
         NEW to \in PCs, Goto(th, to)
  PROVE  /\ Replaced(th, Moved(th, to)) /\ Moved(th, to) \in Call
         /\ Moved(th, to).pc = to /\ Moved(th, to).type = T(th)
         /\ Moved(th, to).self = MetaOf(T(th))
         /\ calls[th] # <<>> /\ calls[th][1].type = T(th) /\ calls[th][1].pc = pc
         /\ T(th) \in Types /\ Self(th) = MetaOf(T(th)) /\ MetaOf(T(th)) \in Metas
         /\ made[T(th)] = 1 /\ sharedM[T(th)] = NULL
  <1>1. /\ calls[th] # <<>> /\ calls[th][1] \in Call /\ calls[th][1].pc = pc
        /\ T(th) = calls[th][1].type /\ T(th) \in Types /\ Self(th) = calls[th][1].self
        /\ Place(calls[th][1]) /\ Self(th) = MetaOf(T(th))
    BY HeadPlace
  <1>2. Replaced(th, Moved(th, to))
    BY <1>1, GotoReplaces DEF BuildInv, RegistryInv, PCs, Moved
  <1>3. /\ Moved(th, to) \in Call /\ Moved(th, to).pc = to /\ Moved(th, to).type = T(th)
        /\ Moved(th, to).self = MetaOf(T(th))
    BY <1>1, MovedFrame DEF Moved
  <1>4. made[T(th)] = 1 /\ sharedM[T(th)] = NULL
    BY <1>1 DEF Place
  <1>5. QED
    BY <1>1, <1>2, <1>3, <1>4, MetaOfFacts

(* A write to one field keeps the invariant if the head of the stack and   *)
(* the lists of derived meta-objects are right after it.                   *)
LEMMA WriteStays ==
  ASSUME BuildInv, HeapInv, NEW th \in Threads, NEW pc \in Built, At(th, pc),
         NEW to \in Built, Goto(th, to), UNCHANGED <<sharedM, m, made>>,
         NEW x \in Metas, NEW field \in Fields, Only(x, field),
         field = "nativeId" => heap'[x].nativeId,
         field = "next" => x = MetaOf(T(th)) /\ heap'[x].next \in MetaRefs,
         field = "firstDerived" => heap'[x].firstDerived \in MetaRefs,
         Place(calls[th][1])', HasLists'
  PROVE  HeapInv'
  <1>1. \A y \in Metas :
          /\ heap[y].nativeId => heap'[y].nativeId
          /\ heap'[y].next # heap[y].next => y = MetaOf(T(th)) /\ heap'[y].next \in MetaRefs
          /\ heap'[y].firstDerived = heap[y].firstDerived \/ heap'[y].firstDerived \in MetaRefs
    <2>1. "nativeId" \in Fields /\ "next" \in Fields /\ "firstDerived" \in Fields
      BY DEF Fields
    <2>2. QED
      BY <2>1 DEF Only
  <1>2. to \in PCs
    BY DEF Built, PCs
  <1>3. /\ Replaced(th, Moved(th, to)) /\ T(th) \in Types
        /\ made[T(th)] = 1 /\ RegistryInv
    BY <1>2, MovedFacts DEF BuildInv
  <1>4. \A t \in Types : MetaOf(t) \in Metas /\ (MetaOf(t) = MetaOf(T(th)) => t = T(th))
    BY MetaOfFacts
  <1>5. OwnMetas'
    BY DEF HeapInv, OwnMetas
  <1>6. SharedOK'
    BY <1>1, <1>4 DEF HeapInv, SharedOK
  <1>7. HeapTyped'
    <2>1. heap' \in [Metas -> Meta]
      BY DEF Only
    <2>2. SUFFICES ASSUME NEW t \in Types
                   PROVE  /\ heap'[MetaOf(t)].firstDerived \in MetaRefs
                          /\ heap'[MetaOf(t)].next \in MetaRefs
                          /\ made[t] = 0 => heap'[MetaOf(t)].next = NULL
      BY <2>1 DEF HeapTyped
    <2>3. QED
      BY <1>1, <1>3, <1>4 DEF HeapInv, HeapTyped
  <1>8. Placed'
    <2>1. SUFFICES ASSUME NEW o \in Threads, NEW i \in 1 .. Len(calls'[o])
                   PROVE  Place(calls[o][i])'
      BY DEF Placed
    <2>2. CASE o = th /\ i = 1
      BY <2>2
    <2>3. CASE ~(o = th /\ i = 1)
      <3>1. i \in 1 .. Len(calls[o]) /\ calls'[o][i] = calls[o][i]
        BY <1>3, <2>3, ReplacedCalls
      <3>2. Place(calls[o][i]) /\ calls[o][i].type \in Types
        BY <1>3, <3>1, CallsTyped DEF HeapInv, Placed
      <3>3. pc \in Inside
        BY DEF Inside
      <3>4. /\ calls[o][i].pc \in {"lock", "base", "cache"}
            /\ calls[o][i].pc \in Built => calls[o][i].type # T(th)
        BY <2>3, <3>1, <3>3, LoneBuilder
      <3>5. calls[o][i].pc = "base" => heap'[MetaOf(calls[o][i].type)].next = NULL
        <4>1. "base" \in Built
          BY DEF Built
        <4>2. QED
          BY <1>1, <1>4, <3>2, <3>4, <4>1 DEF Place
      <3>6. QED
        BY <3>1, <3>2, <3>4, <3>5 DEF Place
    <2>4. QED
      BY <2>2, <2>3
  <1>9. QED
    BY <1>5, <1>6, <1>7, <1>8 DEF HeapInv

(* The lists stay if what is written is in none of them.                   *)
LEMMA ListsStay ==
  ASSUME HeapInv, NEW x \in Metas, NEW field \in Fields, Only(x, field),
         field # "firstDerived",
         field = "next" => \A t \in Types : \A u \in Subclasses(t) : MetaOf(u) # x,
         \A u \in Types : BaseOf[u] # NULL => (Linked(u)' <=> Linked(u))
  PROVE  HasLists'
  <1>1. SUFFICES ASSUME NEW t \in Types
                 PROVE  \E L \in Seq(Types) : IsList(t, L, heap, Subclasses(t))'
    BY DEF HasLists
  <1>2. PICK L \in Seq(Types) : IsList(t, L, heap, Subclasses(t))
    BY DEF HeapInv, HasLists
  <1>3. Subclasses(t)' = Subclasses(t)
    BY MetaOfFacts DEF Subclasses
  <1>4. "next" \in Fields /\ "firstDerived" \in Fields
    BY DEF Fields
  <1>5. heap'[MetaOf(t)].firstDerived = heap[MetaOf(t)].firstDerived
    BY <1>4, MetaOfFacts DEF Only
  <1>6. ASSUME NEW i \in 1 .. Len(L)
        PROVE  heap'[MetaOf(L[i])].next = heap[MetaOf(L[i])].next
    <2>1. L[i] \in Subclasses(t) /\ L[i] \in Types
      BY <1>2 DEF IsList, Subclasses
    <2>2. MetaOf(L[i]) \in Metas /\ (field = "next" => MetaOf(L[i]) # x)
      BY <2>1, MetaOfFacts
    <2>3. QED
      BY <1>4, <2>2 DEF Only
  <1>7. QED
    BY <1>2, <1>3, <1>5, <1>6 DEF IsList

(* A class that is being built becomes part of a list at Push only.        *)
LEMMA LinksStay ==
  ASSUME BuildInv, HeapInv, NEW th \in Threads, NEW pc \in Built, At(th, pc),
         NEW to \in Built, Goto(th, to), UNCHANGED sharedM,
         NEW u \in Types, u = T(th) => (to \in Reached <=> pc \in Reached)
  PROVE  Linked(u)' <=> Linked(u)
  <1>1. to \in PCs /\ RegistryInv
    BY DEF Built, PCs, BuildInv
  <1>2. PICK c : /\ Replaced(th, c) /\ c.type = calls[th][1].type /\ c.pc = to
                 /\ calls[th][1].pc = pc /\ calls[th] # <<>> /\ c.type = T(th)
    BY <1>1, MovedFacts
  <1>b. u = c.type => (c.pc \in Reached <=> calls[th][1].pc \in Reached)
    BY <1>2
  <1>3. \A o \in Threads : LinkedBy(u, o)' <=> LinkedBy(u, o)
    BY ONLY <1>1, <1>2, <1>b, th \in Threads, ReplacedLinks
  <1>4. sharedM' = sharedM
    OBVIOUS
  <1>5. QED
    BY ONLY <1>3, <1>4 DEF Linked

(* A class that a thread is still to push is on no list.                   *)
LEMMA NotYetLinked ==
  ASSUME BuildInv, HeapInv, NEW th \in Threads, NEW pc \in Built \ Reached, At(th, pc)
  PROVE  ~Linked(T(th))
  <1>1. sharedM[T(th)] = NULL /\ calls[th][1].pc = pc
    BY HeadPlace DEF Place
  <1>2. SUFFICES ASSUME NEW o \in Threads, NEW i \in 1 .. Len(calls[o]),
                        calls[o][i].type = T(th), calls[o][i].pc \in Reached
                 PROVE  FALSE
    BY <1>1 DEF Linked, LinkedBy
  <1>3. ~(o = th /\ i = 1) /\ pc \in Inside
    BY <1>1, <1>2 DEF Inside
  <1>4. calls[o][i].pc \in {"lock", "base", "cache"}
    BY <1>3, LoneBuilder
  <1>5. QED
    BY <1>2, <1>4 DEF Reached

(* Steps that write the fields of the meta-object that is being built      *)
LEMMA SetBaseKeepsHeap ==
  ASSUME BuildInv, HeapInv, NEW th \in Threads, SetBase(th)
  PROVE  HeapInv'
  <1>1. At(th, "base") /\ "base" \in Built /\ "base" \in PCs /\ "nativeId" \in PCs
    BY DEF SetBase, Built, PCs
  <1>2. /\ calls[th][1] \in Call /\ T(th) = calls[th][1].type /\ T(th) \in Types
        /\ Place(calls[th][1]) /\ Self(th) = MetaOf(T(th)) /\ calls[th][1].pc = "base"
    BY <1>1, HeadPlace
  <1>3. CASE BaseOf[T(th)] = NULL
    <2>1. Goto(th, "nativeId") /\ UNCHANGED <<sharedM, m, made, heap>>
      BY <1>3 DEF SetBase
    <2>2. Place([calls[th][1] EXCEPT !.pc = "nativeId"])
      BY <1>1, <1>2, MovedFrame DEF Place, Built
    <2>3. QED
      BY <1>1, <1>3, <2>1, <2>2, GotoStays
  <1>4. CASE BaseOf[T(th)] # NULL
    <2>1. /\ Goto(th, "next") /\ UNCHANGED <<sharedM, m, made>>
          /\ heap' = [heap EXCEPT ![Self(th)]["base"] = m[th][BaseOf[T(th)]]]
          /\ m[th][BaseOf[T(th)]] # NULL
      BY <1>4 DEF SetBase, Set
    <2>2. BaseOf[T(th)] \in Types
      BY <1>2, <1>4, BaseTyped
    <2>3. m[th][BaseOf[T(th)]] = MetaOf(BaseOf[T(th)])
      BY <2>1, <2>2 DEF HeapInv, OwnMetas, Own
    <2>4. "next" \in Built /\ "next" \in PCs /\ "base" \in Fields /\ "next" \in Fields
      BY DEF Built, PCs, Fields
    <2> DEFINE x == MetaOf(T(th))
    <2>5. x \in Metas /\ MetaOf(BaseOf[T(th)]) \in Ref
      BY <1>2, <2>2, MetaOfFacts DEF Ref
    <2>6. Only(x, "base") /\ heap'[x]["base"] = MetaOf(BaseOf[T(th)])
      <3> HIDE DEF x
      <3>1. heap \in [Metas -> Meta] /\ Self(th) = x
        BY <1>2 DEF HeapInv, HeapTyped, x
      <3>2. QED
        BY <2>1, <2>3, <2>4, <2>5, <3>1, Writes
    <2>7. /\ calls'[th][1].pc = "next" /\ calls'[th][1].type = T(th)
          /\ calls'[th][1].self = MetaOf(T(th)) /\ made[T(th)] = 1 /\ sharedM[T(th)] = NULL
      BY <1>1, <2>1, <2>4, MovedFacts DEF Replaced
    <2>8. heap'[x].next = NULL
      <3>1. heap[x].next = NULL
        BY <1>2 DEF Place
      <3>2. QED
        BY <2>4, <2>5, <2>6, <3>1 DEF Only
    <2>9. Place(calls[th][1])'
      BY <1>4, <2>1, <2>6, <2>7, <2>8 DEF Place, Own
    <2>10. \A u \in Types : Linked(u)' <=> Linked(u)
      BY <1>1, <2>1, <2>4, LinksStay DEF Reached
    <2>11. HasLists'
      BY <2>4, <2>5, <2>6, <2>10, ListsStay
    <2>12. QED
      BY <1>1, <2>1, <2>4, <2>5, <2>6, <2>9, <2>11, WriteStays
  <1>5. QED
    BY <1>3, <1>4

LEMMA SetNextKeepsHeap ==
  ASSUME BuildInv, HeapInv, NEW th \in Threads, SetNext(th)
  PROVE  HeapInv'
  <1>1. /\ At(th, "next") /\ "next" \in Built /\ "push" \in Built /\ "push" \in PCs
        /\ Goto(th, "push") /\ UNCHANGED <<sharedM, m, made>>
        /\ heap' = [heap EXCEPT ![Self(th)]["next"] = heap[heap[Self(th)].base].firstDerived]
        /\ "next" \in Fields /\ "base" \in Fields /\ "firstDerived" \in Fields
    BY DEF SetNext, Set, Built, PCs, Fields
  <1>2. /\ T(th) = calls[th][1].type /\ T(th) \in Types
        /\ Place(calls[th][1]) /\ Self(th) = MetaOf(T(th)) /\ calls[th][1].pc = "next"
    BY <1>1, HeadPlace
  <1> DEFINE x == MetaOf(T(th))
             b == MetaOf(BaseOf[T(th)])
  <1>3. BaseOf[T(th)] # NULL /\ heap[x].base = b
    BY <1>2 DEF Place
  <1>4. BaseOf[T(th)] \in Types
    BY <1>2, <1>3, BaseTyped
  <1>5. x \in Metas /\ b \in Metas
    BY <1>2, <1>4, MetaOfFacts
  <1>6. heap[b].firstDerived \in MetaRefs /\ heap[b].firstDerived \in Ref
    BY <1>4, MetaOfFacts DEF HeapInv, HeapTyped
  <1>7. Only(x, "next") /\ heap'[x]["next"] = heap[b].firstDerived
    <2> HIDE DEF x, b
    <2>1. heap \in [Metas -> Meta] /\ Self(th) = x
      BY <1>2 DEF HeapInv, HeapTyped, x
    <2>2. QED
      BY <1>1, <1>3, <1>5, <1>6, <2>1, Writes
  <1>8. /\ calls'[th][1].pc = "push" /\ calls'[th][1].type = T(th)
        /\ calls'[th][1].self = MetaOf(T(th)) /\ made[T(th)] = 1 /\ sharedM[T(th)] = NULL
    BY <1>1, MovedFacts DEF Replaced
  <1>9. /\ heap'[x].next = heap'[b].firstDerived /\ heap'[x].base = b
        /\ heap'[x].next \in MetaRefs
    <2>1. heap'[x].base = heap[x].base /\ heap'[b].firstDerived = heap[b].firstDerived
      BY <1>1, <1>5, <1>7 DEF Only
    <2>2. QED
      BY <1>3, <1>6, <1>7, <2>1
  <1>10. Place(calls[th][1])'
    BY <1>1, <1>3, <1>8, <1>9 DEF Place, Own
  <1>11. \A u \in Types : Linked(u)' <=> Linked(u)
    BY <1>1, LinksStay DEF Reached
  <1>12. \A t \in Types : \A u \in Subclasses(t) : MetaOf(u) # x
    <2>1. ~Linked(T(th))
      BY <1>1, NotYetLinked DEF Reached
    <2>2. QED
      BY <2>1, MetaOfFacts DEF Subclasses
  <1>13. HasLists'
    BY <1>1, <1>5, <1>7, <1>11, <1>12, ListsStay
  <1>14. QED
    BY <1>1, <1>5, <1>7, <1>9, <1>10, <1>13, WriteStays

LEMMA SetNativeIdKeepsHeap ==
  ASSUME BuildInv, HeapInv, NEW th \in Threads, SetNativeId(th)
  PROVE  HeapInv'
  <1>1. /\ At(th, "nativeId") /\ "nativeId" \in Built /\ "createWrapper" \in Built
        /\ "createWrapper" \in PCs
        /\ Goto(th, "createWrapper") /\ UNCHANGED <<sharedM, m, made>>
        /\ heap' = [heap EXCEPT ![Self(th)]["nativeId"] = TRUE] /\ "nativeId" \in Fields
    BY DEF SetNativeId, Set, Built, PCs, Fields
  <1>2. T(th) \in Types /\ Self(th) = MetaOf(T(th))
    BY <1>1, HeadPlace
  <1> DEFINE x == MetaOf(T(th))
  <1>3. x \in Metas
    BY <1>2, MetaOfFacts
  <1>4. Only(x, "nativeId") /\ heap'[x]["nativeId"] = TRUE
    <2> HIDE DEF x
    <2>1. heap \in [Metas -> Meta] /\ Self(th) = x
      BY <1>2 DEF HeapInv, HeapTyped, x
    <2>2. QED
      BY <1>1, <1>3, <2>1, Writes
  <1>5. /\ calls'[th][1].pc = "createWrapper" /\ calls'[th][1].type = T(th)
        /\ calls'[th][1].self = MetaOf(T(th)) /\ made[T(th)] = 1 /\ sharedM[T(th)] = NULL
    BY <1>1, MovedFacts DEF Replaced
  <1>6. Place(calls[th][1])'
    BY <1>1, <1>4, <1>5 DEF Place, Own
  <1>7. \A u \in Types : Linked(u)' <=> Linked(u)
    BY <1>1, LinksStay DEF Reached
  <1>8. HasLists'
    BY <1>1, <1>3, <1>4, <1>7, ListsStay
  <1>9. QED
    BY <1>1, <1>3, <1>4, <1>6, <1>8, WriteStays

LEMMA SetCreateWrapperKeepsHeap ==
  ASSUME BuildInv, HeapInv, NEW th \in Threads, SetCreateWrapper(th)
  PROVE  HeapInv'
  <1>1. /\ At(th, "createWrapper") /\ "createWrapper" \in Built /\ "share" \in Built
        /\ "share" \in PCs
        /\ Goto(th, "share") /\ UNCHANGED <<sharedM, m, made>>
        /\ heap' = [heap EXCEPT ![Self(th)]["createWrapper"] = TRUE]
        /\ "createWrapper" \in Fields /\ "nativeId" \in Fields
    BY DEF SetCreateWrapper, Set, Built, PCs, Fields
  <1>2. /\ T(th) \in Types /\ Self(th) = MetaOf(T(th)) /\ T(th) = calls[th][1].type
        /\ Place(calls[th][1]) /\ calls[th][1].pc = "createWrapper"
    BY <1>1, HeadPlace
  <1> DEFINE x == MetaOf(T(th))
  <1>3. x \in Metas
    BY <1>2, MetaOfFacts
  <1>4. Only(x, "createWrapper")
    <2> HIDE DEF x
    <2>1. heap \in [Metas -> Meta] /\ Self(th) = x
      BY <1>2 DEF HeapInv, HeapTyped, x
    <2>2. QED
      BY <1>1, <1>3, <2>1, Writes
  <1>5. /\ calls'[th][1].pc = "share" /\ calls'[th][1].type = T(th)
        /\ calls'[th][1].self = MetaOf(T(th)) /\ made[T(th)] = 1 /\ sharedM[T(th)] = NULL
    BY <1>1, MovedFacts DEF Replaced
  <1>6. heap'[x].nativeId
    <2>1. heap[x].nativeId
      BY <1>2 DEF Place
    <2>2. QED
      BY <1>1, <1>3, <1>4, <2>1 DEF Only
  <1>7. Place(calls[th][1])'
    BY <1>1, <1>5, <1>6 DEF Place, Own
  <1>8. \A u \in Types : Linked(u)' <=> Linked(u)
    BY <1>1, LinksStay DEF Reached
  <1>9. HasLists'
    BY <1>1, <1>3, <1>4, <1>8, ListsStay
  <1>10. QED
    BY <1>1, <1>3, <1>4, <1>7, <1>9, WriteStays

(* The list of derived meta-objects with one more in front *)
LEMMA PushedList ==
  ASSUME NEW t \in Types, NEW u \in Types, NEW L, NEW S, IsList(t, L, heap, S), u \notin S,
         S \subseteq Types,
         Only(MetaOf(t), "firstDerived"), heap'[MetaOf(t)].firstDerived = MetaOf(u),
         heap[MetaOf(u)].next = heap[MetaOf(t)].firstDerived
  PROVE  \E K \in Seq(Types) : IsList(t, K, heap', S \cup {u})
  <1>1. L \in Seq(Types) /\ <<u>> \in Seq(Types) /\ Len(<<u>>) = 1 /\ <<u>>[1] = u
    BY DEF IsList
  <1>2. PICK n \in Nat : n = Len(L)
    BY <1>1, LenProperties
  <1>3. PICK K \in Seq(Types) :
          /\ Len(K) = n + 1
          /\ \A i \in 1 .. n + 1 : K[i] = IF i <= 1 THEN u ELSE L[i - 1]
    <2>1. /\ <<u>> \o L \in Seq(Types) /\ Len(<<u>> \o L) = 1 + n
          /\ \A i \in 1 .. 1 + n : (<<u>> \o L)[i] = IF i <= 1 THEN u ELSE L[i - 1]
      BY <1>1, <1>2, ConcatProperties
    <2>2. 1 + n = n + 1
      OBVIOUS
    <2>3. QED
      BY <2>1, <2>2
  <1>4. K[1] = u /\ \A i \in 1 .. n : K[i + 1] = L[i]
    <2>1. 1 \in 1 .. n + 1
      OBVIOUS
    <2>2. ASSUME NEW i \in 1 .. n PROVE K[i + 1] = L[i]
      <3>1. i + 1 \in 1 .. n + 1 /\ ~(i + 1 <= 1) /\ (i + 1) - 1 = i
        OBVIOUS
      <3>2. QED
        BY <1>3, <3>1
    <2>3. QED
      BY <1>3, <2>1, <2>2
  <1>5. ASSUME NEW i \in 1 .. n + 1
        PROVE  i = 1 \/ \E j \in 1 .. n : i = j + 1 /\ K[i] = L[j] /\ L[j] \in S
    <2>1. SUFFICES ASSUME i # 1
                   PROVE  \E j \in 1 .. n : i = j + 1 /\ K[i] = L[j] /\ L[j] \in S
      OBVIOUS
    <2>2. PICK j \in 1 .. n : i = j + 1
      <3>1. i - 1 \in 1 .. n /\ i = (i - 1) + 1
        BY <2>1
      <3>2. QED
        BY <3>1
    <2>3. QED
      BY <1>2, <1>4, <2>2 DEF IsList
  <1>6. \A i, j \in 1 .. Len(K) : K[i] = K[j] => i = j
    <2>1. SUFFICES ASSUME NEW i \in 1 .. n + 1, NEW j \in 1 .. n + 1, K[i] = K[j]
                   PROVE  i = j
      BY <1>3
    <2>2. CASE i = 1 \/ j = 1
      BY <1>4, <1>5, <2>1, <2>2
    <2>3. CASE i # 1 /\ j # 1
      <3>1. PICK k \in 1 .. n : i = k + 1 /\ K[i] = L[k]
        BY <1>5, <2>3
      <3>2. PICK l \in 1 .. n : j = l + 1 /\ K[j] = L[l]
        BY <1>5, <2>3
      <3>3. k = l
        BY <1>2, <2>1, <3>1, <3>2 DEF IsList
      <3>4. QED
        BY <3>1, <3>2, <3>3
    <2>4. QED
      BY <2>2, <2>3
  <1>7. {K[i] : i \in 1 .. Len(K)} = S \cup {u}
    <2>1. \A i \in 1 .. n + 1 : K[i] \in S \cup {u}
      BY <1>4, <1>5
    <2>2. ASSUME NEW v \in S PROVE \E i \in 1 .. n + 1 : K[i] = v
      <3>1. PICK j \in 1 .. n : L[j] = v
        BY <1>2 DEF IsList
      <3>2. j + 1 \in 1 .. n + 1
        OBVIOUS
      <3>3. QED
        BY <1>4, <3>1, <3>2
    <2>3. 1 \in 1 .. n + 1
      OBVIOUS
    <2>4. QED
      BY <1>3, <1>4, <2>1, <2>2, <2>3
  <1>8. Node(K, 1) = MetaOf(u)
    BY <1>3, <1>4 DEF Node
  <1>9. ASSUME NEW i \in 1 .. n + 1
        PROVE  Node(K, i + 1) = Node(L, i)
    <2>1. CASE i \in 1 .. n
      <3>1. i + 1 \in 1 .. n + 1
        BY <2>1
      <3>2. QED
        BY <1>2, <1>3, <1>4, <2>1, <3>1 DEF Node
    <2>2. CASE i = n + 1
      <3>1. i + 1 \notin 1 .. n + 1 /\ i \notin 1 .. n
        BY <2>2
      <3>2. QED
        BY <1>2, <1>3, <3>1 DEF Node
    <2>3. QED
      BY <2>1, <2>2
  <1>10. \A v \in Types : heap'[MetaOf(v)].next = heap[MetaOf(v)].next
    <2>1. "next" \in Fields
      BY DEF Fields
    <2>2. QED
      BY <2>1, MetaOfFacts DEF Only
  <1>11. ASSUME NEW i \in 1 .. n + 1
         PROVE  heap'[MetaOf(K[i])].next = Node(K, i + 1)
    <2>1. CASE i = 1
      BY <1>4, <1>9, <1>10, <2>1 DEF IsList
    <2>2. CASE i # 1
      <3>1. PICK j \in 1 .. n : i = j + 1 /\ K[i] = L[j] /\ L[j] \in S
        BY <1>5, <2>2
      <3>2. heap[MetaOf(L[j])].next = Node(L, j + 1)
        BY <1>2, <3>1 DEF IsList
      <3>3. QED
        BY <1>9, <1>10, <3>1, <3>2
    <2>3. QED
      BY <2>1, <2>2
  <1>12. QED
    BY <1>3, <1>6, <1>7, <1>8, <1>11 DEF IsList

(* Push puts the meta-object at the head of its base's list.               *)
LEMMA PushKeepsHeap ==
  ASSUME BuildInv, HeapInv, NEW th \in Threads, Push(th)
  PROVE  HeapInv'
  <1>1. /\ At(th, "push") /\ "push" \in Built /\ "nativeId" \in Built /\ "nativeId" \in PCs
        /\ Goto(th, "nativeId") /\ UNCHANGED <<sharedM, m, made>>
        /\ heap' = [heap EXCEPT ![heap[Self(th)].base]["firstDerived"] = Self(th)]
        /\ "firstDerived" \in Fields /\ "next" \in Fields
    BY DEF Push, Built, PCs, Fields
  <1>2. /\ T(th) = calls[th][1].type /\ T(th) \in Types
        /\ Place(calls[th][1]) /\ Self(th) = MetaOf(T(th)) /\ calls[th][1].pc = "push"
    BY <1>1, HeadPlace
  <1>u. PICK u \in Types : u = T(th)
    BY <1>2
  <1>b. PICK b : b = BaseOf[u]
    OBVIOUS
  <1>3. b # NULL /\ heap[MetaOf(u)].base = MetaOf(b) /\ heap[MetaOf(u)].next = heap[MetaOf(b)].firstDerived
    BY <1>2, <1>u, <1>b DEF Place
  <1>4. b \in Types
    BY <1>3, <1>b, BaseTyped
  <1>5. /\ MetaOf(b) \in Metas /\ MetaOf(u) \in MetaRefs /\ MetaOf(u) \in Ref
        /\ \A v \in Types : MetaOf(v) \in Metas /\ (MetaOf(v) = MetaOf(b) => v = b)
    BY <1>2, <1>4, MetaOfFacts DEF MetaRefs
  <1>6. Only(MetaOf(b), "firstDerived") /\ heap'[MetaOf(b)]["firstDerived"] = MetaOf(u)
    <2>1. heap \in [Metas -> Meta] /\ Self(th) = MetaOf(u)
      BY <1>2, <1>u DEF HeapInv, HeapTyped
    <2>2. QED
      BY <1>1, <1>3, <1>5, <2>1, Writes
  <1>7. /\ calls'[th][1].pc = "nativeId" /\ calls'[th][1].type = u
        /\ calls'[th][1].self = MetaOf(u) /\ made[u] = 1 /\ sharedM[u] = NULL
        /\ 1 \in 1 .. Len(calls'[th])
    BY <1>1, <1>u, MovedFacts, HeadCall DEF Replaced, BuildInv, RegistryInv
  <1>8. Place(calls[th][1])'
    BY <1>1, <1>7 DEF Place, Own
  <1>9. ~Linked(u)
    BY <1>1, <1>u, NotYetLinked DEF Reached
  <1>10. Linked(u)'
    BY <1>7 DEF Linked, LinkedBy, Reached
  <1>11. \A v \in Types : v # u => (Linked(v)' <=> Linked(v))
    BY <1>1, <1>u, LinksStay
  <1>12. HasLists'
    <2>1. SUFFICES ASSUME NEW t \in Types
                   PROVE  \E L \in Seq(Types) : IsList(t, L, heap, Subclasses(t))'
      BY DEF HasLists
    <2>2. PICK L \in Seq(Types) : IsList(t, L, heap, Subclasses(t))
      BY DEF HeapInv, HasLists
    <2>3. CASE t = b
      <3>1. u \notin Subclasses(t) /\ Subclasses(t) \subseteq Types
        BY <1>9 DEF Subclasses
      <3>2. Subclasses(t)' = Subclasses(t) \cup {u}
        BY <1>b, <1>10, <1>11, <2>3 DEF Subclasses
      <3>3. \E K \in Seq(Types) : IsList(t, K, heap', Subclasses(t) \cup {u})
        BY <1>3, <1>6, <2>2, <2>3, <3>1, PushedList
      <3>4. QED
        BY <3>2, <3>3 DEF IsList
    <2>4. CASE t # b
      <3>1. Subclasses(t)' = Subclasses(t)
        BY <1>b, <1>11, <2>4 DEF Subclasses
      <3>2. heap'[MetaOf(t)].firstDerived = heap[MetaOf(t)].firstDerived
        BY <1>1, <1>5, <1>6, <2>4 DEF Only
      <3>3. ASSUME NEW i \in 1 .. Len(L)
            PROVE  heap'[MetaOf(L[i])].next = heap[MetaOf(L[i])].next
        BY <1>1, <1>5, <1>6 DEF Only
      <3>4. QED
        BY <2>2, <3>1, <3>2, <3>3 DEF IsList
    <2>5. QED
      BY <2>3, <2>4
  <1>13. QED
    BY <1>1, <1>5, <1>6, <1>8, <1>12, WriteStays

(* Share: from here on the class counts as registered.                     *)
LEMMA ShareKeepsHeap ==
  ASSUME BuildInv, HeapInv, NEW th \in Threads, Share(th)
  PROVE  HeapInv'
  <1>1. /\ At(th, "share") /\ "share" \in Built /\ "share" \in Inside /\ "unlock" \in PCs
        /\ Goto(th, "unlock") /\ UNCHANGED <<m, made, heap>> /\ RegistryInv
    BY DEF Share, Built, Inside, PCs, BuildInv
  <1>2. /\ Replaced(th, Moved(th, "unlock")) /\ calls[th][1].type = T(th) /\ T(th) \in Types
        /\ calls[th] # <<>> /\ calls[th][1].pc = "share" /\ Self(th) = MetaOf(T(th))
        /\ made[T(th)] = 1 /\ sharedM[T(th)] = NULL /\ MetaOf(T(th)) # NULL
    BY <1>1, MovedFacts, MetaOfFacts
  <1>3. PICK c : /\ Replaced(th, c) /\ c.pc = "unlock" /\ c.type = T(th)
                 /\ c.self = MetaOf(T(th))
    BY <1>1, MovedFacts
  <1>4. /\ sharedM' = [sharedM EXCEPT ![T(th)] = MetaOf(T(th))]
        /\ BaseOf[T(th)] # NULL => sharedM[BaseOf[T(th)]] # NULL
        /\ Grows
    BY <1>1, <1>2, ShareFacts
  <1>5. /\ \A t \in Types : sharedM'[t] = IF t = T(th) THEN MetaOf(t) ELSE sharedM[t]
    BY <1>1, <1>4 DEF RegistryInv, RegistryTypeOK
  <1>6. OwnMetas'
    BY <1>1, <1>5 DEF HeapInv, OwnMetas, Own
  <1>7. SharedOK'
    <2>1. SUFFICES ASSUME NEW t \in Types, sharedM'[t] # NULL
                   PROVE  /\ made[t] = 1
                          /\ heap[MetaOf(t)].nativeId
                          /\ BaseOf[t] # NULL => sharedM'[BaseOf[t]] # NULL
      BY <1>1 DEF SharedOK
    <2>2. BaseOf[t] # NULL => BaseOf[t] \in Types
      BY BaseTyped
    <2>3. CASE t = T(th)
      <3>1. heap[MetaOf(t)].nativeId
        BY <1>1, <1>2, <2>3, HeadPlace DEF Place
      <3>2. QED
        BY <1>2, <1>4, <2>2, <2>3, <3>1 DEF Grows
    <2>4. CASE t # T(th)
      BY <1>4, <1>5, <2>1, <2>2, <2>4 DEF HeapInv, SharedOK, Grows
    <2>5. QED
      BY <2>3, <2>4
  <1>8. Placed'
    <2>1. SUFFICES ASSUME NEW o \in Threads, NEW i \in 1 .. Len(calls'[o])
                   PROVE  Place(calls[o][i])'
      BY DEF Placed
    <2>2. CASE o = th /\ i = 1
      <3>1. calls'[o][i] = c
        BY <1>3, <2>2 DEF Replaced
      <3>2. QED
        BY <1>3, <3>1 DEF Place, Built, Own
    <2>3. CASE ~(o = th /\ i = 1)
      <3>1. i \in 1 .. Len(calls[o]) /\ calls'[o][i] = calls[o][i]
        BY <1>1, <1>3, <2>3, ReplacedCalls
      <3>2. Place(calls[o][i]) /\ calls[o][i].type \in Types
        BY <1>1, <3>1, CallsTyped DEF HeapInv, Placed
      <3>3. calls[o][i].pc \in Built => calls[o][i].type # T(th)
        BY <1>1, <2>3, <3>1, LoneBuilder
      <3>4. QED
        BY <1>1, <1>5, <3>1, <3>2, <3>3 DEF Place
    <2>4. QED
      BY <2>2, <2>3
  <1>9. HeapTyped'
    BY <1>1 DEF HeapInv, HeapTyped
  <1>10. \A u \in Types : Linked(u)' <=> Linked(u)
    <2>1. SUFFICES ASSUME NEW u \in Types
                   PROVE  Linked(u)' <=> Linked(u)
      OBVIOUS
    <2>2. CASE u = T(th)
      <3>1. Linked(u)'
        BY <1>2, <1>5, <2>2 DEF Linked
      <3>2. Linked(u)
        <4>1. 1 \in 1 .. Len(calls[th])
          BY <1>1, <1>2, HeadCall DEF RegistryInv
        <4>2. QED
          BY <1>2, <2>2, <4>1 DEF Linked, LinkedBy, Reached
      <3>3. QED
        BY <3>1, <3>2
    <2>3. CASE u # T(th)
      <3>1. \A o \in Threads : LinkedBy(u, o)' <=> LinkedBy(u, o)
        BY <1>1, <1>2, <1>3, <2>3, ReplacedLinks
      <3>2. sharedM'[u] = sharedM[u]
        BY <1>5, <2>3
      <3>3. QED
        BY <3>1, <3>2 DEF Linked
    <2>4. QED
      BY <2>2, <2>3
  <1>11. \A t \in Types : Subclasses(t)' = Subclasses(t)
    BY <1>10 DEF Subclasses
  <1>12. HasLists'
    BY <1>1, <1>11 DEF HeapInv, HasLists, IsList
  <1>13. QED
    BY <1>6, <1>7, <1>8, <1>9, <1>12 DEF HeapInv

-----------------------------------------------------------------------------
(* Searches *)

(* A next that is set stays.                                               *)
NextKept == \A x \in Metas : heap[x].next # NULL => heap'[x].next = heap[x].next

(* Building calls only set a next that was not set.                        *)
LEMMA StepKeepsNext ==
  ASSUME BuildInv, HeapInv, NEW th \in Threads,
         MetaStep(th) \/ \E t \in Types : Ask(th, t)
  PROVE  NextKept /\ Grows /\ search' = search
  <1>1. search' = search
    BY DEF MetaStep, Ask, Lock, CallBase, SetBase, SetNext, Push, SetNativeId, SetCreateWrapper,
           Share, Unlock, Cache, Set
  <1>2. Grows
    <2>1. CASE Share(th)
      BY <2>1, ShareFacts DEF BuildInv
    <2>2. CASE ~Share(th)
      BY <2>2 DEF MetaStep, Ask, Lock, CallBase, SetBase, SetNext, Push, SetNativeId,
                  SetCreateWrapper, Unlock, Cache, Set, Grows
    <2>3. QED
      BY <2>1, <2>2
  <1>3. NextKept
    <2>1. CASE heap' = heap
      BY <2>1 DEF NextKept
    <2>2. heap \in [Metas -> Meta]
      BY DEF HeapInv, HeapTyped
    <2>3. ASSUME NEW pc \in Built, At(th, pc), NEW x \in Metas, NEW field \in {"base", "nativeId", "createWrapper", "firstDerived"},
                 NEW v, heap' = [heap EXCEPT ![x][field] = v]
          PROVE  NextKept
      <3>1. \A y \in Metas : heap[y] \in Meta /\ heap'[y] = IF y = x THEN [heap[y] EXCEPT ![field] = v] ELSE heap[y]
        BY <2>2, <2>3
      <3>2. ASSUME NEW y \in Metas PROVE heap'[y].next = heap[y].next
        <4>1. "next" \in DOMAIN heap[y] /\ field # "next"
          BY <3>1 DEF Meta
        <4>2. QED
          BY <3>1, <4>1
      <3>3. QED
        BY <3>2 DEF NextKept
    <2>4. CASE SetBase(th)
      <3>1. At(th, "base") /\ "base" \in Built
        BY <2>4 DEF SetBase, Built
      <3>2. Self(th) \in Metas
        BY <3>1, HeadPlace, MetaOfFacts
      <3>3. \/ heap' = heap
            \/ heap' = [heap EXCEPT ![Self(th)]["base"] = m[th][BaseOf[T(th)]]]
        BY <2>4 DEF SetBase, Set
      <3>4. QED
        BY <2>1, <2>3, <3>1, <3>2, <3>3
    <2>5. CASE Push(th)
      <3>1. /\ At(th, "push") /\ "push" \in Built
            /\ heap' = [heap EXCEPT ![heap[Self(th)].base]["firstDerived"] = Self(th)]
        BY <2>5 DEF Push, Built
      <3>2. heap[Self(th)].base \in Metas
        <4>1. /\ Self(th) = MetaOf(T(th)) /\ T(th) \in Types /\ Place(calls[th][1])
              /\ calls[th][1].pc = "push" /\ T(th) = calls[th][1].type
          BY <3>1, HeadPlace
        <4>2. BaseOf[T(th)] \in Types /\ heap[Self(th)].base = MetaOf(BaseOf[T(th)])
          BY <4>1, BaseTyped DEF Place
        <4>3. QED
          BY <4>2, MetaOfFacts
      <3>3. QED
        BY <2>3, <3>1, <3>2
    <2>6. CASE SetNativeId(th)
      <3>1. /\ At(th, "nativeId") /\ "nativeId" \in Built
            /\ heap' = [heap EXCEPT ![Self(th)]["nativeId"] = TRUE]
        BY <2>6 DEF SetNativeId, Set, Built
      <3>2. Self(th) \in Metas
        BY <3>1, HeadPlace, MetaOfFacts
      <3>3. QED
        BY <2>3, <3>1, <3>2
    <2>7. CASE SetCreateWrapper(th)
      <3>1. /\ At(th, "createWrapper") /\ "createWrapper" \in Built
            /\ heap' = [heap EXCEPT ![Self(th)]["createWrapper"] = TRUE]
        BY <2>7 DEF SetCreateWrapper, Set, Built
      <3>2. Self(th) \in Metas
        BY <3>1, HeadPlace, MetaOfFacts
      <3>3. QED
        BY <2>3, <3>1, <3>2
    <2>8. CASE SetNext(th)
      <3>1. PICK v : /\ At(th, "next") /\ "next" \in Built
                     /\ heap' = [heap EXCEPT ![Self(th)]["next"] = v]
        BY <2>8 DEF SetNext, Set, Built
      <3>2. /\ Self(th) = MetaOf(T(th)) /\ T(th) \in Types /\ Place(calls[th][1])
            /\ calls[th][1].pc = "next" /\ T(th) = calls[th][1].type
        BY <3>1, HeadPlace
      <3>3. heap[Self(th)].next = NULL
        BY <3>2 DEF Place
      <3>4. \A y \in Metas : y # Self(th) => heap'[y] = heap[y]
        BY <2>2, <3>1
      <3>5. QED
        BY <3>3, <3>4 DEF NextKept
    <2>9. CASE Lock(th) \/ CallBase(th) \/ Share(th) \/ Unlock(th) \/ Cache(th) \/ \E t \in Types : Ask(th, t)
      BY <2>1, <2>9 DEF Lock, CallBase, Share, Unlock, Cache, Ask
    <2>10. QED
      BY <2>4, <2>5, <2>6, <2>7, <2>8, <2>9 DEF MetaStep
  <1>4. QED
    BY <1>1, <1>2, <1>3

(* Whatever the others build, the way down stays before a search.          *)
LEMMA AheadStays ==
  ASSUME NextKept, NEW mo, NEW x, Ahead(mo, x, heap)
  PROVE  Ahead(mo, x, heap')
  <1>1. SUFFICES ASSUME NEW S \in SUBSET Metas, mo \in S, Closed(S, heap')
                 PROVE  x \in S
    BY DEF Ahead
  <1>2. Closed(S, heap)
    BY <1>1 DEF Closed, NextKept
  <1>3. QED
    BY <1>1, <1>2 DEF Ahead

(* A building step takes nothing from a search.                            *)
LEMMA SearchesStay ==
  ASSUME SearchesOK, NextKept, Grows, search' = search
  PROVE  SearchesOK'
  <1>1. SUFFICES ASSUME NEW th \in Threads, search[th] # NULL
                 PROVE  SearchOK(search[th])'
    BY DEF SearchesOK
  <1>2. PICK s : s = search[th]
    OBVIOUS
  <1>3. s \in Search /\ SearchOK(s) /\ search'[th] = s
    BY <1>1, <1>2 DEF SearchesOK
  <1>4. sharedM'[s.best] # NULL
    BY <1>3 DEF SearchOK, Search, Grows
  <1>5. QED
    BY <1>3, <1>4, AheadStays DEF SearchOK

(* The first derived meta-object leads to all of them.                     *)
LEMMA FirstLeadsToAll ==
  ASSUME HeapInv, NEW t \in Types, NEW u \in Subclasses(t)
  PROVE  Ahead(heap[MetaOf(t)].firstDerived, MetaOf(u), heap)
  <1>1. PICK L \in Seq(Types) : IsList(t, L, heap, Subclasses(t))
    BY DEF HeapInv, HasLists
  <1>2. PICK n \in Nat : n = Len(L)
    BY LenProperties
  <1>3. PICK k \in 1 .. n : L[k] = u
    BY <1>1, <1>2 DEF IsList
  <1>4. \A i \in 1 .. n : L[i] \in Types /\ Node(L, i) = MetaOf(L[i]) /\ Node(L, i) # NULL
    BY <1>2, LenProperties, MetaOfFacts DEF Node
  <1>5. heap[MetaOf(t)].firstDerived = Node(L, 1) /\ 1 \in 1 .. n
    BY <1>1, <1>3 DEF IsList
  <1>6. SUFFICES ASSUME NEW S \in SUBSET Metas, Node(L, 1) \in S, Closed(S, heap)
                 PROVE  MetaOf(u) \in S
    BY <1>4, <1>5 DEF Ahead
  <1> DEFINE P == {i \in Nat : i + 1 \in 1 .. n => Node(L, i + 1) \in S}
  <1>7. 0 \in P
    BY <1>6
  <1>8. ASSUME NEW i \in Nat, i \in P PROVE i + 1 \in P
    <2>1. SUFFICES ASSUME (i + 1) + 1 \in 1 .. n
                   PROVE  Node(L, (i + 1) + 1) \in S
      OBVIOUS
    <2>2. i + 1 \in 1 .. n
      BY <2>1
    <2>3. Node(L, i + 1) \in S
      BY <1>8, <2>2
    <2>4. heap[Node(L, i + 1)].next = Node(L, (i + 1) + 1)
      BY <1>1, <1>2, <1>4, <2>2 DEF IsList
    <2>5. Node(L, (i + 1) + 1) # NULL
      BY <1>4, <2>1
    <2>6. QED
      BY <1>6, <2>3, <2>4, <2>5 DEF Closed
  <1>9. Nat \subseteq P
    <2> HIDE DEF P
    <2> QED
      BY <1>7, <1>8, NatSetInduction
  <1>10. k - 1 \in Nat /\ (k - 1) + 1 = k
    OBVIOUS
  <1>11. QED
    BY <1>3, <1>4, <1>9, <1>10

(* Of the registered classes above native one is below all others.         *)
LEMMA ClosestExists ==
  ASSUME NEW native \in Types, NEW t \in Ancestors[native], sharedM[t] # NULL
  PROVE  /\ Closest(native) \in Ancestors[native] /\ sharedM[Closest(native)] # NULL
         /\ \A u \in Ancestors[native] : sharedM[u] # NULL => u \in Ancestors[Closest(native)]
  <1> DEFINE Some(w) == \E u \in Ancestors[w] : sharedM[u] # NULL
             Best(w, b) == /\ b \in Ancestors[w] /\ sharedM[b] # NULL
                           /\ \A u \in Ancestors[w] : sharedM[u] # NULL => u \in Ancestors[b]
             S == {w \in Types : Some(w) => \E b \in Ancestors[w] : Best(w, b)}
  <1>1. ASSUME NEW w \in Types, BaseOf[w] # NULL => BaseOf[w] \in S
        PROVE  w \in S
    <2>1. SUFFICES ASSUME Some(w)
                   PROVE  \E b \in Ancestors[w] : Best(w, b)
      OBVIOUS
    <2>2. w \in Ancestors[w]
      BY AncestorFacts
    <2>3. CASE sharedM[w] # NULL
      BY <2>2, <2>3
    <2>4. CASE sharedM[w] = NULL
      <3>1. Ancestors[w] = {w} \cup IF BaseOf[w] = NULL THEN {} ELSE Ancestors[BaseOf[w]]
        BY AncestorFacts
      <3>2. BaseOf[w] # NULL /\ Some(BaseOf[w])
        BY <2>1, <2>4, <3>1
      <3>3. PICK b \in Ancestors[BaseOf[w]] : Best(BaseOf[w], b)
        BY <1>1, <3>2
      <3>4. Best(w, b)
        BY <2>4, <3>1, <3>2, <3>3
      <3>5. QED
        BY <3>4
    <2>5. QED
      BY <2>3, <2>4
  <1>2. Types \subseteq S
    <2> HIDE DEF S
    <2> QED
      BY <1>1, ForestInduction
  <1>3. \E b \in Ancestors[native] : Best(native, b)
    BY <1>2
  <1>4. QED
    BY <1>3 DEF Closest

(* What is above a shared class is shared.                                 *)
LEMMA SharedAbove ==
  ASSUME BuildInv, HeapInv, NEW b \in Types, sharedM[b] # NULL, NEW c \in Ancestors[b]
  PROVE  c \in Types /\ sharedM[c] # NULL /\ heap[MetaOf(c)].nativeId
  <1> DEFINE S == {u \in Types : sharedM[u] # NULL}
  <1>1. ASSUME NEW u \in S, BaseOf[u] # NULL
        PROVE  BaseOf[u] \in S
    BY <1>1, BaseTyped DEF HeapInv, SharedOK
  <1>2. b \in S
    OBVIOUS
  <1>3. Ancestors[b] \subseteq S
    <2> HIDE DEF S
    <2> QED
      BY <1>1, <1>2, AllAbove
  <1>4. QED
    BY <1>3 DEF HeapInv, SharedOK

(* A search that is not yet at the closest class has one to find, and it   *)
(* has its native id.                                                      *)
LEMMA WayDown ==
  ASSUME BuildInv, HeapInv, NEW s \in Search, SearchOK(s), s.best \notin Ancestors[s.this[1]]
  PROVE  LET c == Toward(s.this[1], s.native)
         IN  /\ c \in Subclasses(s.this[1]) /\ heap[MetaOf(c)].nativeId
             /\ MetaOf(c) \in Metas /\ MetaOf(c)[1] = c
  <1> DEFINE c == Toward(s.this[1], s.native)
  <1>1. /\ s.native \in Types /\ s.best \in Types /\ s.this[1] \in Ancestors[s.native]
        /\ s.best \in Ancestors[s.native] /\ sharedM[s.best] # NULL
    BY DEF SearchOK, Search
  <1>2. s.this[1] # s.native /\ c \in Ancestors[s.best]
    BY <1>1, TowardAbove
  <1>3. c \in Types /\ sharedM[c] # NULL /\ heap[MetaOf(c)].nativeId
    BY <1>1, <1>2, SharedAbove
  <1>4. BaseOf[c] = s.this[1]
    BY <1>1, <1>2, TowardBelow
  <1>5. c \in Subclasses(s.this[1])
    BY <1>3, <1>4 DEF Subclasses, Linked
  <1>6. MetaOf(c) \in Metas /\ MetaOf(c)[1] = c
    BY <1>3, MetaOfFacts
  <1>7. QED
    BY <1>3, <1>5, <1>6

(* A step of one search *)
LEMMA OneSearch ==
  ASSUME SearchesOK, NEW th \in Threads, NEW s, SetSearch(th, s), UNCHANGED <<sharedM, heap>>,
         s # NULL => s \in Search /\ SearchOK(s)
  PROVE  SearchesOK'
  <1>1. /\ search \in [Threads -> Search \cup {NULL}]
        /\ search' = [search EXCEPT ![th] = s] /\ s \in Search \cup {NULL}
    BY DEF SearchesOK, SetSearch
  <1>2. search' \in [Threads -> Search \cup {NULL}]
    BY <1>1
  <1>3. ASSUME NEW o \in Threads, search'[o] # NULL
        PROVE  SearchOK(search[o])'
    <2>1. SearchOK(search'[o])
      BY <1>1, <1>3 DEF SearchesOK
    <2>2. QED
      BY <2>1 DEF SearchOK
  <1>4. QED
    BY <1>2, <1>3 DEF SearchesOK

(* getWrapper starts at a registered class above native.                   *)
LEMMA GetWrapperKeepsSearches ==
  ASSUME BuildInv, HeapInv, SearchesOK, NEW th \in Threads, NEW t \in Types, NEW native \in Types,
         getWrapper(th, t, native)
  PROVE  SearchesOK'
  <1> DEFINE s == [this |-> m[th][t], mo |-> NULL, native |-> native, best |-> Closest(native),
                   pc |-> IF native = t THEN "create" ELSE "first"]
  <1>1. /\ m[th][t] # NULL /\ t \in Ancestors[native] /\ SetSearch(th, s)
        /\ UNCHANGED <<sharedM, heap>>
    BY DEF getWrapper
  <1>2. m[th][t] = MetaOf(t) /\ sharedM[t] # NULL
    BY <1>1 DEF HeapInv, OwnMetas, Own, BuildInv, RegistryInv, KnownIsShared
  <1>3. MetaOf(t) \in Metas /\ MetaOf(t)[1] = t /\ MetaOf(t) \in MetaRefs /\ NULL \in MetaRefs
    BY MetaOfFacts DEF MetaRefs
  <1>4. /\ Closest(native) \in Types /\ Closest(native) \in Ancestors[native]
        /\ sharedM[Closest(native)] # NULL
    BY <1>1, <1>2, ClosestExists, AncestorsNest
  <1>5. s \in Search
    BY <1>2, <1>3, <1>4 DEF Search, Ref
  <1>6. SearchOK(s)
    BY <1>1, <1>2, <1>3, <1>4 DEF SearchOK
  <1>7. QED
    <2> HIDE DEF s
    <2> QED
      BY <1>1, <1>5, <1>6, OneSearch

(* A step along a list keeps the way down before the search.               *)
LEMMA AheadNext ==
  ASSUME NEW mo \in Metas, NEW x \in Metas, Ahead(mo, x, heap), mo # x
  PROVE  heap[mo].next # NULL /\ Ahead(heap[mo].next, x, heap)
  <1>1. heap[mo].next # NULL
    <2>1. SUFFICES ASSUME heap[mo].next = NULL PROVE FALSE
      OBVIOUS
    <2>2. {mo} \in SUBSET Metas /\ Closed({mo}, heap)
      BY <2>1 DEF Closed
    <2>3. x \in {mo}
      BY <2>2 DEF Ahead
    <2>4. QED
      BY <2>3
  <1>2. ASSUME NEW S \in SUBSET Metas, heap[mo].next \in S, Closed(S, heap)
        PROVE  x \in S
    <2>1. S \cup {mo} \in SUBSET Metas /\ Closed(S \cup {mo}, heap)
      BY <1>2 DEF Closed
    <2>2. x \in S \cup {mo}
      BY <2>1 DEF Ahead
    <2>3. QED
      BY <2>2
  <1>3. QED
    BY <1>1, <1>2 DEF Ahead

(* A search enters the list of derived meta-objects.                       *)
LEMMA FirstDerivedKeepsSearches ==
  ASSUME BuildInv, HeapInv, SearchesOK, NEW th \in Threads, FirstDerived(th)
  PROVE  SearchesOK'
  <1>1. PICK s : s = search[th]
    OBVIOUS
  <1>2. /\ s # NULL /\ s.pc = "first" /\ UNCHANGED <<sharedM, heap>>
        /\ SetSearch(th, [s EXCEPT !.mo = heap[s.this].firstDerived, !.pc = "loop"])
    BY <1>1 DEF FirstDerived, Searching
  <1>3. s \in Search /\ SearchOK(s)
    BY <1>1, <1>2 DEF SearchesOK
  <1>4. s.this # NULL /\ s.this \in MetaRefs
    BY <1>3, MetaOfFacts DEF Search, SearchOK
  <1>5. PICK t \in Types : s.this[1] = t /\ s.this = MetaOf(t)
    BY <1>4, MetaOfFacts
  <1>6. PICK mo : mo = heap[s.this].firstDerived
    OBVIOUS
  <1>7. mo \in MetaRefs /\ mo \in Ref
    BY <1>5, <1>6, MetaOfFacts DEF HeapInv, HeapTyped
  <1>8. PICK r : r = [s EXCEPT !.mo = mo, !.pc = "loop"]
    OBVIOUS
  <1>9. /\ r \in Search /\ r.this = s.this /\ r.native = s.native /\ r.best = s.best
        /\ r.mo = mo /\ r.pc = "loop"
    BY <1>3, <1>7, <1>8 DEF Search
  <1>10. s.best \notin Ancestors[s.this[1]] => Ahead(mo, MetaOf(Toward(s.this[1], s.native)), heap)
    BY <1>3, <1>5, <1>6, WayDown, FirstLeadsToAll
  <1>11. SearchOK(r)
    BY <1>2, <1>3, <1>7, <1>9, <1>10 DEF SearchOK
  <1>12. QED
    BY <1>2, <1>6, <1>8, <1>9, <1>11, OneSearch

(* A search goes on along the list.                                        *)
LEMMA NextDerivedKeepsSearches ==
  ASSUME BuildInv, HeapInv, SearchesOK, NEW th \in Threads, NextDerived(th)
  PROVE  SearchesOK'
  <1>1. PICK s : s = search[th]
    OBVIOUS
  <1>2. /\ s # NULL /\ s.pc = "loop" /\ UNCHANGED <<sharedM, heap>> /\ s.mo # NULL /\ ~Matches(s)
        /\ SetSearch(th, [s EXCEPT !.mo = heap[s.mo].next])
    BY <1>1 DEF NextDerived, Searching
  <1>3. s \in Search /\ SearchOK(s)
    BY <1>1, <1>2 DEF SearchesOK
  <1>4. s.mo \in MetaRefs
    BY <1>3 DEF SearchOK
  <1>5. PICK t \in Types : s.mo[1] = t /\ s.mo = MetaOf(t)
    BY <1>2, <1>4, MetaOfFacts
  <1>6. PICK mo : mo = heap[s.mo].next
    OBVIOUS
  <1>7. mo \in MetaRefs /\ mo \in Ref
    BY <1>5, <1>6, MetaOfFacts DEF HeapInv, HeapTyped
  <1>8. PICK r : r = [s EXCEPT !.mo = mo]
    OBVIOUS
  <1>9. /\ r \in Search /\ r.this = s.this /\ r.native = s.native /\ r.best = s.best
        /\ r.mo = mo /\ r.pc = "loop"
    BY <1>2, <1>3, <1>7, <1>8 DEF Search
  <1>10. ASSUME s.best \notin Ancestors[s.this[1]]
         PROVE  Ahead(mo, MetaOf(Toward(s.this[1], s.native)), heap)
    <2>1. PICK c : c = Toward(s.this[1], s.native)
      OBVIOUS
    <2>2. heap[MetaOf(c)].nativeId /\ MetaOf(c) \in Metas /\ MetaOf(c)[1] = c
      BY <1>3, <1>10, <2>1, WayDown
    <2>3. s.mo # MetaOf(c)
      BY <1>2, <2>1, <2>2 DEF Matches
    <2>4. Ahead(s.mo, MetaOf(c), heap)
      BY <1>2, <1>3, <1>10, <2>1 DEF SearchOK
    <2>5. s.mo \in Metas
      BY <1>5, MetaOfFacts
    <2>6. QED
      BY <1>6, <2>1, <2>2, <2>3, <2>4, <2>5, AheadNext
  <1>11. SearchOK(r)
    BY <1>2, <1>3, <1>7, <1>9, <1>10 DEF SearchOK
  <1>12. QED
    BY <1>2, <1>6, <1>8, <1>9, <1>11, OneSearch

(* A search goes down one class.                                           *)
LEMMA MatchKeepsSearches ==
  ASSUME BuildInv, HeapInv, SearchesOK, NEW th \in Threads, Match(th)
  PROVE  SearchesOK'
  <1>1. PICK s : s = search[th]
    OBVIOUS
  <1>2. PICK pc \in {"create", "first"} : pc = "create" <=> s.mo[1] = s.native
    <2>1. "create" # "first"
      OBVIOUS
    <2>2. QED
      BY <2>1
  <1>3. /\ s # NULL /\ s.pc = "loop" /\ UNCHANGED <<sharedM, heap>> /\ Matches(s)
        /\ SetSearch(th, [s EXCEPT !.this = s.mo, !.mo = NULL, !.pc = pc])
    BY <1>1, <1>2 DEF Match, Searching
  <1>4. s \in Search /\ SearchOK(s)
    BY <1>1, <1>3 DEF SearchesOK
  <1>5. s.mo \in MetaRefs /\ s.mo # NULL /\ s.mo[1] = Toward(s.this[1], s.native)
    BY <1>3, <1>4 DEF SearchOK, Matches
  <1>6. s.mo \in Metas /\ NULL \in MetaRefs
    BY <1>5, MetaOfFacts DEF MetaRefs
  <1>7. /\ s.native \in Types /\ s.this[1] \in Ancestors[s.native] /\ s.this[1] # s.native
        /\ sharedM[s.best] # NULL /\ s.best \in Ancestors[s.native]
    BY <1>3, <1>4 DEF SearchOK, Search
  <1>8. s.mo[1] \in Ancestors[s.native]
    BY <1>5, <1>7, TowardBelow
  <1>9. PICK r : r = [s EXCEPT !.this = s.mo, !.mo = NULL, !.pc = pc]
    OBVIOUS
  <1>10. /\ r \in Search /\ r.this = s.mo /\ r.native = s.native /\ r.best = s.best
         /\ r.mo = NULL /\ r.pc = pc
    BY <1>4, <1>6, <1>9 DEF Search, Ref
  <1>11. SearchOK(r)
    BY <1>2, <1>5, <1>6, <1>7, <1>8, <1>10 DEF SearchOK
  <1>12. QED
    BY <1>3, <1>9, <1>10, <1>11, OneSearch

(* At the end of the list there was no way down.                           *)
LEMMA NoMatchKeepsSearches ==
  ASSUME BuildInv, HeapInv, SearchesOK, NEW th \in Threads, NoMatch(th)
  PROVE  SearchesOK'
  <1>1. PICK s : s = search[th]
    OBVIOUS
  <1>2. /\ s # NULL /\ s.pc = "loop" /\ UNCHANGED <<sharedM, heap>> /\ s.mo = NULL
        /\ SetSearch(th, [s EXCEPT !.pc = "create"])
    BY <1>1 DEF NoMatch, Searching
  <1>3. s \in Search /\ SearchOK(s)
    BY <1>1, <1>2 DEF SearchesOK
  <1>4. s.best \in Ancestors[s.this[1]]
    BY <1>2, <1>3 DEF SearchOK, Ahead
  <1>5. PICK r : r = [s EXCEPT !.pc = "create"]
    OBVIOUS
  <1>6. /\ r \in Search /\ r.this = s.this /\ r.native = s.native /\ r.best = s.best
        /\ r.mo = s.mo /\ r.pc = "create"
    BY <1>3, <1>5 DEF Search
  <1>7. SearchOK(r)
    BY <1>3, <1>4, <1>6 DEF SearchOK
  <1>8. QED
    BY <1>2, <1>5, <1>6, <1>7, OneSearch

(* The searches take no step that others could see.                        *)
LEMMA SearchStepKeepsSearches ==
  ASSUME BuildInv, HeapInv, SearchesOK, NEW th \in Threads,
         SearchStep(th) \/ \E t, native \in Types : getWrapper(th, t, native)
  PROVE  HeapInv' /\ SearchesOK'
  <1>1. UNCHANGED <<sharedM, m, made, calls, heap>>
    BY DEF SearchStep, FirstDerived, Match, NextDerived, NoMatch, Create, getWrapper
  <1>2. HeapInv'
    <2>1. \A o \in Threads : \A t \in Types : m'[o][t] \in Own(t)
      BY <1>1 DEF HeapInv, OwnMetas
    <2>2. \A o \in Threads : \A i \in 1 .. Len(calls'[o]) : Place(calls'[o][i])
      BY <1>1 DEF HeapInv, Placed
    <2>3. \A u \in Types : Linked(u)' <=> Linked(u)
      BY <1>1 DEF Linked, LinkedBy
    <2>4. QED
      BY <1>1, <2>1, <2>2, <2>3, HeapStays
  <1>3. CASE Create(th)
    <2>1. SetSearch(th, NULL) /\ UNCHANGED <<sharedM, heap>>
      BY <1>3 DEF Create
    <2>2. QED
      BY <1>2, <2>1, OneSearch
  <1>4. QED
    BY <1>2, <1>3, GetWrapperKeepsSearches, FirstDerivedKeepsSearches, MatchKeepsSearches,
       NextDerivedKeepsSearches, NoMatchKeepsSearches DEF SearchStep

-----------------------------------------------------------------------------
(* The invariant *)

(* At first there is no meta-object and no search.                         *)
LEMMA InitEstablishesMetaInv == Init => MetaInv
  <1>1. SUFFICES ASSUME Init PROVE MetaInv
    OBVIOUS
  <1>2. BuildInv
    BY <1>1, InitEstablishesBuildInv
  <1>3. \A th \in Threads : Len(calls[th]) = 0 /\ 1 .. Len(calls[th]) = {}
    <2>1. Len(<<>>) = 0
      BY EmptySeq
    <2>2. QED
      BY <1>1, <2>1 DEF Init
  <1>4. OwnMetas /\ SharedOK
    BY <1>1 DEF Init, OwnMetas, SharedOK, Own
  <1>5. Placed
    BY <1>3 DEF Placed
  <1>6. /\ heap \in [Metas -> Meta]
        /\ \A t \in Types : heap[MetaOf(t)].firstDerived = NULL /\ heap[MetaOf(t)].next = NULL
    <2>1. Fresh \in Meta /\ Fresh.firstDerived = NULL /\ Fresh.next = NULL
      BY DEF Fresh, Meta, Ref
    <2>2. QED
      BY <1>1, <2>1, MetaOfFacts DEF Init
  <1>7. HeapTyped
    BY <1>6 DEF HeapTyped, MetaRefs
  <1>8. HasLists
    <2>1. SUFFICES ASSUME NEW t \in Types
                   PROVE  \E L \in Seq(Types) : IsList(t, L, heap, Subclasses(t))
      BY DEF HasLists
    <2>2. Subclasses(t) = {}
      BY <1>1, <1>3 DEF Init, Subclasses, Linked, LinkedBy
    <2>3. /\ <<>> \in Seq(Types) /\ Len(<<>>) = 0 /\ 1 .. 0 = {}
      BY EmptySeq
    <2>4. IsList(t, <<>>, heap, {})
      BY <1>6, <2>3 DEF IsList, Node
    <2>5. QED
      BY <2>2, <2>3, <2>4
  <1>9. SearchesOK
    BY <1>1 DEF Init, SearchesOK
  <1>10. QED
    BY <1>2, <1>4, <1>5, <1>7, <1>8, <1>9 DEF MetaInv, HeapInv

(* Every step keeps the invariant.                                         *)
LEMMA NextKeepsMetaInv ==
  ASSUME MetaInv, [Next]_vars
  PROVE  MetaInv'
  <1>1. BuildInv /\ HeapInv /\ SearchesOK
    BY DEF MetaInv
  <1>2. BuildInv'
    BY <1>1, NextKeepsBuildInv
  <1>3. ASSUME UNCHANGED vars
        PROVE  HeapInv' /\ SearchesOK'
    <2>1. UNCHANGED <<sharedM, m, made, calls, heap, search>>
      BY <1>3 DEF vars
    <2>2. HeapInv'
      <3>1. \A o \in Threads : \A t \in Types : m'[o][t] \in Own(t)
        BY <1>1, <2>1 DEF HeapInv, OwnMetas
      <3>2. \A o \in Threads : \A i \in 1 .. Len(calls'[o]) : Place(calls'[o][i])
        BY <1>1, <2>1 DEF HeapInv, Placed
      <3>3. \A u \in Types : Linked(u)' <=> Linked(u)
        BY <2>1 DEF Linked, LinkedBy
      <3>4. QED
        BY <1>1, <2>1, <3>1, <3>2, <3>3, HeapStays
    <2>3. SearchesOK'
      BY <1>1, <2>1, SearchesStay DEF NextKept, Grows
    <2>4. QED
      BY <2>2, <2>3
  <1>4. ASSUME NEW th \in Threads, MetaStep(th) \/ \E t \in Types : Ask(th, t)
        PROVE  HeapInv' /\ SearchesOK'
    <2>1. HeapInv'
      BY <1>1, <1>4, AskKeepsHeap, LockKeepsHeap, CallBaseKeepsHeap, SetBaseKeepsHeap,
         SetNextKeepsHeap, PushKeepsHeap, SetNativeIdKeepsHeap, SetCreateWrapperKeepsHeap,
         ShareKeepsHeap, UnlockKeepsHeap, CacheKeepsHeap DEF MetaStep
    <2>2. SearchesOK'
      BY <1>1, <1>4, StepKeepsNext, SearchesStay
    <2>3. QED
      BY <2>1, <2>2
  <1>5. HeapInv' /\ SearchesOK'
    <2>1. CASE UNCHANGED vars
      BY <1>3, <2>1
    <2>2. ASSUME NEW th \in Threads,
                 \/ \E t \in Types : Ask(th, t) \/ \E native \in Types : getWrapper(th, t, native)
                 \/ MetaStep(th) \/ SearchStep(th)
          PROVE  HeapInv' /\ SearchesOK'
      BY <1>1, <1>4, <2>2, SearchStepKeepsSearches
    <2>3. QED
      BY <2>1, <2>2 DEF Next
  <1>6. QED
    BY <1>2, <1>5 DEF MetaInv

(* Whatever threads build and search, meta-objects hang together as the    *)
(* classes do.                                                             *)
THEOREM MetaInvariant == Spec => []MetaInv
  BY InitEstablishesMetaInv, NextKeepsMetaInv, PTL DEF Spec

(* Every variable has its type. *)
THEOREM Typed == Spec => []TypeOK
  <1>1. MetaInv => TypeOK
    BY DEF MetaInv, BuildInv, RegistryInv, RegistryTypeOK, LockCounts, HeapInv, HeapTyped,
           SearchesOK, TypeOK
  <1>2. QED
    BY MetaInvariant, <1>1, PTL

(* A search, although it takes no lock, ends at the meta-object of a class *)
(* of the native object that is as close to it as any whose meta-object    *)
(* was there when the search began.                                        *)
THEOREM SearchesFindClosest == Spec => SearchFindsClosest
  <1> DEFINE Found(th) == /\ search[th].this[1] \in Ancestors[search[th].native]
                          /\ search[th].best \in Ancestors[search[th].this[1]]
             Step == \A th \in Threads : Create(th) => Found(th)
  <1>1. ASSUME MetaInv, NEW th \in Threads, Create(th)
        PROVE  Found(th)
    <2>1. search[th] # NULL /\ search[th].pc = "create"
      BY <1>1 DEF Create, Searching
    <2>2. SearchOK(search[th])
      BY <1>1, <2>1 DEF MetaInv, SearchesOK
    <2>3. QED
      BY <2>1, <2>2 DEF SearchOK
  <1>2. MetaInv => [Step]_vars
    BY <1>1
  <1>3. QED
    BY MetaInvariant, <1>2, PTL DEF SearchFindsClosest

-----------------------------------------------------------------------------
(* The walk along a list *)

(* What n rounds of the walk see *)
Rounds(L, n) == IF n <= Len(L) THEN n ELSE Len(L)
Walked(L, n) == [i \in 1 .. Rounds(L, n) + 1 |-> Node(L, i)]

(* What is seen is a sequence of references.                               *)
LEMMA WalkedFacts ==
  ASSUME NEW L \in Seq(Types), NEW n \in Nat
  PROVE  /\ Rounds(L, n) \in Nat /\ Walked(L, n) \in Seq(Ref)
         /\ Len(Walked(L, n)) = Rounds(L, n) + 1
         /\ \A i \in 1 .. Rounds(L, n) + 1 : Walked(L, n)[i] = Node(L, i)
  <1>1. Len(L) \in Nat /\ \A i \in 1 .. Len(L) : L[i] \in Types
    BY LenProperties
  <1>2. Rounds(L, n) \in Nat
    BY <1>1 DEF Rounds
  <1>3. \A i : Node(L, i) \in Ref
    BY <1>1, MetaOfFacts DEF Node, Ref
  <1>4. Walked(L, n) \in [1 .. Rounds(L, n) + 1 -> Ref]
    BY <1>3 DEF Walked
  <1>5. Rounds(L, n) + 1 \in Nat
    BY <1>2
  <1>6. Walked(L, n) \in Seq(Ref) /\ Len(Walked(L, n)) = Rounds(L, n) + 1
    BY <1>4, <1>5 DEF Walked
  <1>7. QED
    BY <1>2, <1>6 DEF Walked

(* One more round of the walk                                              *)
LEMMA WalkedNext ==
  ASSUME HeapInv, NEW t \in Types, NEW L \in Seq(Types), IsList(t, L, heap, Subclasses(t)),
         NEW n \in Nat, NEW w, w = Walked(L, n)
  PROVE  Walked(L, n + 1) = IF w[Len(w)] = NULL THEN w ELSE Append(w, heap[w[Len(w)]].next)
  <1>1. Len(L) \in Nat /\ \A i \in 1 .. Len(L) : L[i] \in Types
    BY LenProperties
  <1>2. /\ w \in Seq(Ref) /\ Len(w) = Rounds(L, n) + 1 /\ Rounds(L, n) \in Nat
        /\ \A i \in 1 .. Rounds(L, n) + 1 : w[i] = Node(L, i)
    BY WalkedFacts
  <1>3. w[Len(w)] = Node(L, Rounds(L, n) + 1)
    BY <1>2
  <1>4. CASE n < Len(L)
    <2>1. Rounds(L, n) = n /\ Rounds(L, n + 1) = n + 1 /\ n + 1 \in 1 .. Len(L)
      BY <1>1, <1>4 DEF Rounds
    <2>2. w[Len(w)] = MetaOf(L[n + 1]) /\ w[Len(w)] # NULL
      BY <1>1, <1>3, <2>1, MetaOfFacts DEF Node
    <2>3. heap[w[Len(w)]].next = Node(L, (n + 1) + 1)
      BY <2>1, <2>2 DEF IsList
    <2>4. Node(L, (n + 1) + 1) \in Ref
      BY <1>1, MetaOfFacts DEF Node, Ref
    <2>5. PICK a : a = Append(w, Node(L, (n + 1) + 1))
      OBVIOUS
    <2>6. /\ a \in Seq(Ref) /\ Len(a) = (n + 1) + 1
          /\ \A i \in 1 .. n + 1 : a[i] = w[i]
          /\ a[(n + 1) + 1] = Node(L, (n + 1) + 1)
      BY <1>2, <2>1, <2>4, <2>5, AppendProperties
    <2>7. a \in [1 .. (n + 1) + 1 -> Ref]
      BY <2>6, LenProperties
    <2>8. \A i \in 1 .. (n + 1) + 1 : a[i] = Node(L, i)
      <3>1. SUFFICES ASSUME NEW i \in 1 .. (n + 1) + 1
                     PROVE  a[i] = Node(L, i)
        OBVIOUS
      <3>2. i \in 1 .. n + 1 \/ i = (n + 1) + 1
        OBVIOUS
      <3>3. QED
        BY <1>2, <2>1, <2>6, <3>2
    <2>9. a = Walked(L, n + 1)
      BY <2>1, <2>7, <2>8 DEF Walked
    <2>10. QED
      BY <2>2, <2>3, <2>5, <2>9
  <1>5. CASE ~(n < Len(L))
    <2>1. Rounds(L, n) = Len(L) /\ Rounds(L, n + 1) = Len(L)
      BY <1>1, <1>5 DEF Rounds
    <2>2. Walked(L, n + 1) = w
      BY <2>1 DEF Walked
    <2>3. Len(L) + 1 \notin 1 .. Len(L)
      BY <1>1
    <2>4. w[Len(w)] = NULL
      BY <1>3, <2>1, <2>3 DEF Node
    <2>5. QED
      BY <2>2, <2>4
  <1>6. QED
    BY <1>4, <1>5

(* A list names a class once, so it has no more of them than there are.    *)
LEMMA ListLength ==
  ASSUME NEW L \in Seq(Types), \A i, j \in 1 .. Len(L) : L[i] = L[j] => i = j
  PROVE  Len(L) <= Cardinality(Types)
  <1>1. Len(L) \in Nat /\ L \in [1 .. Len(L) -> Types]
    BY LenProperties
  <1>2. IsFiniteSet(Types)
    BY RegistryAssumption
  <1>3. L \in Injection(1 .. Len(L), Types)
    BY <1>1 DEF Injection, IsInjective
  <1>4. Cardinality(1 .. Len(L)) <= Cardinality(Types)
    BY <1>2, <1>3, FS_Injection
  <1>5. Cardinality(1 .. Len(L)) = Len(L)
    BY <1>1, FS_Interval
  <1>6. QED
    BY <1>4, <1>5

(* The walk sees the whole list and its end.                               *)
LEMMA DerivedIs ==
  ASSUME HeapInv, NEW t \in Types, NEW L \in Seq(Types), IsList(t, L, heap, Subclasses(t))
  PROVE  /\ Len(Derived(MetaOf(t))) = Len(L) + 1
         /\ \A i \in 1 .. Len(L) + 1 : Derived(MetaOf(t))[i] = Node(L, i)
  <1> DEFINE N == Cardinality(Types)
             first == <<heap[MetaOf(t)].firstDerived>>
             More(w) == IF w[Len(w)] = NULL THEN w ELSE Append(w, heap[w[Len(w)]].next)
             Def(g) == [n \in 0 .. N |-> IF n = 0 THEN first ELSE More(g[n - 1])]
             walk == [n \in 0 .. N |-> Walked(L, n)]
             Walk == CHOOSE g : g = Def(g)
  <1>1. N \in Nat /\ Len(L) \in Nat /\ Len(L) <= N
    BY RegistryAssumption, FS_CardinalityType, ListLength, LenProperties DEF IsList
  <1>2. Walked(L, 0) = first
    <2>1. Rounds(L, 0) = 0
      BY <1>1 DEF Rounds
    <2>2. Walked(L, 0) = <<Node(L, 1)>>
      BY <2>1 DEF Walked
    <2>3. QED
      BY <2>2 DEF IsList
  <1>3. \A n \in Nat : Walked(L, n + 1) = More(Walked(L, n))
    BY WalkedNext
  <1> HIDE DEF N, first, More
  <1>4. walk = Def(walk)
    <2>1. ASSUME NEW n \in 0 .. N
          PROVE  walk[n] = IF n = 0 THEN first ELSE More(walk[n - 1])
      <3>1. CASE n = 0
        BY <1>1, <1>2, <3>1
      <3>2. CASE n # 0
        <4>1. n - 1 \in Nat /\ n - 1 \in 0 .. N /\ (n - 1) + 1 = n
          BY <1>1, <3>2
        <4>2. QED
          BY <1>3, <3>2, <4>1
      <3>3. QED
        BY <3>1, <3>2
    <2>2. QED
      BY <2>1
  <1>5. Walk = Def(Walk)
    <2> HIDE DEF walk, Def
    <2> QED
      BY <1>4
  <1>6. \A n \in 0 .. N : Walk[n] = IF n = 0 THEN first ELSE More(Walk[n - 1])
    <2>1. PICK g : g = Walk
      OBVIOUS
    <2>2. g = [n \in 0 .. N |-> IF n = 0 THEN first ELSE More(g[n - 1])]
      BY <1>5, <2>1
    <2>3. QED
      BY <2>1, <2>2
  <1> HIDE DEF Walk
  <1> DEFINE S == {n \in Nat : n \in 0 .. N => Walk[n] = Walked(L, n)}
  <1>7. 0 \in S
    BY <1>1, <1>2, <1>6
  <1>8. ASSUME NEW n \in Nat, n \in S
        PROVE  n + 1 \in S
    <2>1. SUFFICES ASSUME n + 1 \in 0 .. N
                   PROVE  Walk[n + 1] = Walked(L, n + 1)
      OBVIOUS
    <2>2. n \in 0 .. N /\ (n + 1) - 1 = n /\ n + 1 # 0
      BY <1>1, <2>1
    <2>3. Walk[n] = Walked(L, n)
      BY <1>8, <2>2
    <2>4. QED
      BY <1>3, <1>6, <2>1, <2>2, <2>3
  <1>9. Nat \subseteq S
    <2> HIDE DEF S
    <2> QED
      BY <1>7, <1>8, NatSetInduction
  <1>10. Walk[N] = Walked(L, N)
    BY <1>1, <1>9
  <1>11. Derived(MetaOf(t)) = Walk[N]
    BY DEF Derived, Walk, N, first, More
  <1>12. Rounds(L, N) = Len(L)
    BY <1>1 DEF Rounds
  <1>13. /\ Len(Walked(L, N)) = Rounds(L, N) + 1
         /\ \A i \in 1 .. Rounds(L, N) + 1 : Walked(L, N)[i] = Node(L, i)
    BY <1>1, WalkedFacts
  <1>14. QED
    BY <1>10, <1>11, <1>12, <1>13

(* The derived list of every shared meta-object ends, and holds exactly    *)
(* the meta-objects of its direct subclasses that are shared, besides one  *)
(* that is under construction: no subclass is lost by pushes that threads  *)
(* make for different types.                                               *)
THEOREM NoSubclassLost == Spec => []DerivedListsComplete
  <1>1. ASSUME MetaInv, NEW t \in Types, sharedM[t] # NULL
        PROVE  LET list == Derived(sharedM[t])
                   members == {list[i] : i \in 1 .. Len(list) - 1}
                   direct == {sharedM[u] : u \in {v \in Types : BaseOf[v] = t /\ sharedM[v] # NULL}}
               IN  /\ list[Len(list)] = NULL
                   /\ Cardinality(members) = Len(list) - 1
                   /\ direct \subseteq members /\ members \subseteq direct \cup InConstruction
    <2> DEFINE direct == {sharedM[u] : u \in {v \in Types : BaseOf[v] = t /\ sharedM[v] # NULL}}
    <2>1. HeapInv /\ BuildInv /\ RegistryInv
      BY <1>1 DEF MetaInv, BuildInv
    <2>2. PICK L \in Seq(Types) : IsList(t, L, heap, Subclasses(t))
      BY <2>1 DEF HeapInv, HasLists
    <2>3. Len(L) \in Nat /\ \A i \in 1 .. Len(L) : L[i] \in Types
      BY LenProperties
    <2>4. \A u \in Types : sharedM[u] # NULL => sharedM[u] = MetaOf(u)
      BY <2>1 DEF HeapInv, OwnMetas, Own
    <2>5. PICK list : list = Derived(sharedM[t])
      OBVIOUS
    <2>6. Len(list) = Len(L) + 1 /\ \A i \in 1 .. Len(L) + 1 : list[i] = Node(L, i)
      BY <1>1, <2>1, <2>2, <2>4, <2>5, DerivedIs
    <2>7. list[Len(list)] = NULL
      <3>1. Len(L) + 1 \notin 1 .. Len(L) /\ Len(L) + 1 \in 1 .. Len(L) + 1
        BY <2>3
      <3>2. QED
        BY <2>6, <3>1 DEF Node
    <2> DEFINE members == {list[i] : i \in 1 .. Len(list) - 1}
    <2>8. Len(list) - 1 = Len(L)
      BY <2>3, <2>6
    <2>9. \A i \in 1 .. Len(L) : list[i] = MetaOf(L[i])
      BY <2>3, <2>6 DEF Node
    <2>10. members = {MetaOf(u) : u \in Subclasses(t)}
      BY <2>2, <2>8, <2>9 DEF IsList
    <2>11. Cardinality(members) = Len(list) - 1
      <3>1. PICK f : f = [i \in 1 .. Len(L) |-> MetaOf(L[i])]
        OBVIOUS
      <3>2. members = {MetaOf(L[i]) : i \in 1 .. Len(L)}
        BY <2>8, <2>9
      <3>3. f \in [1 .. Len(L) -> members] /\ \A i \in 1 .. Len(L) : f[i] = MetaOf(L[i])
        BY <3>1, <3>2
      <3>4. \A i, j \in 1 .. Len(L) : f[i] = f[j] => i = j
        BY <2>2, <3>3, MetaOfFacts DEF IsList
      <3>5. \A x \in members : \E i \in 1 .. Len(L) : f[i] = x
        BY <3>2, <3>3
      <3>6. f \in Bijection(1 .. Len(L), members)
        BY <3>3, <3>4, <3>5 DEF Bijection, Injection, Surjection, IsInjective
      <3>7. ExistsBijection(1 .. Len(L), members)
        BY <3>6 DEF ExistsBijection
      <3>8. IsFiniteSet(1 .. Len(L)) /\ Cardinality(1 .. Len(L)) = Len(L)
        BY <2>3, FS_Interval
      <3>9. QED
        BY <2>8, <3>7, <3>8, FS_Bijection
    <2>12. direct \subseteq members
      BY <2>4, <2>10 DEF Subclasses, Linked
    <2>13. members \subseteq direct \cup InConstruction
      <3>1. SUFFICES ASSUME NEW u \in Subclasses(t), sharedM[u] = NULL
                     PROVE  MetaOf(u) \in InConstruction
        BY <2>4, <2>10 DEF Subclasses
      <3>2. PICK th \in Threads : LinkedBy(u, th)
        BY <3>1 DEF Subclasses, Linked
      <3>3. PICK i \in 1 .. Len(calls[th]) : calls[th][i].type = u /\ calls[th][i].pc \in Reached
        BY <3>2 DEF LinkedBy
      <3>4. Place(calls[th][i]) /\ FrameOK(calls[th][i], sharedM)
        BY <2>1, <3>3 DEF HeapInv, Placed, RegistryInv, FramesOK
      <3>5. calls[th][i].self = MetaOf(u) /\ calls[th][i].self # NULL
        BY <3>3, <3>4 DEF Place, FrameOK, Own, Reached, Built
      <3>6. i \in DOMAIN calls[th]
        BY <2>1, LenProperties DEF RegistryInv, RegistryTypeOK
      <3>7. QED
        BY <3>5, <3>6 DEF InConstruction, Building
    <2> HIDE DEF members, direct
    <2>14. /\ list[Len(list)] = NULL
           /\ Cardinality(members) = Len(list) - 1
           /\ direct \subseteq members /\ members \subseteq direct \cup InConstruction
      BY <2>7, <2>11, <2>12, <2>13
    <2>15. QED
      BY <2>5, <2>14 DEF members, direct
  <1>2. MetaInv => DerivedListsComplete
    BY <1>1 DEF DerivedListsComplete
  <1>3. QED
    BY MetaInvariant, <1>2, PTL

=============================================================================
