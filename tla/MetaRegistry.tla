---------------------------- MODULE MetaRegistry ----------------------------
(***************************************************************************)
(* The lazily built meta-objects of D types, shared by all threads         *)
(* (meta! and MetaClass.construct, d2/qtd/meta/Runtime.d;                  *)
(* QtdMetaClass.construct, d2/qtd/QtdObject.d), and the search for the     *)
(* closest one when a native object needs a wrapper                        *)
(* (QMetaObject.getWrapper, d2/qt/core/QMetaObject.d).  Meta-objects are   *)
(* built under metaLock; the search takes no lock.                         *)
(*                                                                         *)
(* A step is one access to memory that other threads read; what only the   *)
(* thread itself, or only the holder of the lock, can see is part of the   *)
(* step next to it.  The memory is sequentially consistent.                *)
(***************************************************************************)
EXTENDS Integers, Sequences, FiniteSets

CONSTANTS
  NULL,
  Types,        \* the D classes
  BaseOf,       \* the base class; NULL: none
  Threads

VARIABLES
  sharedM,      \* per type: the meta-object all threads share
  m,            \* per thread and type: the thread's own reference to it
  made,         \* per type: how many meta-objects were allocated
  heap,         \* the meta-objects
  owner, depth, \* metaLock: the thread that holds it, and how often
  calls,        \* per thread: the calls of meta! that run, innermost first
  search        \* per thread: the search of getWrapper that runs, or NULL

lockVars == <<owner, depth>>
vars == <<sharedM, m, made, heap, lockVars, calls, search>>

(* A meta-object is named by its type and the attempt that allocated it;   *)
(* more than one attempt at a type would be a bug.                         *)
MaxMade == 2
Metas == Types \X (1 .. MaxMade)
Ref   == Metas \cup {NULL}

(* Classes form a forest: no class is its own ancestor.                    *)
ASSUME RegistryAssumption ==
  /\ NULL \notin Types \cup Threads \cup Metas
  /\ IsFiniteSet(Types)
  /\ BaseOf \in [Types -> Types \cup {NULL}]
  /\ \E rank \in [Types -> 1 .. Cardinality(Types)] :
       \A t \in Types : BaseOf[t] # NULL => rank[BaseOf[t]] < rank[t]

Meta == [base : Ref, next : Ref, firstDerived : Ref,
         nativeId : BOOLEAN, createWrapper : BOOLEAN]

Fresh == [base |-> NULL, next |-> NULL, firstDerived |-> NULL,
          nativeId |-> FALSE, createWrapper |-> FALSE]

(* t and its bases *)
Ancestors[t \in Types] == {t} \cup IF BaseOf[t] = NULL THEN {} ELSE Ancestors[BaseOf[t]]

Call == [type : Types, self : Ref,
         pc : {"lock", "base", "next", "push", "nativeId", "createWrapper", "share",
               "unlock", "cache"}]

(* this and mo are lookUpDerived's; native is the class of the native      *)
(* object.  best (the closest meta-object when the search began) only      *)
(* serves a property.                                                      *)
Search == [this : Metas, mo : Ref, native : Types, best : Types,
           pc : {"first", "loop", "create"}]

TypeOK ==
  /\ sharedM \in [Types -> Ref]
  /\ m \in [Threads -> [Types -> Ref]]
  /\ made \in [Types -> 0 .. MaxMade]
  /\ heap \in [Metas -> Meta]
  /\ owner \in Threads \cup {NULL}
  /\ depth \in Nat
  /\ calls \in [Threads -> Seq(Call)]
  /\ search \in [Threads -> Search \cup {NULL}]

Init ==
  /\ sharedM = [t \in Types |-> NULL]
  /\ m = [th \in Threads |-> [t \in Types |-> NULL]]
  /\ made = [t \in Types |-> 0]
  /\ heap = [mo \in Metas |-> Fresh]
  /\ owner = NULL /\ depth = 0
  /\ calls = [th \in Threads |-> <<>>]
  /\ search = [th \in Threads |-> NULL]

-----------------------------------------------------------------------------
(* meta!T, for the innermost call of a thread *)

Idle(th)   == calls[th] = <<>> /\ search[th] = NULL
At(th, pc) == calls[th] # <<>> /\ Head(calls[th]).pc = pc
T(th)      == Head(calls[th]).type
Self(th)   == Head(calls[th]).self

(* A call that finds the thread's own reference returns it: no step.       *)
Enter(t) == [type |-> t, self |-> NULL, pc |-> "lock"]
Goto(th, pc) == calls' = [calls EXCEPT ![th][1].pc = pc]

Set(th, field, value, pc) ==
  /\ heap' = [heap EXCEPT ![Self(th)][field] = value]
  /\ Goto(th, pc)
  /\ UNCHANGED <<sharedM, m, made, lockVars, search>>

Ask(th, t) ==
  /\ Idle(th) /\ m[th][t] = NULL
  /\ calls' = [calls EXCEPT ![th] = <<Enter(t)>>]
  /\ UNCHANGED <<sharedM, m, made, heap, lockVars, search>>

(* The operators with a suffix are variants with a plausible bug that the  *)
(* runs must reject.                                                       *)
Lock_NoSecondTest(th) ==
  /\ At(th, "lock") /\ owner \in {th, NULL}
  /\ owner' = th /\ depth' = depth + 1
  /\ made[T(th)] < MaxMade
  /\ made' = [made EXCEPT ![T(th)] = @ + 1]
  /\ calls' = [calls EXCEPT ![th][1] =
                             [@ EXCEPT !.self = <<T(th), made'[T(th)]>>, !.pc = "base"]]
  /\ UNCHANGED <<sharedM, m, heap, search>>

Lock_NotReentrant(th) ==
  /\ At(th, "lock") /\ owner = NULL
  /\ owner' = th /\ depth' = depth + 1
  /\ IF sharedM[T(th)] # NULL
     THEN Goto(th, "unlock") /\ UNCHANGED made
     ELSE /\ made' = [made EXCEPT ![T(th)] = @ + 1]
          /\ calls' = [calls EXCEPT ![th][1] =
                             [@ EXCEPT !.self = <<T(th), made'[T(th)]>>, !.pc = "base"]]
  /\ UNCHANGED <<sharedM, m, heap, search>>

Lock_NotCounted(th) ==
  /\ At(th, "lock") /\ owner \in {th, NULL}
  /\ owner' = th /\ depth' = 1
  /\ IF sharedM[T(th)] # NULL
     THEN Goto(th, "unlock") /\ UNCHANGED made
     ELSE /\ made[T(th)] < MaxMade
          /\ made' = [made EXCEPT ![T(th)] = @ + 1]
          /\ calls' = [calls EXCEPT ![th][1] =
                             [@ EXCEPT !.self = <<T(th), made'[T(th)]>>, !.pc = "base"]]
  /\ UNCHANGED <<sharedM, m, heap, search>>

Lock_SharesAtOnce(th) ==
  /\ At(th, "lock") /\ owner \in {th, NULL}
  /\ owner' = th /\ depth' = depth + 1
  /\ IF sharedM[T(th)] # NULL
     THEN Goto(th, "unlock") /\ UNCHANGED <<made, sharedM>>
     ELSE /\ made[T(th)] < MaxMade
          /\ made' = [made EXCEPT ![T(th)] = @ + 1]
          /\ sharedM' = [sharedM EXCEPT ![T(th)] = <<T(th), made'[T(th)]>>]
          /\ calls' = [calls EXCEPT ![th][1] =
                             [@ EXCEPT !.self = <<T(th), made'[T(th)]>>, !.pc = "base"]]
  /\ UNCHANGED <<m, heap, search>>

(* synchronized(metaLock): the lock may be taken again by its owner.  Then *)
(* sharedM, which is only written under the lock, is tested; if it is null *)
(* M.create allocates the meta-object.                                     *)
Lock(th) ==
  /\ At(th, "lock") /\ owner \in {th, NULL}
  /\ owner' = th /\ depth' = depth + 1
  /\ IF sharedM[T(th)] # NULL
     THEN Goto(th, "unlock") /\ UNCHANGED made
     ELSE /\ made[T(th)] < MaxMade
          /\ made' = [made EXCEPT ![T(th)] = @ + 1]
          /\ calls' = [calls EXCEPT ![th][1] =
                             [@ EXCEPT !.self = <<T(th), made'[T(th)]>>, !.pc = "base"]]
  /\ UNCHANGED <<sharedM, m, heap, search>>

(* base_ = meta!Base, a nested call unless the thread knows the base.      *)
CallBase(th) ==
  /\ At(th, "base") /\ BaseOf[T(th)] # NULL /\ m[th][BaseOf[T(th)]] = NULL
  /\ calls' = [calls EXCEPT ![th] = <<Enter(BaseOf[T(th)])>> \o @]
  /\ UNCHANGED <<sharedM, m, made, heap, lockVars, search>>

SetBase(th) ==
  /\ At(th, "base")
  /\ IF BaseOf[T(th)] = NULL
     THEN Goto(th, "nativeId") /\ UNCHANGED <<sharedM, m, made, heap, lockVars, search>>
     ELSE /\ m[th][BaseOf[T(th)]] # NULL
          /\ Set(th, "base", m[th][BaseOf[T(th)]], "next")

SetNext_Null(th) == At(th, "next") /\ Set(th, "next", NULL, "push")

SetNext(th) ==
  At(th, "next") /\ Set(th, "next", heap[heap[Self(th)].base].firstDerived, "push")

(* From here on a search finds the meta-object, as yet without the rest.   *)
Push(th) ==
  /\ At(th, "push")
  /\ heap' = [heap EXCEPT ![heap[Self(th)].base].firstDerived = Self(th)]
  /\ Goto(th, "nativeId")
  /\ UNCHANGED <<sharedM, m, made, lockVars, search>>

SetNativeId(th) == At(th, "nativeId") /\ Set(th, "nativeId", TRUE, "createWrapper")

SetCreateWrapper(th) == At(th, "createWrapper") /\ Set(th, "createWrapper", TRUE, "share")

(* construct has added the methods, which no search reads, and returns.    *)
Share(th) ==
  /\ At(th, "share")
  /\ sharedM' = [sharedM EXCEPT ![T(th)] = Self(th)]
  /\ Goto(th, "unlock")
  /\ UNCHANGED <<m, made, heap, lockVars, search>>

Unlock(th) ==
  /\ At(th, "unlock")
  /\ depth' = depth - 1
  /\ owner' = IF depth' = 0 THEN NULL ELSE th
  /\ Goto(th, "cache")
  /\ UNCHANGED <<sharedM, m, made, heap, search>>

(* m = sharedM, after the lock is released, and return *)
Cache(th) ==
  /\ At(th, "cache")
  /\ m' = [m EXCEPT ![th][T(th)] = sharedM[T(th)]]
  /\ calls' = [calls EXCEPT ![th] = Tail(@)]
  /\ UNCHANGED <<sharedM, made, heap, lockVars, search>>

-----------------------------------------------------------------------------
(* getWrapper and lookUpDerived *)

(* The class on the way from t down to the native object's class: moIds[0] *)
Toward(t, native) == CHOOSE c \in Ancestors[native] : BaseOf[c] = t

(* The closest class that has been registered *)
Closest(native) ==
  CHOOSE t \in Ancestors[native] :
    /\ sharedM[t] # NULL
    /\ \A u \in Ancestors[native] : sharedM[u] # NULL => u \in Ancestors[t]

SetSearch(th, s) == search' = [search EXCEPT ![th] = s]

(* getWrapper is called on the meta-object of t for a native object whose  *)
(* class is t or derived from it.                                          *)
getWrapper(th, t, native) ==
  /\ Idle(th) /\ m[th][t] # NULL /\ t \in Ancestors[native]
  /\ SetSearch(th, [this |-> m[th][t], mo |-> NULL, native |-> native,
                    best |-> Closest(native),
                    pc |-> IF native = t THEN "create" ELSE "first"])
  /\ UNCHANGED <<sharedM, m, made, heap, lockVars, calls>>

Searching(th, pc) == search[th] # NULL /\ search[th].pc = pc

FirstDerived(th) ==
  /\ Searching(th, "first")
  /\ SetSearch(th, [search[th] EXCEPT !.mo = heap[search[th].this].firstDerived, !.pc = "loop"])
  /\ UNCHANGED <<sharedM, m, made, heap, lockVars, calls>>

Matches(s) == s.mo # NULL /\ heap[s.mo].nativeId /\ s.mo[1] = Toward(s.this[1], s.native)

(* Exact match found, or look deeper. *)
Match(th) ==
  /\ Searching(th, "loop") /\ Matches(search[th])
  /\ SetSearch(th, [search[th] EXCEPT !.this = search[th].mo, !.mo = NULL,
                      !.pc = IF search[th].mo[1] = search[th].native THEN "create" ELSE "first"])
  /\ UNCHANGED <<sharedM, m, made, heap, lockVars, calls>>

NextDerived(th) ==
  /\ Searching(th, "loop") /\ search[th].mo # NULL /\ ~Matches(search[th])
  /\ SetSearch(th, [search[th] EXCEPT !.mo = heap[search[th].mo].next])
  /\ UNCHANGED <<sharedM, m, made, heap, lockVars, calls>>

(* "no initialized wrapper that matches the native object.                 *)
(* use the base class wrapper"                                             *)
NoMatch(th) ==
  /\ Searching(th, "loop") /\ search[th].mo = NULL
  /\ SetSearch(th, [search[th] EXCEPT !.pc = "create"])
  /\ UNCHANGED <<sharedM, m, made, heap, lockVars, calls>>

(* mo._createWrapper is called. *)
Create(th) ==
  /\ Searching(th, "create")
  /\ SetSearch(th, NULL)
  /\ UNCHANGED <<sharedM, m, made, heap, lockVars, calls>>

-----------------------------------------------------------------------------
MetaStep(th) ==
  \/ Lock(th) \/ CallBase(th) \/ SetBase(th) \/ SetNext(th) \/ Push(th)
  \/ SetNativeId(th) \/ SetCreateWrapper(th) \/ Share(th) \/ Unlock(th) \/ Cache(th)

SearchStep(th) ==
  FirstDerived(th) \/ Match(th) \/ NextDerived(th) \/ NoMatch(th) \/ Create(th)

Next ==
  \E th \in Threads :
    \/ \E t \in Types : Ask(th, t) \/ \E native \in Types : getWrapper(th, t, native)
    \/ MetaStep(th) \/ SearchStep(th)

(* A thread that is in a call goes on; it need never make one.  Each       *)
(* thread takes the lock for a type until it has its own reference, so a   *)
(* thread that waits need not overtake others for ever: weak fairness is   *)
(* enough.                                                                 *)
Fairness == \A th \in Threads : WF_vars(MetaStep(th)) /\ WF_vars(SearchStep(th))

Spec == Init /\ [][Next]_vars
FairSpec == Spec /\ Fairness

-----------------------------------------------------------------------------
Building(th) == {calls[th][i].self : i \in DOMAIN calls[th]} \ {NULL}

InConstruction == UNION {Building(th) : th \in Threads}

(* The list of derived meta-objects, as far as the bound on their number.  *)
Derived(mo) ==
  LET walk[n \in 0 .. Cardinality(Types)] ==
        IF n = 0 THEN <<heap[mo].firstDerived>>
        ELSE LET end == walk[n - 1][Len(walk[n - 1])]
             IN  IF end = NULL THEN walk[n - 1] ELSE Append(walk[n - 1], heap[end].next)
  IN  walk[Cardinality(Types)]

(* Whatever threads ask at the same time, a type gets one meta-object: the *)
(* second test of sharedM, under the lock, sees the first one's.           *)
OneMetaPerType == \A t \in Types : made[t] <= 1

(* The derived list of every shared meta-object ends, and holds exactly    *)
(* the meta-objects of its direct subclasses that are shared, besides one  *)
(* that is under construction: no subclass is lost by pushes that threads  *)
(* make for different types.                                               *)
DerivedListsComplete ==
  \A t \in Types : sharedM[t] # NULL =>
    LET list == Derived(sharedM[t])
        members == {list[i] : i \in 1 .. Len(list) - 1}
        direct == {sharedM[u] : u \in {v \in Types : BaseOf[v] = t /\ sharedM[v] # NULL}}
    IN  /\ list[Len(list)] = NULL
        /\ Cardinality(members) = Len(list) - 1
        /\ direct \subseteq members /\ members \subseteq direct \cup InConstruction

(* A search, although it takes no lock, ends at the meta-object of a class *)
(* of the native object that is as close to it as any whose meta-object    *)
(* was there when the search began.                                        *)
SearchFindsClosest ==
  [][\A th \in Threads :
       Create(th) => /\ search[th].this[1] \in Ancestors[search[th].native]
                     /\ search[th].best \in Ancestors[search[th].this[1]]]_vars

Registered == {t \in Types : sharedM[t] # NULL}
Known      == [th \in Threads |-> {t \in Types : m[th][t] # NULL}]

(* Registrations by any number of threads look as if each type had been    *)
(* registered in one step, after its base.                                 *)
Abstract == INSTANCE TypeRegistry WITH registered <- Registered, known <- Known

ImplementsRegistry == Abstract!Spec

(* Every call of meta! returns and every search ends, though calls nest    *)
(* under the lock and threads wait for it.                                 *)
EveryCallReturns == \A th \in Threads : ~Idle(th) ~> Idle(th)

(* metaLock is the "Object to lock on when accessing thread-shared         *)
(* meta-objects" (lines 19-20): a search never meets one that is still     *)
(* being built, so the function that creates the wrapper is there.         *)
CreateWrapperReady ==
  [][\A th \in Threads : Create(th) => heap[search[th].this].createWrapper]_vars
=============================================================================
