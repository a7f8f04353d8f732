------------------------------ MODULE QtdObject ------------------------------
(***************************************************************************)
(* The two halves of a bound object and the ways they are destroyed.       *)
(*                                                                         *)
(* A native is a C++ object; a wrapper is the D object (class QtdObject)   *)
(* that stands for it.  For a QObject, C++ finds the wrapper through a     *)
(* QObjectLink kept in the user data of the native.  Either half can be    *)
(* destroyed first: `delete` on the wrapper, the garbage collector, a C++  *)
(* parent, or C++ code that owns the native.  Each destructor calls the    *)
(* other half's, and two flags of the wrapper (nativeDeleteDisabled and    *)
(* wrapperDeleteDisabled) keep the second from calling back.  Destructors  *)
(* also run user code (a D destructor, a slot on destroyed(), an event     *)
(* handler), which may create, wrap or destroy other objects and may start *)
(* a collection; hence the call stack.                                     *)
(*                                                                         *)
(* C++ and D run on one thread here (Qt's GUI thread).                     *)
(***************************************************************************)
EXTENDS PinList, Sequences, Naturals

CONSTANT Natives          \* the C++ objects

ASSUME NativesAssumption == Natives \cap (Wrappers \cup {NULL}) = {}

VARIABLES
  kind,                   \* what each native is, see Kinds
  nstate,                 \* and whether it exists
  parent,                 \* its QObject parent
  link,                   \* the dId its QtdObjectLink / QObjectLink holds
  wstate,                 \* the same for each wrapper
  nativeId,               \* _nativeId
  nativeDeleteDisabled,   \* _flags.nativeDeleteDisabled
  wrapperDeleteDisabled,  \* _flags.wrapperDeleteDisabled
  held,                   \* the wrappers D code holds a reference to
  stack                   \* the destructors that are running, innermost first

nativeVars  == <<kind, nstate, parent, link>>
wrapperVars == <<wstate, nativeId, nativeDeleteDisabled, wrapperDeleteDisabled, held>>
vars == <<listVars, nativeVars, wrapperVars, stack>>

(* "shell": a QObject created from D, an instance of the generated shell   *)
(* class, which is its own link.  "qobject": a QObject created by C++.     *)
(* "poly": a polymorphic non-QObject created from D.  "plain": any other   *)
(* object, handed to D with native ownership.                              *)
Kinds == {"none", "shell", "qobject", "poly", "plain"}
Life  == {"none", "alive", "dying", "dead"}

Frames == [fn : {"~QtdObject"}, id : Wrappers, at : {"body", "unpin"}]
          \cup [fn : {"~native"}, id : Natives,
                at : {"shell", "unlink", "children", "userData", "end"}]

TypeOK ==
  /\ ListTypeOK
  /\ kind \in [Natives -> Kinds]
  /\ nstate \in [Natives -> Life]
  /\ parent \in [Natives -> Natives \cup {NULL}]
  /\ link \in [Natives -> Wrappers \cup {NULL}]
  /\ wstate \in [Wrappers -> Life]
  /\ nativeId \in [Wrappers -> Natives \cup {NULL}]
  /\ nativeDeleteDisabled \in [Wrappers -> BOOLEAN]
  /\ wrapperDeleteDisabled \in [Wrappers -> BOOLEAN]
  /\ held \in SUBSET Wrappers
  /\ stack \in Seq(Frames)

Init ==
  /\ ListInit
  /\ kind = [n \in Natives |-> "none"]
  /\ nstate = [n \in Natives |-> "none"]
  /\ parent = [n \in Natives |-> NULL]
  /\ link = [n \in Natives |-> NULL]
  /\ wstate = [w \in Wrappers |-> "none"]
  /\ nativeId = [w \in Wrappers |-> NULL]
  /\ nativeDeleteDisabled = [w \in Wrappers |-> FALSE]
  /\ wrapperDeleteDisabled = [w \in Wrappers |-> FALSE]
  /\ held = {}
  /\ stack = <<>>

-----------------------------------------------------------------------------
IsQObject(n) == kind[n] \in {"shell", "qobject"}

(* qtdSetOwnership keeps the owner of a D-created polymorphic object in    *)
(* the pin, of any other in nativeDeleteDisabled.                          *)
NativeOwned(w) == IF kind[nativeId[w]] = "poly" THEN pinned[w]
                                                ELSE nativeDeleteDisabled[w]

(* The destruction of d has begun, on either side. *)
BeingDestroyed(d) ==
  \/ nstate[d] = "dying"
  \/ \E w \in Wrappers : /\ nativeId[w] = d /\ wstate[w] = "dying"
                        /\ ~nativeDeleteDisabled[w]

(* QObject's own contract: nobody deletes an object from within its own    *)
(* destruction or a descendant's.                                          *)
MayDelete(n) ==
  /\ nstate[n] = "alive"
  /\ \A d \in Natives : BeingDestroyed(d) =>
       \E S \in SUBSET Natives : /\ d \in S /\ n \notin S
                                /\ \A m \in S : {parent[m]} \ {NULL} \subseteq S

(* User code runs between calls, in a D destructor before the base class's *)
(* ~this, and in what ~QObject emits and sends while it deletes children.  *)
UserCode == stack # <<>> => Head(stack).at \in {"body", "children"}

(* Which destructor is running, and where it is. *)
Running(fn, id, pc) == stack # <<>> /\ Head(stack) = [fn |-> fn, id |-> id, at |-> pc]
At(pc) == [Head(stack) EXCEPT !.at = pc]

DeleteEntry(n) == CASE kind[n] = "shell"   -> "shell"
                    [] kind[n] = "qobject" -> "children"
                    [] OTHER               -> "end"

(* C++ delete of a native, called with the stack as `callers`. *)
qtdDeleteNative(n, callers) ==
  /\ nstate' = [nstate EXCEPT ![n] = "dying"]
  /\ stack' = <<[fn |-> "~native", id |-> n, at |-> DeleteEntry(n)]>> \o callers

(* D delete of a wrapper, likewise. *)
deleteWrapper(w, callers) ==
  /\ wstate' = [wstate EXCEPT ![w] = "dying"]
  /\ stack' = <<[fn |-> "~QtdObject", id |-> w, at |-> "body"]>> \o callers

-----------------------------------------------------------------------------
(* What user code and C++ code do. *)

(* A QObject reaches D code, as an argument, a return value or a sender:   *)
(* always while it exists, and still from the destroyed() signal.          *)
Visible(n) == \/ nstate[n] = "alive"
              \/ \E i \in DOMAIN stack : stack[i].id = n /\ stack[i].at = "children"

NewWrapper(w, n) ==
  /\ wstate[w] = "none"
  /\ wstate' = [wstate EXCEPT ![w] = "alive"]
  /\ nativeId' = [nativeId EXCEPT ![w] = n]
  /\ held' = held \cup {w}

(* Variants of the actions below with a plausible bug each; MCQtdObject     *)
(* must reject them.                                                       *)
getWrapperNew_Variant(n, w, known, linked, pin) ==
  /\ UserCode /\ IsQObject(n) /\ Visible(n)
  /\ known
  /\ NewWrapper(w, n) /\ (IF pin THEN qtdPin(w) ELSE UNCHANGED listVars)
  /\ link' = [link EXCEPT ![n] = linked]
  /\ UNCHANGED <<kind, nstate, parent, nativeDeleteDisabled, wrapperDeleteDisabled, stack>>

getWrapperNew_NoLookup(n, w)    == getWrapperNew_Variant(n, w, TRUE, w, TRUE)
getWrapperNew_LinksNative(n, w) == getWrapperNew_Variant(n, w, link[n] = NULL, n, TRUE)
getWrapperNew_NotPinned(n, w)   == getWrapperNew_Variant(n, w, link[n] = NULL, w, FALSE)

WrapperBody_IgnoresFlag(w) ==
  /\ Running("~QtdObject", w, "body")
  /\ wrapperDeleteDisabled' = [wrapperDeleteDisabled EXCEPT ![w] = TRUE]
  /\ qtdDeleteNative(nativeId[w], <<At("unpin")>> \o Tail(stack))
  /\ UNCHANGED <<listVars, kind, parent, link, wstate, nativeId,
                 nativeDeleteDisabled, held>>

WrapperUnpin_Forgets(w) ==
  /\ Running("~QtdObject", w, "unpin")
  /\ wstate' = [wstate EXCEPT ![w] = "dead"]
  /\ held' = held \ {w}
  /\ stack' = Tail(stack)
  /\ UNCHANGED <<listVars, nativeVars, nativeId, nativeDeleteDisabled, wrapperDeleteDisabled>>

ShellUnlink_KeepsLink(n) ==
  /\ Running("~native", n, "unlink")
  /\ stack' = <<At("children")>> \o Tail(stack)
  /\ UNCHANGED <<listVars, nativeVars, wrapperVars>>

DeleteUserData_NoEntity(n) ==
  /\ Running("~native", n, "userData")
  /\ stack' = <<At("end")>> \o Tail(stack)
  /\ UNCHANGED <<listVars, nativeVars, wrapperVars>>

(* D: new SomeQObject(parent).  The shell is built with its link, then the *)
(* wrapper pins itself.                                                    *)
NewQObject(n, w, p) ==
  /\ UserCode /\ nstate[n] = "none"
  /\ p # NULL => IsQObject(p) /\ nstate[p] = "alive"
  /\ kind' = [kind EXCEPT ![n] = "shell"]
  /\ nstate' = [nstate EXCEPT ![n] = "alive"]
  /\ parent' = [parent EXCEPT ![n] = p]
  /\ link' = [link EXCEPT ![n] = w]
  /\ NewWrapper(w, n) /\ qtdPin(w)
  /\ UNCHANGED <<nativeDeleteDisabled, wrapperDeleteDisabled, stack>>

(* D: new of a polymorphic non-QObject, owned by D. *)
NewPolymorphic(n, w) ==
  /\ UserCode /\ nstate[n] = "none"
  /\ kind' = [kind EXCEPT ![n] = "poly"]
  /\ nstate' = [nstate EXCEPT ![n] = "alive"]
  /\ link' = [link EXCEPT ![n] = w]
  /\ NewWrapper(w, n)
  /\ UNCHANGED <<listVars, parent, nativeDeleteDisabled, wrapperDeleteDisabled, stack>>

(* C++ creates a QObject or another object. *)
NewNative(n, k, p) ==
  /\ UserCode /\ nstate[n] = "none"
  /\ k \in {"qobject", "plain"}
  /\ p # NULL => k = "qobject" /\ IsQObject(p) /\ nstate[p] = "alive"
  /\ kind' = [kind EXCEPT ![n] = k]
  /\ nstate' = [nstate EXCEPT ![n] = "alive"]
  /\ parent' = [parent EXCEPT ![n] = p]
  /\ UNCHANGED <<listVars, link, wrapperVars, stack>>

(* QMetaObject.getWrapper finds the link (D code keeps no wrapper whose    *)
(* destructor is running, so that case is left out) ...                    *)
getWrapperKnown(n) ==
  /\ UserCode /\ IsQObject(n) /\ Visible(n)
  /\ link[n] # NULL /\ wstate[link[n]] = "alive"
  /\ link[n] \notin held
  /\ held' = held \cup {link[n]}
  /\ UNCHANGED <<listVars, nativeVars, wstate, nativeId, nativeDeleteDisabled,
                 wrapperDeleteDisabled, stack>>

(* ... or wraps the native and gives it an entity to link back.            *)
getWrapperNew(n, w) ==
  /\ UserCode /\ IsQObject(n) /\ Visible(n)
  /\ link[n] = NULL
  /\ NewWrapper(w, n) /\ qtdPin(w)
  /\ link' = [link EXCEPT ![n] = w]
  /\ UNCHANGED <<kind, nstate, parent, nativeDeleteDisabled, wrapperDeleteDisabled, stack>>

(* A plain native reaches D; each time it does it gets another wrapper.    *)
WrapPlain(n, w) ==
  /\ UserCode /\ kind[n] = "plain" /\ nstate[n] = "alive"
  /\ NewWrapper(w, n)
  /\ nativeDeleteDisabled' = [nativeDeleteDisabled EXCEPT ![w] = TRUE]
  /\ UNCHANGED <<listVars, nativeVars, wrapperDeleteDisabled, stack>>

(* D code forgets its last reference to a wrapper. *)
Drop(w) ==
  /\ UserCode /\ w \in held
  /\ held' = held \ {w}
  /\ UNCHANGED <<listVars, nativeVars, wstate, nativeId, nativeDeleteDisabled,
                 wrapperDeleteDisabled, stack>>

Owns(w) == wstate[w] = "alive" /\ ~NativeOwned(w)

(* qtdSetOwnership(native).  "Setting the same ownership twice results in  *)
(* undefined behavior", so the caller does not; on a QObject it returns at *)
(* once.                                                                   *)
setOwnershipNative(w) ==
  /\ UserCode /\ w \in held /\ wstate[w] = "alive"
  /\ nstate[nativeId[w]] = "alive" /\ ~IsQObject(nativeId[w])
  /\ ~NativeOwned(w)
  /\ IF kind[nativeId[w]] = "poly"
     THEN qtdPin(w) /\ UNCHANGED nativeDeleteDisabled
     ELSE /\ nativeDeleteDisabled' = [nativeDeleteDisabled EXCEPT ![w] = TRUE]
          /\ UNCHANGED listVars
  /\ UNCHANGED <<nativeVars, wstate, nativeId, wrapperDeleteDisabled, held, stack>>

(* qtdSetOwnership(d); a native has at most one D owner. *)
setOwnershipD(w) ==
  /\ UserCode /\ w \in held /\ wstate[w] = "alive"
  /\ nstate[nativeId[w]] = "alive" /\ ~IsQObject(nativeId[w])
  /\ NativeOwned(w)
  /\ \A v \in Wrappers : nativeId[v] = nativeId[w] => ~Owns(v)
  /\ ~BeingDestroyed(nativeId[w])
  /\ IF kind[nativeId[w]] = "poly"
     THEN qtdUnpin(w) /\ UNCHANGED nativeDeleteDisabled
     ELSE /\ nativeDeleteDisabled' = [nativeDeleteDisabled EXCEPT ![w] = FALSE]
          /\ UNCHANGED listVars
  /\ UNCHANGED <<nativeVars, wstate, nativeId, wrapperDeleteDisabled, held, stack>>

(* D: delete w, or the end of the scope of a `scope` object. *)
Delete(w) ==
  /\ UserCode /\ w \in held /\ wstate[w] = "alive"
  /\ MayDelete(nativeId[w])
  /\ ~(kind[nativeId[w]] = "poly" /\ pinned[w])
  /\ deleteWrapper(w, stack)
  /\ UNCHANGED <<listVars, nativeVars, nativeId, nativeDeleteDisabled,
                 wrapperDeleteDisabled, held>>

(* The collector finalizes a wrapper it reaches neither from D code nor    *)
(* from the pin list.                                                      *)
Collect(w) ==
  /\ UserCode /\ wstate[w] = "alive"
  /\ w \notin Marked(held \cup ({root} \ {NULL}))
  /\ deleteWrapper(w, stack)
  /\ UNCHANGED <<listVars, nativeVars, nativeId, nativeDeleteDisabled,
                 wrapperDeleteDisabled, held>>

(* C++ deletes an object: any QObject, but another object only while no    *)
(* wrapper owns it.                                                        *)
NativeDelete(n) ==
  /\ UserCode /\ MayDelete(n)
  /\ IsQObject(n) \/ \A w \in Wrappers : nativeId[w] = n => ~Owns(w)
  /\ qtdDeleteNative(n, stack)
  /\ UNCHANGED <<listVars, kind, parent, link, wrapperVars>>

-----------------------------------------------------------------------------
(* What the running destructor does next. *)

(* ~this, first half: delete the native unless C++ is already doing so.    *)
WrapperBody(w) ==
  /\ Running("~QtdObject", w, "body")
  /\ IF nativeDeleteDisabled[w]
     THEN stack' = <<At("unpin")>> \o Tail(stack) /\ UNCHANGED <<nstate, wrapperDeleteDisabled>>
     ELSE /\ wrapperDeleteDisabled' = [wrapperDeleteDisabled EXCEPT ![w] = TRUE]
          /\ qtdDeleteNative(nativeId[w], <<At("unpin")>> \o Tail(stack))
  /\ UNCHANGED <<listVars, kind, parent, link, wstate, nativeId,
                 nativeDeleteDisabled, held>>

(* ~this, second half. *)
WrapperUnpin(w) ==
  /\ Running("~QtdObject", w, "unpin")
  /\ IF pinned[w] THEN qtdUnpin(w) ELSE UNCHANGED listVars
  /\ wstate' = [wstate EXCEPT ![w] = "dead"]
  /\ held' = held \ {w}
  /\ stack' = Tail(stack)
  /\ UNCHANGED <<nativeVars, nativeId, nativeDeleteDisabled, wrapperDeleteDisabled>>

(* qtd_QtdObject_delete, called by a link: delete the wrapper unless D is  *)
(* already doing so.                                                       *)
QtdObject_delete(w, callers) ==
  IF wrapperDeleteDisabled[w]
  THEN stack' = callers /\ UNCHANGED <<wstate, nativeDeleteDisabled>>
  ELSE /\ nativeDeleteDisabled' = [nativeDeleteDisabled EXCEPT ![w] = TRUE]
       /\ deleteWrapper(w, callers)

(* The generated destructor of the shell class: destroyLink(this), which   *)
(* calls D ...                                                             *)
ShellDestroyLink(n) ==
  /\ Running("~native", n, "shell")
  /\ QtdObject_delete(link[n], <<At("unlink")>> \o Tail(stack))
  /\ UNCHANGED <<listVars, nativeVars, nativeId, wrapperDeleteDisabled, held>>

(* ... and then takes the link out of the user data. *)
ShellUnlink(n) ==
  /\ Running("~native", n, "unlink")
  /\ link' = [link EXCEPT ![n] = NULL]
  /\ stack' = <<At("children")>> \o Tail(stack)
  /\ UNCHANGED <<listVars, kind, nstate, parent, wrapperVars>>

(* ~QObject deletes the children one by one ... *)
DeleteChild(n, c) ==
  /\ Running("~native", n, "children")
  /\ parent[c] = n /\ nstate[c] = "alive"
  /\ qtdDeleteNative(c, stack)
  /\ UNCHANGED <<listVars, kind, parent, link, wrapperVars>>

ChildrenDeleted(n) ==
  /\ Running("~native", n, "children")
  /\ \A c \in Natives : parent[c] = n => nstate[c] # "alive"
  /\ stack' = <<At("userData")>> \o Tail(stack)
  /\ UNCHANGED <<listVars, nativeVars, wrapperVars>>

(* ... and then its user data: an entity, whose ~QObjectLink calls D.      *)
DeleteUserData(n) ==
  /\ Running("~native", n, "userData")
  /\ LET callers == <<At("end")>> \o Tail(stack)
     IN  IF link[n] = NULL
         THEN stack' = callers /\ UNCHANGED <<wstate, nativeDeleteDisabled>>
         ELSE QtdObject_delete(link[n], callers)
  /\ UNCHANGED <<listVars, nativeVars, nativeId, wrapperDeleteDisabled, held>>

NativeFreed(n) ==
  /\ Running("~native", n, "end")
  /\ nstate' = [nstate EXCEPT ![n] = "dead"]
  /\ link' = [link EXCEPT ![n] = NULL]
  /\ stack' = Tail(stack)
  /\ UNCHANGED <<listVars, kind, parent, wrapperVars>>

-----------------------------------------------------------------------------
Destruct ==
  \/ \E w \in Wrappers : WrapperBody(w) \/ WrapperUnpin(w)
  \/ \E n \in Natives : \/ ShellDestroyLink(n) \/ ShellUnlink(n)
                        \/ ChildrenDeleted(n) \/ DeleteUserData(n) \/ NativeFreed(n)
                        \/ \E c \in Natives : DeleteChild(n, c)

Next ==
  \/ Destruct
  \/ \E n \in Natives, w \in Wrappers : \/ NewPolymorphic(n, w)
                                        \/ getWrapperNew(n, w)
                                        \/ WrapPlain(n, w)
                                        \/ \E p \in Natives \cup {NULL} : NewQObject(n, w, p)
  \/ \E n \in Natives : \/ getWrapperKnown(n) \/ NativeDelete(n)
                        \/ \E k \in Kinds, p \in Natives \cup {NULL} : NewNative(n, k, p)
  \/ \E w \in Wrappers : \/ Drop(w) \/ setOwnershipNative(w) \/ setOwnershipD(w)
                         \/ Delete(w) \/ Collect(w)

Spec == Init /\ [][Next]_vars

-----------------------------------------------------------------------------
(* Whenever a virtual call, a slot or getWrapper can follow a link from    *)
(* C++ to D, the dId in the link is a wrapper of that very native whose    *)
(* memory still exists.                                                    *)
LinkNeverDangles ==
  UserCode => \A n \in Natives : link[n] # NULL =>
    wstate[link[n]] \in {"alive", "dying"} /\ nativeId[link[n]] = n

(* D never holds a usable wrapper of a QObject that C++ has already freed, *)
(* whichever side began the destruction and whatever ran in between.       *)
WrapperNeverOutlivesQObject ==
  \A w \in Wrappers :
    wstate[w] = "alive" /\ IsQObject(nativeId[w]) => nstate[nativeId[w]] \in {"alive", "dying"}

(* "wrappers for QObject instances ... are always unique" (isSame, lines   *)
(* 140-142), even when one is made while the native is being destroyed.    *)
UniqueQObjectWrapper ==
  \A v, w \in Wrappers :
    (/\ wstate[v] = "alive" /\ wstate[w] = "alive"
     /\ nativeId[v] = nativeId[w] /\ IsQObject(nativeId[v])) => v = w

(* The destructor of an object is entered once: never while it is running  *)
(* ("avoid deleting D object twice", "Avoid deleting native object twice") *)
(* nor after it has run.                                                   *)
DestroyedOnce ==
  [][ /\ \A i, j \in DOMAIN stack' : stack'[i].id = stack'[j].id => i = j
      /\ \A n \in Natives : nstate[n] = "dead" => nstate'[n] = "dead"
      /\ \A w \in Wrappers : wstate[w] = "dead" => wstate'[w] = "dead" ]_vars

(* The collector never takes a wrapper C++ still needs, although D code    *)
(* may have dropped every reference to it: that of any QObject, and of a   *)
(* D-created polymorphic object that was given to C++.                     *)
NeededWrapperKept ==
  \A w \in Wrappers :
    (/\ wstate[w] = "alive"
     /\ \/ IsQObject(nativeId[w])
        \/ kind[nativeId[w]] = "poly" /\ NativeOwned(w)) => w \in Shielded

(* When the outermost destructor returns, nothing is left half destroyed:  *)
(* the wrapper of a freed QObject is freed and off the pin list, and no    *)
(* child outlives its parent.                                              *)
DestructionIsComplete ==
  stack = <<>> => \A n \in Natives : nstate[n] = "dead" =>
    /\ \A c \in Natives : parent[c] = n => nstate[c] = "dead"
    /\ IsQObject(n) => \A w \in Wrappers : nativeId[w] = n =>
                           wstate[w] = "dead" /\ ~pinned[w]
=============================================================================
