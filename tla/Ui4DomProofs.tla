---------------------------- MODULE Ui4DomProofs ----------------------------
(***************************************************************************)
(* Proofs about Ui4Dom for every class of ui4.cpp, any documents and any   *)
(* bounds: what the objects of a form own is a forest, whose roots are the *)
(* objects still being read, so no object leaks and none is deleted twice. *)
(*                                                                         *)
(* A forest is described by the references between objects only; what the  *)
(* destructors reach in it, Below, is shown to be what hangs below.        *)
(***************************************************************************)
EXTENDS Ui4Dom, DataInduction, SequenceTheorems

(* The fields that hold objects.                                           *)
HoldsObjects(field) == field.is \in {"one", "many"}

(* What the functions of ui4.cpp rely on in a row of the table: what is    *)
(* deleted is what is held, only children that are declared are read,      *)
(* their classes are in the table, and a choice has no list of objects.    *)
RowOK(k) ==
  /\ k.owned = {e \in DOMAIN k.elems : HoldsObjects(k.elems[e])}
  /\ k.reads \subseteq DOMAIN k.elems
  /\ \A e \in k.owned : k.elems[e].of \in DOMAIN DomClasses
  /\ k.choice => \A e \in DOMAIN k.elems : k.elems[e].is # "many"

(* Every class of ui4.cpp has such a row.                                    *)
LEMMA Rows == \A c \in DOMAIN DomClasses : RowOK(DomClasses[c])
  <1>1. RowOK(DomUI)
    BY DEF RowOK, HoldsObjects, DomUI, ClassOf, DomUIDecl, Record, Text, Whole, One, DomUIOwned,
           DomUIReads, DomUIWrites, DomClasses
  <1>2. RowOK(DomIncludes)
    BY DEF RowOK, HoldsObjects, DomIncludes, Class, ClassOf, DomIncludesDecl, Record, None, Many,
           DomClasses
  <1>3. RowOK(DomInclude)
    BY DEF RowOK, HoldsObjects, DomInclude, Class, ClassOf, DomIncludeDecl, Record, Text, None,
           DomClasses
  <1>4. RowOK(DomResources)
    BY DEF RowOK, HoldsObjects, DomResources, Class, ClassOf, DomResourcesDecl, Record, Text, Many,
           DomClasses
  <1>5. RowOK(DomResource)
    BY DEF RowOK, HoldsObjects, DomResource, Class, ClassOf, DomResourceDecl, Record, Text, None,
           DomClasses
  <1>6. RowOK(DomActionGroup)
    BY DEF RowOK, HoldsObjects, DomActionGroup, Class, ClassOf, DomActionGroupDecl, Record, Text,
           Many, DomClasses
  <1>7. RowOK(DomAction)
    BY DEF RowOK, HoldsObjects, DomAction, Class, ClassOf, DomActionDecl, Record, Text, Many,
           DomClasses
  <1>8. RowOK(DomActionRef)
    BY DEF RowOK, HoldsObjects, DomActionRef, Class, ClassOf, DomActionRefDecl, Record, Text, None,
           DomClasses
  <1>9. RowOK(DomImages)
    BY DEF RowOK, HoldsObjects, DomImages, Class, ClassOf, DomImagesDecl, Record, None, Many,
           DomClasses
  <1>10. RowOK(DomImage)
    BY DEF RowOK, HoldsObjects, DomImage, Class, ClassOf, DomImageDecl, Record, Text, One,
           DomClasses
  <1>11. RowOK(DomImageData)
    BY DEF RowOK, HoldsObjects, DomImageData, Class, ClassOf, DomImageDataDecl, Record, Text, Whole,
           None, DomClasses
  <1>12. RowOK(DomCustomWidgets)
    BY DEF RowOK, HoldsObjects, DomCustomWidgets, Class, ClassOf, DomCustomWidgetsDecl, Record,
           None, Many, DomClasses
  <1>13. RowOK(DomHeader)
    BY DEF RowOK, HoldsObjects, DomHeader, Class, ClassOf, DomHeaderDecl, Record, Text, None,
           DomClasses
  <1>14. RowOK(DomCustomWidget)
    BY DEF RowOK, HoldsObjects, DomCustomWidget, ClassOf, DomCustomWidgetDecl, Record, None, Text,
           One, Whole, DomCustomWidgetOwned, DomCustomWidgetReads, DomCustomWidgetWrites, DomClasses
  <1>15. RowOK(DomProperties)
    BY DEF RowOK, HoldsObjects, DomProperties, Class, ClassOf, DomPropertiesDecl, Record, None,
           Many, DomClasses
  <1>16. RowOK(DomPropertyData)
    BY DEF RowOK, HoldsObjects, DomPropertyData, Class, ClassOf, DomPropertyDataDecl, Record, Text,
           None, DomClasses
  <1>17. RowOK(DomSizePolicyData)
    BY DEF RowOK, HoldsObjects, DomSizePolicyData, Class, ClassOf, DomSizePolicyDataDecl, Record,
           None, Whole, DomClasses
  <1>18. RowOK(DomLayoutDefault)
    BY DEF RowOK, HoldsObjects, DomLayoutDefault, Class, ClassOf, DomLayoutDefaultDecl, Record,
           Whole, None, DomClasses
  <1>19. RowOK(DomLayoutFunction)
    BY DEF RowOK, HoldsObjects, DomLayoutFunction, Class, ClassOf, DomLayoutFunctionDecl, Record,
           Text, None, DomClasses
  <1>20. RowOK(DomTabStops)
    BY DEF RowOK, HoldsObjects, DomTabStops, Class, ClassOf, DomTabStopsDecl, Record, None, Texts,
           DomClasses
  <1>21. RowOK(DomLayout)
    BY DEF RowOK, HoldsObjects, DomLayout, Class, ClassOf, DomLayoutDecl, Record, Text, Many,
           DomClasses
  <1>22. RowOK(DomLayoutItem)
    BY DEF RowOK, HoldsObjects, DomLayoutItem, Class, ClassOf, DomLayoutItemDecl, Choice, Whole,
           One, DomClasses
  <1>23. RowOK(DomRow)
    BY DEF RowOK, HoldsObjects, DomRow, Class, ClassOf, DomRowDecl, Record, None, Many, DomClasses
  <1>24. RowOK(DomColumn)
    BY DEF RowOK, HoldsObjects, DomColumn, Class, ClassOf, DomColumnDecl, Record, None, Many,
           DomClasses
  <1>25. RowOK(DomItem)
    BY DEF RowOK, HoldsObjects, DomItem, Class, ClassOf, DomItemDecl, Record, Whole, Many,
           DomClasses
  <1>26. RowOK(DomWidget)
    BY DEF RowOK, HoldsObjects, DomWidget, ClassOf, DomWidgetDecl, Record, Text, Flag, Texts, Many,
           DomWidgetOwned, DomWidgetReads, DomWidgetWrites, DomClasses
  <1>27. RowOK(DomSpacer)
    BY DEF RowOK, HoldsObjects, DomSpacer, Class, ClassOf, DomSpacerDecl, Record, Text, Many,
           DomClasses
  <1>28. RowOK(DomColor)
    BY DEF RowOK, HoldsObjects, DomColor, Class, ClassOf, DomColorDecl, Record, Whole, DomClasses
  <1>29. RowOK(DomGradientStop)
    BY DEF RowOK, HoldsObjects, DomGradientStop, Class, ClassOf, DomGradientStopDecl, Record, Real,
           One, DomClasses
  <1>30. RowOK(DomGradient)
    BY DEF RowOK, HoldsObjects, DomGradient, ClassOf, DomGradientDecl, Record, Real, Text, Many,
           DomGradientOwned, DomGradientReads, DomGradientWrites, DomClasses
  <1>31. RowOK(DomBrush)
    BY DEF RowOK, HoldsObjects, DomBrush, Class, ClassOf, DomBrushDecl, Choice, Text, One,
           DomClasses
  <1>32. RowOK(DomColorRole)
    BY DEF RowOK, HoldsObjects, DomColorRole, Class, ClassOf, DomColorRoleDecl, Record, Text, One,
           DomClasses
  <1>33. RowOK(DomColorGroup)
    BY DEF RowOK, HoldsObjects, DomColorGroup, Class, ClassOf, DomColorGroupDecl, Record, None,
           Many, DomClasses
  <1>34. RowOK(DomPalette)
    BY DEF RowOK, HoldsObjects, DomPalette, Class, ClassOf, DomPaletteDecl, Record, None, One,
           DomClasses
  <1>35. RowOK(DomFont)
    BY DEF RowOK, HoldsObjects, DomFont, ClassOf, DomFontDecl, Record, None, Text, Whole, Flag,
           DomFontOwned, DomFontReads, DomFontWrites, DomClasses
  <1>36. RowOK(DomPoint)
    BY DEF RowOK, HoldsObjects, DomPoint, Class, ClassOf, DomPointDecl, Record, None, Whole,
           DomClasses
  <1>37. RowOK(DomRect)
    BY DEF RowOK, HoldsObjects, DomRect, Class, ClassOf, DomRectDecl, Record, None, Whole,
           DomClasses
  <1>38. RowOK(DomLocale)
    BY DEF RowOK, HoldsObjects, DomLocale, Class, ClassOf, DomLocaleDecl, Record, Text, None,
           DomClasses
  <1>39. RowOK(DomSizePolicy)
    BY DEF RowOK, HoldsObjects, DomSizePolicy, Class, ClassOf, DomSizePolicyDecl, Record, Text,
           Whole, DomClasses
  <1>40. RowOK(DomSize)
    BY DEF RowOK, HoldsObjects, DomSize, Class, ClassOf, DomSizeDecl, Record, None, Whole,
           DomClasses
  <1>41. RowOK(DomDate)
    BY DEF RowOK, HoldsObjects, DomDate, Class, ClassOf, DomDateDecl, Record, None, Whole,
           DomClasses
  <1>42. RowOK(DomTime)
    BY DEF RowOK, HoldsObjects, DomTime, Class, ClassOf, DomTimeDecl, Record, None, Whole,
           DomClasses
  <1>43. RowOK(DomDateTime)
    BY DEF RowOK, HoldsObjects, DomDateTime, ClassOf, DomDateTimeDecl, Record, None, Whole,
           DomDateTimeOwned, DomDateTimeReads, DomDateTimeWrites, DomClasses
  <1>44. RowOK(DomStringList)
    BY DEF RowOK, HoldsObjects, DomStringList, Class, ClassOf, DomStringListDecl, Record, None,
           Texts, DomClasses
  <1>45. RowOK(DomResourcePixmap)
    BY DEF RowOK, HoldsObjects, DomResourcePixmap, Class, ClassOf, DomResourcePixmapDecl, Record,
           Text, None, DomClasses
  <1>46. RowOK(DomResourceIcon)
    BY DEF RowOK, HoldsObjects, DomResourceIcon, ClassOf, DomResourceIconDecl, Record, Text, One,
           DomResourceIconOwned, DomResourceIconReads, DomResourceIconWrites, DomClasses
  <1>47. RowOK(DomString)
    BY DEF RowOK, HoldsObjects, DomString, Class, ClassOf, DomStringDecl, Record, Text, None,
           DomClasses
  <1>48. RowOK(DomPointF)
    BY DEF RowOK, HoldsObjects, DomPointF, Class, ClassOf, DomPointFDecl, Record, None, Real,
           DomClasses
  <1>49. RowOK(DomRectF)
    BY DEF RowOK, HoldsObjects, DomRectF, Class, ClassOf, DomRectFDecl, Record, None, Real,
           DomClasses
  <1>50. RowOK(DomSizeF)
    BY DEF RowOK, HoldsObjects, DomSizeF, Class, ClassOf, DomSizeFDecl, Record, None, Real,
           DomClasses
  <1>51. RowOK(DomChar)
    BY DEF RowOK, HoldsObjects, DomChar, Class, ClassOf, DomCharDecl, Record, None, Whole,
           DomClasses
  <1>52. RowOK(DomUrl)
    BY DEF RowOK, HoldsObjects, DomUrl, Class, ClassOf, DomUrlDecl, Record, None, One, DomClasses
  <1>53. RowOK(DomProperty)
    BY DEF RowOK, HoldsObjects, DomProperty, ClassOf, DomPropertyDecl, Choice, Text, Whole, One,
           Real, DomPropertyOwned, DomPropertyReads, DomPropertyWrites, DomClasses
  <1>54. RowOK(DomConnections)
    BY DEF RowOK, HoldsObjects, DomConnections, Class, ClassOf, DomConnectionsDecl, Record, None,
           Many, DomClasses
  <1>55. RowOK(DomConnection)
    BY DEF RowOK, HoldsObjects, DomConnection, Class, ClassOf, DomConnectionDecl, Record, None,
           Text, One, DomClasses
  <1>56. RowOK(DomConnectionHints)
    BY DEF RowOK, HoldsObjects, DomConnectionHints, Class, ClassOf, DomConnectionHintsDecl, Record,
           None, Many, DomClasses
  <1>57. RowOK(DomConnectionHint)
    BY DEF RowOK, HoldsObjects, DomConnectionHint, Class, ClassOf, DomConnectionHintDecl, Record,
           Text, Whole, DomClasses
  <1>58. RowOK(DomScript)
    BY DEF RowOK, HoldsObjects, DomScript, Class, ClassOf, DomScriptDecl, Record, Text, None,
           DomClasses
  <1>59. RowOK(DomWidgetData)
    BY DEF RowOK, HoldsObjects, DomWidgetData, Class, ClassOf, DomWidgetDataDecl, Record, None,
           Many, DomClasses
  <1>60. RowOK(DomDesignerData)
    BY DEF RowOK, HoldsObjects, DomDesignerData, Class, ClassOf, DomDesignerDataDecl, Record, None,
           Many, DomClasses
  <1>61. RowOK(DomSlots)
    BY DEF RowOK, HoldsObjects, DomSlots, Class, ClassOf, DomSlotsDecl, Record, None, Texts,
           DomClasses
  <1>62. QED
    BY <1>1, <1>2, <1>3, <1>4, <1>5, <1>6, <1>7, <1>8, <1>9, <1>10, <1>11, <1>12, <1>13, <1>14,
       <1>15, <1>16, <1>17, <1>18, <1>19, <1>20, <1>21, <1>22, <1>23, <1>24, <1>25, <1>26, <1>27,
       <1>28, <1>29, <1>30, <1>31, <1>32, <1>33, <1>34, <1>35, <1>36, <1>37, <1>38, <1>39, <1>40,
       <1>41, <1>42, <1>43, <1>44, <1>45, <1>46, <1>47, <1>48, <1>49, <1>50, <1>51, <1>52, <1>53,
       <1>54, <1>55, <1>56, <1>57, <1>58, <1>59, <1>60, <1>61 DEF DomClasses

------------------------------------------------------------------------
(* Trees: the objects V, the references R between them (<<to, from, ...>>) *)
(* and the objects F that nobody refers to.                                *)

(* Nothing is above itself: of any objects one refers to none of them.     *)
Acyclic(V, R) ==
  \A T \in SUBSET V : T # {} => \E t \in T : \A r \in R : r[2] = t => r[1] \notin T

ClosedUnder(R, S) == \A r \in R : r[2] \in S => r[1] \in S

IsTree(V, R, F) ==
  /\ F \subseteq V
  /\ \A r \in R : r[1] \in V /\ r[2] \in V
  /\ \A v \in V : v \in F <=> \A r \in R : r[1] # v
  /\ \A r, s \in R : r[1] = s[1] => r = s
  /\ Acyclic(V, R)
  /\ \A S \in SUBSET V : F \subseteq S /\ ClosedUnder(R, S) => S = V

LEMMA TreeEmpty ==
  ASSUME NEW V, NEW R, IsTree(V, R, {})
  PROVE  V = {}
  <1>1. {} \in SUBSET V /\ {} \subseteq {} /\ ClosedUnder(R, {})
    BY DEF ClosedUnder
  <1>2. QED
    BY <1>1 DEF IsTree

LEMMA TreeGrows ==
  ASSUME NEW V, NEW R, NEW F, IsTree(V, R, F), NEW x, x \notin V
  PROVE  IsTree(V \cup {x}, R, F \cup {x})
  <1>1. \A r \in R : r[1] # x /\ r[2] # x
    BY DEF IsTree
  <1>2. ASSUME NEW T \in SUBSET (V \cup {x}), T # {}
        PROVE  \E t \in T : \A r \in R : r[2] = t => r[1] \notin T
    <2>1. CASE T = {x}
      BY <2>1, <1>1
    <2>2. CASE T # {x}
      <3>1. T \ {x} \in SUBSET V /\ T \ {x} # {}
        BY <1>2, <2>2
      <3>2. PICK t \in T \ {x} : \A r \in R : r[2] = t => r[1] \notin T \ {x}
        BY <3>1 DEF IsTree, Acyclic
      <3>3. QED
        BY <3>2, <1>1
    <2>3. QED
      BY <2>1, <2>2
  <1>3. ASSUME NEW S \in SUBSET (V \cup {x}), F \cup {x} \subseteq S, ClosedUnder(R, S)
        PROVE  S = V \cup {x}
    <2>1. S \ {x} \in SUBSET V /\ F \subseteq S \ {x}
      BY <1>3 DEF IsTree
    <2>2. ClosedUnder(R, S \ {x})
      BY <1>1, <1>3 DEF ClosedUnder
    <2>3. S \ {x} = V
      BY <2>1, <2>2 DEF IsTree
    <2>4. QED
      BY <2>3, <1>3
  <1>4. QED
    BY <1>1, <1>2, <1>3 DEF IsTree, Acyclic

(* A reference to an object that nobody referred to, from one that nobody  *)
(* refers to.                                                              *)
LEMMA TreeLinks ==
  ASSUME NEW V, NEW R, NEW F, IsTree(V, R, F), NEW q, q \notin R,
         q[1] \in F, q[2] \in F, q[1] # q[2]
  PROVE  IsTree(V, R \cup {q}, F \ {q[1]})
  <1> DEFINE Q == R \cup {q}
  <1>1. \A r \in R : r[1] # q[1] /\ r[1] # q[2]
    BY DEF IsTree
  <1>2. ASSUME NEW T \in SUBSET V, T # {}
        PROVE  \E t \in T : \A r \in Q : r[2] = t => r[1] \notin T
    <2>1. CASE q[1] \in T
      <3>1. T \ {q[2]} \in SUBSET V /\ T \ {q[2]} # {}
        BY <2>1
      <3>2. PICK t \in T \ {q[2]} : \A r \in R : r[2] = t => r[1] \notin T \ {q[2]}
        BY <3>1 DEF IsTree, Acyclic
      <3>3. QED
        BY <3>2, <1>1
    <2>2. CASE q[1] \notin T
      <3>1. PICK t \in T : \A r \in R : r[2] = t => r[1] \notin T
        BY <1>2 DEF IsTree, Acyclic
      <3>2. QED
        BY <3>1, <2>2
    <2>3. QED
      BY <2>1, <2>2
  <1>3. ASSUME NEW S \in SUBSET V, F \ {q[1]} \subseteq S, ClosedUnder(Q, S)
        PROVE  S = V
    <2>1. F \subseteq S
      BY <1>3 DEF ClosedUnder
    <2>2. ClosedUnder(R, S)
      BY <1>3 DEF ClosedUnder
    <2>3. QED
      BY <2>1, <2>2 DEF IsTree
  <1>4. \A v \in V : v \in F \ {q[1]} <=> \A r \in Q : r[1] # v
    BY DEF IsTree
  <1>5. \A r, s \in Q : r[1] = s[1] => r = s
    BY <1>1 DEF IsTree
  <1>6. QED
    BY <1>2, <1>3, <1>4, <1>5 DEF IsTree, Acyclic

(* Dropping references of objects that nobody refers to.                   *)
LEMMA TreeUnlinks ==
  ASSUME NEW V, NEW R, NEW F, IsTree(V, R, F), NEW Q \in SUBSET R, \A q \in Q : q[2] \in F
  PROVE  IsTree(V, R \ Q, F \cup {q[1] : q \in Q})
  <1> DEFINE K == {q[1] : q \in Q}
  <1>1. K \subseteq V
    BY DEF IsTree
  <1>2. \A v \in V : v \in F \cup K <=> \A r \in R \ Q : r[1] # v
    <2>1. ASSUME NEW v \in V, v \in K, NEW r \in R \ Q
          PROVE  r[1] # v
      BY <2>1 DEF IsTree
    <2>2. ASSUME NEW v \in V, v \notin F, v \notin K
          PROVE  \E r \in R \ Q : r[1] = v
      BY <2>2 DEF IsTree
    <2>3. QED
      BY <2>1, <2>2 DEF IsTree
  <1>3. \A T \in SUBSET V : T # {} => \E t \in T : \A r \in R \ Q : r[2] = t => r[1] \notin T
    BY DEF IsTree, Acyclic
  <1>4. ASSUME NEW S \in SUBSET V, F \cup K \subseteq S, ClosedUnder(R \ Q, S)
        PROVE  S = V
    <2>1. ClosedUnder(R, S)
      BY <1>4 DEF ClosedUnder
    <2>2. QED
      BY <2>1, <1>4 DEF IsTree
  <1>5. QED
    BY <1>1, <1>2, <1>3, <1>4 DEF IsTree, Acyclic

(* The objects B below some that nobody refers to, and no others.          *)
AllBelow(V, R, K, B) ==
  /\ K \subseteq B /\ B \subseteq V
  /\ ClosedUnder(R, B)
  /\ \A b \in B \ K : \E r \in R : r[1] = b /\ r[2] \in B

LEMMA TreeFalls ==
  ASSUME NEW V, NEW R, NEW F, NEW K, IsTree(V, R, F \cup K), F \cap K = {},
         NEW B, AllBelow(V, R, K, B)
  PROVE  IsTree(V \ B, {r \in R : r[2] \notin B}, F)
  <1> DEFINE W == V \ B
             Q == {r \in R : r[2] \notin B}
  <1>1. F \subseteq W
    BY DEF IsTree, AllBelow
  <1>2. \A r \in Q : r[1] \in W /\ r[2] \in W
    <2>1. ASSUME NEW r \in Q, r[1] \in B
          PROVE  FALSE
      <3>1. r[1] \notin K
        BY <2>1 DEF IsTree
      <3>2. PICK s \in R : s[1] = r[1] /\ s[2] \in B
        BY <2>1, <3>1 DEF AllBelow
      <3>3. QED
        BY <3>2 DEF IsTree
    <2>2. QED
      BY <2>1 DEF IsTree
  <1>3. \A v \in W : v \in F <=> \A r \in Q : r[1] # v
    <2>1. ASSUME NEW v \in W, v \notin F
          PROVE  \E r \in Q : r[1] = v
      <3>1. v \notin K
        BY DEF AllBelow
      <3>2. PICK r \in R : r[1] = v
        BY <2>1, <3>1 DEF IsTree
      <3>3. QED
        BY <3>2 DEF AllBelow, ClosedUnder
    <2>2. QED
      BY <2>1 DEF IsTree
  <1>4. \A T \in SUBSET W : T # {} => \E t \in T : \A r \in Q : r[2] = t => r[1] \notin T
    BY DEF IsTree, Acyclic
  <1>5. ASSUME NEW S \in SUBSET W, F \subseteq S, ClosedUnder(Q, S)
        PROVE  S = W
    <2>1. S \cup B \in SUBSET V /\ F \cup K \subseteq S \cup B
      BY <1>5 DEF AllBelow
    <2>2. ClosedUnder(R, S \cup B)
      BY <1>5 DEF AllBelow, ClosedUnder
    <2>3. S \cup B = V
      BY <2>1, <2>2 DEF IsTree
    <2>4. QED
      BY <2>3
  <1>6. \A r, s \in Q : r[1] = s[1] => r = s
    BY DEF IsTree
  <1>7. QED
    BY <1>1, <1>2, <1>3, <1>4, <1>5, <1>6 DEF IsTree, Acyclic

------------------------------------------------------------------------
(* delete                                                                  *)

(* What the destructors of each object reach: a solution of the recursion  *)
(* of Below.                                                               *)
Collects(h, f) ==
  f = [o \in DOMAIN h |-> {o} \cup UNION {f[c] : c \in Children(h, o) \cap DOMAIN h}]

(* There is one: the objects that every closed set with o has.             *)
LEMMA CollectsExists ==
  ASSUME NEW h
  PROVE  \E f : Collects(h, f)
  <1> DEFINE V == DOMAIN h
             Kids(o) == Children(h, o) \cap V
             Closed(S) == \A o \in S : Kids(o) \subseteq S
             Reach(o) == {v \in V : \A S \in SUBSET V : o \in S /\ Closed(S) => v \in S}
             f == [o \in V |-> Reach(o)]
  <1> HIDE DEF V, Kids
  <1>1. ASSUME NEW o \in V
        PROVE  Kids(o) \subseteq V
    BY DEF Kids
  <1>2. ASSUME NEW o \in V
        PROVE  Reach(o) = {o} \cup UNION {Reach(c) : c \in Kids(o)}
    <2> DEFINE All == {o} \cup UNION {Reach(c) : c \in Kids(o)}
    <2>1. All \in SUBSET V
      OBVIOUS
    <2>2. \A c \in Kids(o) : c \in Reach(c)
      BY <1>1
    <2>3. ASSUME NEW c \in V
          PROVE  Closed(Reach(c))
      BY <1>1
    <2>4. Closed(All)
      <3>1. ASSUME NEW v \in All
            PROVE  Kids(v) \subseteq All
        <4>1. CASE v = o
          BY <4>1, <2>2
        <4>2. CASE v # o
          <5>1. PICK c \in Kids(o) : v \in Reach(c)
            BY <3>1, <4>2
          <5>2. c \in V
            BY <1>1
          <5>3. Kids(v) \subseteq Reach(c)
            <6> HIDE DEF Reach
            <6> QED BY <2>3, <5>1, <5>2
          <5>4. QED
            BY <5>3
        <4>3. QED
          BY <4>1, <4>2
      <3>2. QED
        BY <3>1
    <2>5. Reach(o) \subseteq All
      <3> HIDE DEF All
      <3>1. o \in All
        BY DEF All
      <3>2. QED
        BY <2>1, <2>4, <3>1
    <2>6. All \subseteq Reach(o)
      <3>1. o \in Reach(o)
        OBVIOUS
      <3>2. ASSUME NEW c \in Kids(o), NEW v \in Reach(c), NEW S \in SUBSET V, o \in S, Closed(S)
            PROVE  v \in S
        BY <3>2
      <3>3. QED
        BY <3>1, <3>2
    <2>7. QED
      BY <2>5, <2>6
  <1>3. f = [o \in V |-> {o} \cup UNION {f[c] : c \in Kids(o)}]
    <2>1. ASSUME NEW o \in V
          PROVE  UNION {f[c] : c \in Kids(o)} = UNION {Reach(c) : c \in Kids(o)}
      <3> HIDE DEF Reach
      <3> QED
        BY <1>1
    <2> HIDE DEF Reach
    <2>2. ASSUME NEW o \in V
          PROVE  f[o] = {o} \cup UNION {f[c] : c \in Kids(o)}
      BY <1>2, <2>1
    <2>3. QED
      BY <2>2
  <1>4. Collects(h, f)
    BY <1>3 DEF Collects, V, Kids
  <1>5. QED
    BY <1>4

LEMMA BelowDef ==
  ASSUME NEW h, NEW os
  PROVE  \E f : Collects(h, f) /\ Below(h, os) = UNION {f[o] : o \in os \cap DOMAIN h}
  <1> DEFINE f == CHOOSE g : Collects(h, g)
  <1>1. Below(h, os) = UNION {f[o] : o \in os \cap DOMAIN h}
    BY DEF Below, Collects
  <1>2. Collects(h, f)
    BY CollectsExists
  <1> HIDE DEF f
  <1>3. QED
    BY <1>1, <1>2

(* In a tree it collects the objects below, by induction up the tree.      *)
LEMMA CollectsBelow ==
  ASSUME NEW h, NEW R, NEW F, IsTree(DOMAIN h, R, F),
         \A o \in DOMAIN h : Children(h, o) = {r[1] : r \in {s \in R : s[2] = o}},
         NEW f, Collects(h, f)
  PROVE  \A o \in DOMAIN h : AllBelow(DOMAIN h, R, {o}, f[o])
  <1> DEFINE V == DOMAIN h
             T == {o \in V : ~AllBelow(V, R, {o}, f[o])}
  <1>1. SUFFICES ASSUME T # {}
                 PROVE  FALSE
    OBVIOUS
  <1>2. PICK o \in T : \A r \in R : r[2] = o => r[1] \notin T
    <2>1. T \in SUBSET V
      OBVIOUS
    <2>2. Acyclic(V, R)
      BY DEF IsTree
    <2> HIDE DEF T, V
    <2>3. QED
      BY <1>1, <2>1, <2>2 DEF Acyclic
  <1> DEFINE C == {r[1] : r \in {s \in R : s[2] = o}}
  <1>3. C \subseteq V
    BY DEF IsTree
  <1>4. f[o] = {o} \cup UNION {f[c] : c \in C}
    <2>1. Children(h, o) \cap V = C
      BY <1>3
    <2>2. QED
      BY <2>1 DEF Collects
  <1>5. \A c \in C : AllBelow(V, R, {c}, f[c])
    BY <1>2, <1>3
  <1> HIDE DEF C
  <1>6. f[o] \subseteq V /\ o \in f[o]
    BY <1>3, <1>4, <1>5 DEF AllBelow
  <1>7. \A r \in R : r[2] = o => r[1] \in f[o]
    <2>1. ASSUME NEW r \in R, r[2] = o
          PROVE  r[1] \in C
      BY <2>1 DEF C
    <2>2. \A c \in C : c \in f[c]
      BY <1>5 DEF AllBelow
    <2>3. QED
      BY <2>1, <2>2, <1>4
  <1>8. ClosedUnder(R, f[o])
    <2>1. ASSUME NEW r \in R, r[2] \in f[o], r[2] # o
          PROVE  r[1] \in f[o]
      <3>1. PICK c \in C : r[2] \in f[c]
        BY <1>4, <2>1
      <3>2. r[1] \in f[c]
        BY <1>5, <3>1 DEF AllBelow, ClosedUnder
      <3>3. QED
        BY <1>4, <3>2
    <2>2. QED
      BY <2>1, <1>7 DEF ClosedUnder
  <1>9. ASSUME NEW b \in f[o] \ {o}
        PROVE  \E r \in R : r[1] = b /\ r[2] \in f[o]
    <2>1. PICK c \in C : b \in f[c]
      BY <1>4
    <2>2. CASE b = c
      BY <2>2, <1>6 DEF C
    <2>3. CASE b # c
      <3>1. PICK r \in R : r[1] = b /\ r[2] \in f[c]
        BY <2>1, <2>3, <1>5 DEF AllBelow
      <3>2. QED
        BY <3>1, <1>4
    <2>4. QED
      BY <2>2, <2>3
  <1>10. QED
    BY <1>2, <1>6, <1>8, <1>9 DEF AllBelow

LEMMA BelowIs ==
  ASSUME NEW h, NEW R, NEW F, IsTree(DOMAIN h, R, F),
         \A o \in DOMAIN h : Children(h, o) = {r[1] : r \in {s \in R : s[2] = o}},
         NEW K \in SUBSET DOMAIN h
  PROVE  AllBelow(DOMAIN h, R, K, Below(h, K))
  <1>1. PICK f : Collects(h, f) /\ Below(h, K) = UNION {f[o] : o \in K \cap DOMAIN h}
    BY BelowDef
  <1> DEFINE B == UNION {f[o] : o \in K}
  <1>2. \A o \in DOMAIN h : AllBelow(DOMAIN h, R, {o}, f[o])
    BY <1>1, CollectsBelow
  <1>3. K \subseteq B /\ B \subseteq DOMAIN h
    BY <1>2 DEF AllBelow
  <1>4. ClosedUnder(R, B)
    <2>1. ASSUME NEW r \in R, NEW o \in K, r[2] \in f[o]
          PROVE  r[1] \in f[o]
      BY <1>2, <2>1 DEF AllBelow, ClosedUnder
    <2>2. QED
      BY <2>1 DEF ClosedUnder
  <1>5. ASSUME NEW b \in B \ K
        PROVE  \E r \in R : r[1] = b /\ r[2] \in B
    <2>1. PICK o \in K : b \in f[o]
      OBVIOUS
    <2>2. b # o
      BY <1>5
    <2>3. PICK r \in R : r[1] = b /\ r[2] \in f[o]
      BY <2>1, <2>2, <1>2 DEF AllBelow
    <2>4. QED
      BY <2>3
  <1>6. Below(h, K) = B
    <2>1. K \cap DOMAIN h = K
      OBVIOUS
    <2>2. QED
      BY <2>1, <1>1
  <1>7. QED
    BY <1>3, <1>4, <1>5, <1>6 DEF AllBelow

------------------------------------------------------------------------
(* The heap                                                                *)

IsSeq(s) == Len(s) \in Nat /\ s = [i \in 1 .. Len(s) |-> s[i]]

LEMMA AppendIs ==
  ASSUME NEW s, IsSeq(s), NEW v
  PROVE  /\ IsSeq(Append(s, v))
         /\ Len(Append(s, v)) = Len(s) + 1
         /\ \A i \in 1 .. Len(s) : Append(s, v)[i] = s[i]
         /\ Append(s, v)[Len(s) + 1] = v
  <1> DEFINE S == {s[i] : i \in 1 .. Len(s)} \cup {v}
  <1>1. s \in Seq(S)
    <2>1. s \in [1 .. Len(s) -> S]
      BY DEF IsSeq
    <2>2. QED
      BY <2>1 DEF IsSeq
  <1>2. v \in S
    OBVIOUS
  <1> HIDE DEF S
  <1>3. Append(s, v) \in Seq(S) /\ Len(Append(s, v)) = Len(s) + 1
    BY <1>1, <1>2
  <1>4. /\ \A i \in 1 .. Len(s) : Append(s, v)[i] = s[i]
        /\ Append(s, v)[Len(s) + 1] = v
    BY <1>1, <1>2
  <1>5. \A t \in Seq(S) : IsSeq(t)
    BY DEF IsSeq
  <1>6. QED
    BY <1>3, <1>4, <1>5

(* An object has fields of its class only, and its lists are sequences.    *)
TypedObject(x) ==
  /\ x = [class |-> x.class, elems |-> x.elems, text |-> x.text, attrs |-> x.attrs]
  /\ x.class \in DOMAIN DomClasses
  /\ x.elems = [e \in DOMAIN x.elems |-> x.elems[e]]
  /\ DOMAIN x.elems \subseteq DOMAIN DomClasses[x.class].elems
  /\ \A e \in DOMAIN x.elems : DomClasses[x.class].elems[e].is = "many" => IsSeq(x.elems[e])

TypedHeap(h) ==
  /\ h = [o \in DOMAIN h |-> h[o]]
  /\ DOMAIN h \subseteq Nat /\ IsFiniteSet(DOMAIN h)
  /\ \A o \in DOMAIN h : TypedObject(h[o])

(* The references that the value x of a field makes in object o.           *)
Field(c, o, e, x) ==
  IF ~HoldsObjects(c.elems[e]) THEN {}
  ELSE IF c.elems[e].is = "one" THEN {<<x, o, e, 0>>}
  ELSE {<<x[i], o, e, i>> : i \in DOMAIN x}

Fields(x, o) == UNION {Field(DomClasses[x.class], o, e, x.elems[e]) : e \in DOMAIN x.elems}

LEMMA ReferencesAre ==
  ASSUME NEW h
  PROVE  References(h) = UNION {Fields(h[o], o) : o \in DOMAIN h}
  <1>1. ASSUME NEW o \in DOMAIN h
        PROVE  ReferencesOf(h, o) = Fields(h[o], o)
    BY DEF ReferencesOf, Fields, Field, HoldsObjects, ClassOfObject
  <1>2. QED
    BY <1>1 DEF References

LEMMA FieldIs ==
  ASSUME NEW c, NEW o, NEW e, NEW x, NEW r \in Field(c, o, e, x)
  PROVE  r[2] = o /\ r[3] = e
  BY DEF Field

LEMMA FieldsAre ==
  ASSUME NEW x, NEW o, NEW r
  PROVE  /\ r \in Fields(x, o) <=> \E e \in DOMAIN x.elems : r \in Field(DomClasses[x.class], o, e, x.elems[e])
         /\ r \in Fields(x, o) => r[2] = o /\ r[3] \in DOMAIN x.elems
                                 /\ r \in Field(DomClasses[x.class], o, r[3], x.elems[r[3]])
  <1>1. r \in Fields(x, o) <=> \E e \in DOMAIN x.elems : r \in Field(DomClasses[x.class], o, e, x.elems[e])
    BY DEF Fields
  <1>2. QED
    BY <1>1, FieldIs

LEMMA FromObject ==
  ASSUME NEW h, NEW o, NEW r
  PROVE  /\ o \in DOMAIN h => (r \in References(h) /\ r[2] = o <=> r \in Fields(h[o], o))
         /\ r \in References(h) => r[2] \in DOMAIN h
  BY ReferencesAre, FieldsAre

(* What an object deletes is what it holds.                                *)
LEMMA ChildrenAre ==
  ASSUME NEW h, TypedHeap(h), NEW o \in DOMAIN h, \A c \in DOMAIN DomClasses : RowOK(DomClasses[c])
  PROVE  Children(h, o) = {r[1] : r \in {s \in References(h) : s[2] = o}}
  <1> DEFINE c == DomClasses[h[o].class]
             x == h[o].elems
             C == {e \in DOMAIN x : HoldsObjects(c.elems[e])}
  <1>1. c.owned \cap DOMAIN x = C
    BY DEF TypedHeap, TypedObject, RowOK
  <1>2. {s \in References(h) : s[2] = o} = Fields(h[o], o)
    BY FromObject, FieldsAre, ReferencesAre
  <1>3. {r[1] : r \in Fields(h[o], o)}
          = UNION {IF c.elems[e].is = "one" THEN {x[e]} ELSE ToSet(x[e]) : e \in C}
    <2>1. ASSUME NEW e \in C
          PROVE  {r[1] : r \in Field(c, o, e, x[e])} = IF c.elems[e].is = "one" THEN {x[e]} ELSE ToSet(x[e])
      <3>1. CASE c.elems[e].is = "one"
        <4>1. Field(c, o, e, x[e]) = {<<x[e], o, e, 0>>}
          BY <3>1 DEF Field
        <4>2. QED
          BY <3>1, <4>1
      <3>2. CASE c.elems[e].is # "one"
        <4> DEFINE s == x[e]
        <4>1. Field(c, o, e, s) = {<<s[i], o, e, i>> : i \in DOMAIN s}
          BY <3>2 DEF Field
        <4> HIDE DEF s
        <4> DEFINE P == {<<s[i], o, e, i>> : i \in DOMAIN s}
        <4>2. {r[1] : r \in P} = {s[i] : i \in DOMAIN s}
          <5>1. ASSUME NEW r \in P
                PROVE  r[1] \in {s[i] : i \in DOMAIN s}
            OBVIOUS
          <5>2. ASSUME NEW i \in DOMAIN s
                PROVE  \E r \in P : r[1] = s[i]
            <6>1. <<s[i], o, e, i>> \in P /\ <<s[i], o, e, i>>[1] = s[i]
              OBVIOUS
            <6>2. QED
              BY <6>1
          <5> HIDE DEF P
          <5>3. QED
            BY <5>1, <5>2
        <4>3. QED
          BY <3>2, <4>1, <4>2 DEF ToSet, s
      <3>3. QED
        BY <3>1, <3>2
    <2>2. ASSUME NEW e \in DOMAIN x, e \notin C
          PROVE  Field(c, o, e, x[e]) = {}
      BY <2>2 DEF Field
    <2> HIDE DEF C
    <2>3. Fields(h[o], o) = UNION {Field(c, o, e, x[e]) : e \in DOMAIN x}
      BY DEF Fields
    <2>4. Fields(h[o], o) = UNION {Field(c, o, e, x[e]) : e \in C}
      BY <2>2, <2>3 DEF C
    <2> HIDE DEF c, x
    <2>5. QED
      BY <2>1, <2>4
  <1>4. Children(h, o) = UNION {IF c.elems[e].is = "one" THEN {x[e]} ELSE ToSet(x[e]) : e \in C}
    BY <1>1 DEF Children, ClassOfObject
  <1>5. QED
    BY <1>2, <1>3, <1>4

(* The heap h2 is h without some objects and with a different object o.    *)
LEMMA ReferencesAfter ==
  ASSUME NEW h, NEW h2, NEW o \in DOMAIN h2,
         \A p \in DOMAIN h2 \ {o} : p \in DOMAIN h /\ h2[p] = h[p],
         NEW r
  PROVE  r \in References(h2) <=> \/ r \in References(h) /\ r[2] \in DOMAIN h2 \ {o}
                                  \/ r \in Fields(h2[o], o)
  <1>1. ASSUME r \in References(h2), r[2] # o
        PROVE  r \in References(h) /\ r[2] \in DOMAIN h2 \ {o}
    <2>1. r[2] \in DOMAIN h2 /\ r \in Fields(h2[r[2]], r[2])
      BY <1>1, FromObject
    <2>2. r \in Fields(h[r[2]], r[2]) /\ r[2] \in DOMAIN h
      BY <2>1, <1>1
    <2>3. QED
      BY <2>1, <2>2, <1>1, FromObject
  <1>2. ASSUME r \in References(h), r[2] \in DOMAIN h2 \ {o}
        PROVE  r \in References(h2)
    <2>1. r \in Fields(h[r[2]], r[2])
      BY <1>2, FromObject
    <2>2. h2[r[2]] = h[r[2]]
      BY <1>2
    <2>3. QED
      BY <2>1, <2>2, <1>2, FromObject
  <1>3. ASSUME r \in Fields(h2[o], o)
        PROVE  r \in References(h2)
    BY <1>3, FromObject
  <1>4. ASSUME r \in References(h2), r[2] = o
        PROVE  r \in Fields(h2[o], o)
    BY <1>4, FromObject
  <1>5. QED
    BY <1>1, <1>2, <1>3, <1>4

IsFunction(f) == f = [x \in DOMAIN f |-> f[x]]

(* Object o of h with other fields.                                         *)
PutElems(h, o, f) == [h EXCEPT ![o].elems = f]

LEMMA PutIs ==
  ASSUME NEW h, TypedHeap(h), NEW o \in DOMAIN h, NEW g
  PROVE  LET h2 == PutElems(h, o, g)
         IN  /\ DOMAIN h2 = DOMAIN h /\ IsFunction(h2)
             /\ \A p \in DOMAIN h \ {o} : h2[p] = h[p]
             /\ h2[o] = [class |-> h[o].class, elems |-> g, text |-> h[o].text, attrs |-> h[o].attrs]
  <1>1. h = [p \in DOMAIN h |-> h[p]] /\ TypedObject(h[o])
    BY DEF TypedHeap
  <1>2. QED
    BY <1>1 DEF TypedObject, PutElems, IsFunction

LEMMA TypedRecord ==
  ASSUME NEW c \in DOMAIN DomClasses, NEW g, NEW t, NEW a,
         IsFunction(g), DOMAIN g \subseteq DOMAIN DomClasses[c].elems,
         \A e \in DOMAIN g : DomClasses[c].elems[e].is = "many" => IsSeq(g[e])
  PROVE  TypedObject([class |-> c, elems |-> g, text |-> t, attrs |-> a])
  <1> DEFINE x == [class |-> c, elems |-> g, text |-> t, attrs |-> a]
  <1>1. x.class = c /\ x.elems = g /\ x.text = t /\ x.attrs = a
    OBVIOUS
  <1>2. x = [class |-> x.class, elems |-> x.elems, text |-> x.text, attrs |-> x.attrs]
    OBVIOUS
  <1> HIDE DEF x
  <1>3. TypedObject(x)
    BY <1>1, <1>2, Zenon DEF TypedObject, IsFunction
  <1>4. QED
    BY <1>3 DEF x

LEMMA TypedPut ==
  ASSUME NEW h, TypedHeap(h), NEW o \in DOMAIN h, NEW g,
         IsFunction(g), DOMAIN g \subseteq DOMAIN DomClasses[h[o].class].elems,
         \A e \in DOMAIN g : DomClasses[h[o].class].elems[e].is = "many" => IsSeq(g[e])
  PROVE  TypedHeap(PutElems(h, o, g))
  <1> DEFINE h2 == PutElems(h, o, g)
  <1>1. /\ DOMAIN h2 = DOMAIN h /\ IsFunction(h2)
        /\ \A p \in DOMAIN h \ {o} : h2[p] = h[p]
        /\ h2[o] = [class |-> h[o].class, elems |-> g, text |-> h[o].text, attrs |-> h[o].attrs]
    BY PutIs
  <1> HIDE DEF h2
  <1>2. TypedObject(h2[o])
    <2>1. h[o].class \in DOMAIN DomClasses
      BY DEF TypedHeap, TypedObject
    <2>2. QED
      BY <1>1, <2>1, TypedRecord
  <1>3. QED
    BY <1>1, <1>2 DEF TypedHeap, h2, IsFunction

LEMMA TypedRestrict ==
  ASSUME NEW h, TypedHeap(h), NEW W \in SUBSET DOMAIN h
  PROVE  /\ TypedHeap(Restrict(h, W))
         /\ DOMAIN Restrict(h, W) = W
         /\ \A p \in W : Restrict(h, W)[p] = h[p]
  <1>1. IsFiniteSet(W)
    BY FS_Subset DEF TypedHeap
  <1>2. QED
    BY <1>1 DEF TypedHeap, Restrict

------------------------------------------------------------------------
(* Forests on the heap                                                     *)

(* What the objects of h own is a forest, and its roots are F.             *)
Forest(h, F) == TypedHeap(h) /\ IsTree(DOMAIN h, References(h), F)

(* What a function on the heap leaves of the objects that were there.      *)
Keeps(h, h2) == \A p \in DOMAIN h2 : p \in DOMAIN h /\ h2[p].class = h[p].class

LEMMA ForestGrows ==
  ASSUME NEW h, NEW F, Forest(h, F), NEW x \in Nat \ DOMAIN h, NEW obj, TypedObject(obj), obj.elems = None,
         NEW h2, h2 = With(h, x, obj)
  PROVE  /\ Forest(h2, F \cup {x})
         /\ \A p \in DOMAIN h : h2[p] = h[p]
  <1>1. /\ DOMAIN h2 = DOMAIN h \cup {x} /\ h2[x] = obj
        /\ \A p \in DOMAIN h : h2[p] = h[p]
        /\ h2 = [p \in DOMAIN h2 |-> h2[p]]
    BY DEF With
  <1>2. IsFiniteSet(DOMAIN h2)
    BY <1>1, FS_AddElement DEF Forest, TypedHeap
  <1>3. TypedHeap(h2)
    BY <1>1, <1>2 DEF Forest, TypedHeap
  <1>4. References(h2) = References(h)
    <2>1. Fields(h2[x], x) = {}
      BY <1>1 DEF Fields, None
    <2>2. \A r : r \in References(h2) <=> r \in References(h) /\ r[2] \in DOMAIN h2 \ {x}
      BY <1>1, <2>1, ReferencesAfter
    <2>3. \A r \in References(h) : r[2] \in DOMAIN h2 \ {x}
      BY <1>1, FromObject
    <2>4. QED
      BY <2>2, <2>3
  <1>5. IsTree(DOMAIN h \cup {x}, References(h), F \cup {x})
    BY TreeGrows DEF Forest
  <1>6. QED
    BY <1>1, <1>3, <1>4, <1>5 DEF Forest

(* A form is deleted. *)
LEMMA ForestFalls ==
  ASSUME NEW h, NEW F, NEW K, Forest(h, F \cup K), F \cap K = {},
         \A c \in DOMAIN DomClasses : RowOK(DomClasses[c])
  PROVE  Forest(Delete(h, K), F)
  <1> DEFINE B == Below(h, K)
             W == DOMAIN h \ B
             h2 == Delete(h, K)
  <1>1. AllBelow(DOMAIN h, References(h), K, B)
    <2>1. K \in SUBSET DOMAIN h
      BY DEF Forest, IsTree
    <2>2. \A o \in DOMAIN h : Children(h, o) = {r[1] : r \in {s \in References(h) : s[2] = o}}
      BY ChildrenAre DEF Forest
    <2>3. QED
      BY <2>1, <2>2, BelowIs DEF Forest
  <1> HIDE DEF B
  <1>2. TypedHeap(h2) /\ DOMAIN h2 = W /\ \A p \in W : h2[p] = h[p]
    BY TypedRestrict DEF Forest, Delete, B
  <1> HIDE DEF h2
  <1>3. ASSUME NEW r
        PROVE  r \in References(h2) <=> r \in References(h) /\ r[2] \in W
    BY <1>2, FromObject
  <1>4. References(h2) = {r \in References(h) : r[2] \notin B}
    <2>1. \A r \in References(h) : r[2] \in DOMAIN h
      BY FromObject
    <2>2. QED
      BY <1>3, <2>1
  <1>5. IsTree(W, {r \in References(h) : r[2] \notin B}, F)
    BY <1>1, TreeFalls DEF Forest
  <1>6. QED
    BY <1>2, <1>4, <1>5 DEF Forest, h2

(* The objects that o refers to from other fields than those in D.         *)
Left(R, o, D) == {r[1] : r \in {s \in R : s[2] = o /\ s[3] \notin D}}

(* An object that nobody refers to gives up the fields that are not in D,  *)
(* and what they held is deleted.                                          *)
LEMMA ForestCut ==
  ASSUME NEW h, NEW F, Forest(h, F), NEW o \in F, NEW D \in SUBSET DOMAIN h[o].elems, NEW K,
         K = Left(References(h), o, D),
         NEW g, g = Restrict(h[o].elems, D),
         NEW h2, h2 = PutElems(Delete(h, K), o, g),
         \A c \in DOMAIN DomClasses : RowOK(DomClasses[c])
  PROVE  /\ Forest(h2, F)
         /\ Keeps(h, h2)
         /\ h2[o].elems = g
         /\ TypedHeap(Delete(h, K)) /\ o \in DOMAIN Delete(h, K) /\ Delete(h, K)[o] = h[o]
  <1>1. DOMAIN g = D /\ IsFunction(g) /\ \A e \in D : g[e] = h[o].elems[e]
    BY DEF Restrict, IsFunction
  <1> DEFINE B == Below(h, K)
             W == DOMAIN h \ B
             R == References(h)
             Q == {s \in R : s[2] = o /\ s[3] \notin D}
             h1 == Delete(h, K)
  <1>2. TypedHeap(h) /\ IsTree(DOMAIN h, R, F) /\ o \in DOMAIN h
    BY DEF Forest, IsTree
  <1>3. AllBelow(DOMAIN h, R, K, B)
    <2>1. K \in SUBSET DOMAIN h
      BY <1>2 DEF IsTree, Left
    <2>2. QED
      BY <1>2, <2>1, BelowIs, ChildrenAre
  <1> HIDE DEF B
  <1>4. K \cap F = {}
    BY <1>2 DEF IsTree, Left
  <1>5. o \notin B
    BY <1>2, <1>3, <1>4 DEF IsTree, AllBelow
  <1>6. AllBelow(DOMAIN h, R \ Q, K, B)
    BY <1>3, <1>5 DEF AllBelow, ClosedUnder
  <1>7. IsTree(DOMAIN h, R \ Q, F \cup K)
    <2>1. F \cup K = F \cup {q[1] : q \in Q}
      BY DEF Left
    <2>2. QED
      BY <1>2, <2>1, TreeUnlinks
  <1>8. IsTree(W, {r \in R \ Q : r[2] \notin B}, F)
    BY <1>4, <1>6, <1>7, TreeFalls
  <1>9. TypedHeap(h1) /\ DOMAIN h1 = W /\ \A p \in W : h1[p] = h[p]
    BY <1>2, TypedRestrict DEF Delete, B
  <1>10. o \in W
    BY <1>2, <1>5
  <1>11. h2 = PutElems(h1, o, g)
    OBVIOUS
  <1> HIDE DEF h1
  <1>12. /\ DOMAIN h2 = W
         /\ \A p \in W \ {o} : h2[p] = h[p]
         /\ h2[o] = [class |-> h[o].class, elems |-> g, text |-> h[o].text, attrs |-> h[o].attrs]
    <2>1. TypedHeap(h1) /\ o \in DOMAIN h1
      BY <1>9, <1>10
    <2>2. /\ DOMAIN h2 = DOMAIN h1
          /\ \A p \in DOMAIN h1 \ {o} : h2[p] = h1[p]
          /\ h2[o] = [class |-> h1[o].class, elems |-> g, text |-> h1[o].text, attrs |-> h1[o].attrs]
      BY <2>1, <1>11, PutIs
    <2>3. QED
      BY <2>2, <1>9, <1>10
  <1>13. TypedHeap(h2)
    <2>1. TypedObject(h[o])
      BY <1>2 DEF TypedHeap
    <2>2. QED
      BY <1>1, <1>11, <1>9, <1>10, <2>1, TypedPut DEF TypedObject
  <1>14. ASSUME NEW r
         PROVE  r \in Fields(h2[o], o) <=> r \in R /\ r[2] = o /\ r \notin Q
    <2>1. r \in Fields(h[o], o) <=> r \in R /\ r[2] = o
      BY <1>2, FromObject, FieldsAre
    <2>2. r \in Fields(h2[o], o) <=> r \in Fields(h[o], o) /\ r[3] \in D
      BY <1>1, <1>12, FieldsAre
    <2>3. QED
      BY <2>1, <2>2
  <1>15. References(h2) = {r \in R \ Q : r[2] \notin B}
    <2>1. ASSUME NEW r
          PROVE  r \in References(h2) <=> \/ r \in R /\ r[2] \in W \ {o}
                                          \/ r \in Fields(h2[o], o)
      BY <1>10, <1>12, ReferencesAfter
    <2>2. \A r \in R : r[2] \in DOMAIN h
      BY FromObject
    <2>3. ASSUME NEW r
          PROVE  r \in References(h2) <=> r \in R \ Q /\ r[2] \notin B
      BY <2>1, <2>2, <1>14, <1>5
    <2>4. QED
      BY <2>3
  <1>16. Keeps(h, h2)
    BY <1>12 DEF Keeps
  <1>17. Forest(h2, F)
    BY <1>8, <1>12, <1>13, <1>15 DEF Forest
  <1>18. h2[o].elems = g
    BY <1>12
  <1>19. TypedHeap(h1) /\ o \in DOMAIN h1 /\ h1[o] = h[o]
    BY <1>9, <1>10
  <1>20. QED
    BY <1>16, <1>17, <1>18, <1>19 DEF h1

(* An object that nobody refers to gets other fields: no reference more,   *)
(* or one to an object that nobody refers to.                              *)
LEMMA ForestPut ==
  ASSUME NEW h, NEW F, Forest(h, F), NEW o \in F, NEW g,
         IsFunction(g), DOMAIN g \subseteq DOMAIN DomClasses[h[o].class].elems,
         \A e \in DOMAIN g : DomClasses[h[o].class].elems[e].is = "many" => IsSeq(g[e])
  PROVE  LET h2 == PutElems(h, o, g)
         IN  /\ TypedHeap(h2) /\ DOMAIN h2 = DOMAIN h /\ Keeps(h, h2)
             /\ h2[o].elems = g /\ h2[o].class = h[o].class
             /\ \A r : r \in References(h2) <=> \/ r \in References(h) /\ r[2] # o
                                                \/ r \in Fields(h2[o], o)
  <1> DEFINE h2 == PutElems(h, o, g)
  <1>1. TypedHeap(h) /\ o \in DOMAIN h
    BY DEF Forest, IsTree
  <1>2. /\ DOMAIN h2 = DOMAIN h
        /\ \A p \in DOMAIN h \ {o} : h2[p] = h[p]
        /\ h2[o] = [class |-> h[o].class, elems |-> g, text |-> h[o].text, attrs |-> h[o].attrs]
    BY <1>1, PutIs
  <1>3. TypedHeap(h2)
    BY <1>1, TypedPut
  <1> HIDE DEF h2
  <1>4. Keeps(h, h2)
    BY <1>2 DEF Keeps
  <1>5. h2[o].elems = g /\ h2[o].class = h[o].class
    BY <1>2
  <1>6. ASSUME NEW r
        PROVE  r \in References(h2) <=> (r \in References(h) /\ r[2] # o) \/ r \in Fields(h2[o], o)
    <2>1. r \in References(h2) <=> (r \in References(h) /\ r[2] \in DOMAIN h2 \ {o}) \/ r \in Fields(h2[o], o)
      BY <1>1, <1>2, ReferencesAfter
    <2>2. r \in References(h) => r[2] \in DOMAIN h2
      BY <1>2, FromObject
    <2>3. QED
      BY <2>1, <2>2
  <1>7. QED
    BY <1>2, <1>3, <1>4, <1>5, <1>6 DEF h2

(* With x in field e, object o refers by e to what it did, and by q.       *)
AddsOne(c, f, o, e, x, q) ==
  \A r : r \in Field(c, o, e, x) <=> r = q \/ (e \in DOMAIN f /\ r \in Field(c, o, e, f[e]))

LEMMA ForestLinks ==
  ASSUME NEW h, NEW F, Forest(h, F), NEW o \in F, NEW v \in F, o # v, NEW e,
         e \in DOMAIN DomClasses[h[o].class].elems, HoldsObjects(DomClasses[h[o].class].elems[e]),
         NEW x, NEW i,
         DomClasses[h[o].class].elems[e].is = "many" => IsSeq(x),
         AddsOne(DomClasses[h[o].class], h[o].elems, o, e, x, <<v, o, e, i>>),
         NEW h2, h2 = PutElems(h, o, With(h[o].elems, e, x))
  PROVE  Forest(h2, F \ {v}) /\ Keeps(h, h2)
  <1> DEFINE c == DomClasses[h[o].class]
             f == h[o].elems
             g == With(f, e, x)
             q == <<v, o, e, i>>
  <1>1. TypedHeap(h) /\ o \in DOMAIN h /\ IsTree(DOMAIN h, References(h), F)
    BY DEF Forest, IsTree
  <1>2. TypedObject(h[o])
    BY <1>1 DEF TypedHeap
  <1>3. /\ DOMAIN g = DOMAIN f \cup {e}
        /\ g[e] = x /\ \A d \in DOMAIN f \ {e} : g[d] = f[d]
        /\ IsFunction(g)
    BY DEF With, IsFunction
  <1>4. h2 = PutElems(h, o, g)
    OBVIOUS
  <1> HIDE DEF g
  <1>5. DOMAIN g \subseteq DOMAIN c.elems
    BY <1>2, <1>3 DEF TypedObject
  <1>6. \A d \in DOMAIN g : c.elems[d].is = "many" => IsSeq(g[d])
    <2>1. \A d \in DOMAIN f : c.elems[d].is = "many" => IsSeq(f[d])
      BY <1>2 DEF TypedObject
    <2> HIDE DEF c, f
    <2>2. c.elems[e].is = "many" => IsSeq(x)
      BY DEF c
    <2>3. QED
      BY <1>3, <2>1, <2>2
  <1>7. /\ TypedHeap(h2) /\ DOMAIN h2 = DOMAIN h /\ Keeps(h, h2)
        /\ h2[o].elems = g /\ h2[o].class = h[o].class
        /\ \A r : r \in References(h2) <=> \/ r \in References(h) /\ r[2] # o
                                           \/ r \in Fields(h2[o], o)
    BY <1>4, <1>3, <1>5, <1>6, ForestPut
  <1>8. ASSUME NEW r
        PROVE  r \in Fields(h2[o], o) <=> r \in Fields(h[o], o) \/ r = q
    <2>1. r \in Fields(h2[o], o) <=> \E d \in DOMAIN g : r \in Field(c, o, d, g[d])
      BY <1>7, FieldsAre
    <2>2. r \in Fields(h[o], o) <=> \E d \in DOMAIN f : r \in Field(c, o, d, f[d])
      BY FieldsAre
    <2>3. r \in Field(c, o, e, x) <=> r = q \/ (e \in DOMAIN f /\ r \in Field(c, o, e, f[e]))
      BY DEF AddsOne
    <2> HIDE DEF c, f, q
    <2>4. QED
      BY <2>1, <2>2, <2>3, <1>3
  <1>9. References(h2) = References(h) \cup {q}
    <2>1. \A r : r \in References(h) /\ r[2] = o <=> r \in Fields(h[o], o)
      BY <1>1, FromObject, FieldsAre
    <2>2. \A r : r \in References(h2) <=> r \in References(h) \/ r = q
      BY <1>7, <1>8, <2>1
    <2> HIDE DEF q
    <2>3. QED
      BY <2>2
  <1>10. q \notin References(h) /\ q[1] = v /\ q[2] = o
    <2>1. q[1] = v /\ q[2] = o
      OBVIOUS
    <2> HIDE DEF q
    <2>2. QED
      BY <1>1, <2>1 DEF IsTree
  <1>11. IsTree(DOMAIN h, References(h) \cup {q}, F \ {v})
    <2> HIDE DEF q
    <2>1. QED
      BY <1>1, <1>10, TreeLinks
  <1>12. Forest(h2, F \ {v})
    BY <1>7, <1>9, <1>11 DEF Forest
  <1>13. QED
    BY <1>7, <1>12

LEMMA ForestKeepsText ==
  ASSUME NEW h, NEW F, Forest(h, F), NEW o \in F, NEW e,
         e \in DOMAIN DomClasses[h[o].class].elems, ~HoldsObjects(DomClasses[h[o].class].elems[e]), NEW x,
         NEW h2, h2 = PutElems(h, o, With(h[o].elems, e, x))
  PROVE  Forest(h2, F) /\ Keeps(h, h2)
  <1> DEFINE c == DomClasses[h[o].class]
             f == h[o].elems
             g == With(f, e, x)
  <1>1. TypedHeap(h) /\ o \in DOMAIN h /\ IsTree(DOMAIN h, References(h), F)
    BY DEF Forest, IsTree
  <1>2. TypedObject(h[o])
    BY <1>1 DEF TypedHeap
  <1>3. /\ DOMAIN g = DOMAIN f \cup {e}
        /\ g[e] = x /\ \A d \in DOMAIN f \ {e} : g[d] = f[d]
        /\ IsFunction(g)
    BY DEF With, IsFunction
  <1>4. h2 = PutElems(h, o, g)
    OBVIOUS
  <1> HIDE DEF g
  <1>5. DOMAIN g \subseteq DOMAIN c.elems
    BY <1>2, <1>3 DEF TypedObject
  <1>6. \A d \in DOMAIN g : c.elems[d].is = "many" => IsSeq(g[d])
    <2>1. \A d \in DOMAIN f : c.elems[d].is = "many" => IsSeq(f[d])
      BY <1>2 DEF TypedObject
    <2>2. c.elems[e].is # "many"
      BY DEF HoldsObjects
    <2> HIDE DEF c, f
    <2>3. QED
      BY <1>3, <2>1, <2>2
  <1>7. /\ TypedHeap(h2) /\ DOMAIN h2 = DOMAIN h /\ Keeps(h, h2)
        /\ h2[o].elems = g /\ h2[o].class = h[o].class
        /\ \A r : r \in References(h2) <=> \/ r \in References(h) /\ r[2] # o
                                           \/ r \in Fields(h2[o], o)
    BY <1>4, <1>3, <1>5, <1>6, ForestPut
  <1>8. ASSUME NEW r
        PROVE  r \in Fields(h2[o], o) <=> r \in Fields(h[o], o)
    <2>1. r \in Fields(h2[o], o) <=> \E d \in DOMAIN g : r \in Field(c, o, d, g[d])
      BY <1>7, FieldsAre
    <2>2. r \in Fields(h[o], o) <=> \E d \in DOMAIN f : r \in Field(c, o, d, f[d])
      BY FieldsAre
    <2>3. \A y : Field(c, o, e, y) = {}
      BY DEF Field
    <2> HIDE DEF c, f
    <2>4. QED
      BY <2>1, <2>2, <2>3, <1>3
  <1>9. References(h2) = References(h)
    <2>1. \A r : r \in References(h) /\ r[2] = o <=> r \in Fields(h[o], o)
      BY <1>1, FromObject, FieldsAre
    <2>2. \A r : r \in References(h2) <=> r \in References(h)
      BY <1>7, <1>8, <2>1
    <2>3. QED
      BY <2>2
  <1>10. Forest(h2, F)
    BY <1>1, <1>7, <1>9 DEF Forest
  <1>11. QED
    BY <1>7, <1>10

------------------------------------------------------------------------
(* setElementX                                                             *)

(* clear(false), of an object that nobody refers to.                       *)
LEMMA ForestCleared ==
  ASSUME NEW h, NEW F, Forest(h, F), NEW o \in F,
         \A c \in DOMAIN DomClasses : RowOK(DomClasses[c])
  PROVE  Forest(Clear(h, o), F) /\ Keeps(h, Clear(h, o)) /\ Clear(h, o)[o].elems = None
  <1> DEFINE K == Children(h, o)
  <1>1. o \in DOMAIN h /\ TypedHeap(h)
    BY DEF Forest, IsTree
  <1>2. K = Left(References(h), o, {})
    BY <1>1, ChildrenAre DEF Left
  <1>3. None = Restrict(h[o].elems, {})
    BY DEF None, Restrict
  <1> HIDE DEF K
  <1>4. {} \in SUBSET DOMAIN h[o].elems
    OBVIOUS
  <1>5. Clear(h, o) = PutElems(Delete(h, K), o, None)
    BY DEF Clear, K, PutElems
  <1>6. QED
    BY <1>2, <1>3, <1>4, <1>5, ForestCut

LEMMA PutPut ==
  ASSUME NEW h, TypedHeap(h), NEW o \in DOMAIN h, NEW f, NEW g
  PROVE  PutElems(PutElems(h, o, f), o, g) = PutElems(h, o, g)
  <1>1. h = [p \in DOMAIN h |-> h[p]] /\ TypedObject(h[o])
    BY DEF TypedHeap
  <1>2. QED
    BY <1>1 DEF TypedObject, PutElems

(* The references of a field that holds one object, and of a list that got *)
(* one more.                                                               *)
LEMMA FieldOne ==
  ASSUME NEW c, NEW o, NEW e, NEW x, c.elems[e].is = "one"
  PROVE  Field(c, o, e, x) = {<<x, o, e, 0>>}
  BY DEF Field, HoldsObjects

LEMMA FieldAppended ==
  ASSUME NEW c, NEW o, NEW e, NEW s, IsSeq(s), NEW v, c.elems[e].is = "many", NEW r
  PROVE  r \in Field(c, o, e, Append(s, v))
           <=> r = <<v, o, e, Len(s) + 1>> \/ r \in Field(c, o, e, s)
  <1> DEFINE t == Append(s, v)
             n == Len(s)
  <1>1. /\ DOMAIN s = 1 .. n /\ DOMAIN t = 1 .. n + 1 /\ n \in Nat
        /\ t[n + 1] = v /\ \A i \in 1 .. n : t[i] = s[i]
    BY AppendIs DEF IsSeq
  <1>2. /\ Field(c, o, e, s) = {<<s[i], o, e, i>> : i \in DOMAIN s}
        /\ Field(c, o, e, t) = {<<t[i], o, e, i>> : i \in DOMAIN t}
    BY DEF Field, HoldsObjects
  <1> HIDE DEF t, n
  <1>3. \A i : i \in 1 .. n + 1 <=> i = n + 1 \/ i \in 1 .. n
    BY <1>1
  <1>4. QED
    BY <1>1, <1>2, <1>3 DEF t, n

(* setElementX in a choice, where a list may not occur.                    *)
LEMMA ChoiceSet ==
  ASSUME NEW h, NEW F, Forest(h, F), NEW o \in F, NEW e, NEW v,
         \A c \in DOMAIN DomClasses : RowOK(DomClasses[c]),
         DomClasses[h[o].class].choice, e \in DOMAIN DomClasses[h[o].class].elems
  PROVE  LET h1 == Clear(h, o)
         IN  /\ SetElement(h, o, e, v) = PutElems(h1, o, With(h1[o].elems, e, v))
             /\ Forest(h1, F) /\ Keeps(h, h1) /\ h1[o].elems = None
             /\ h1[o].class = h[o].class /\ o \in DOMAIN h1
             /\ DomClasses[h[o].class].elems[e].is # "many"
  <1> DEFINE h1 == Clear(h, o)
  <1>1. SetElement(h, o, e, v) = PutElems(h1, o, With(h1[o].elems, e, v))
    BY DEF SetElement, ClassOfObject, PutElems
  <1>2. Forest(h1, F) /\ Keeps(h, h1) /\ h1[o].elems = None
    BY ForestCleared
  <1>3. o \in DOMAIN h1 /\ o \in DOMAIN h
    BY <1>2 DEF Forest, IsTree
  <1>4. h1[o].class = h[o].class
    BY <1>2, <1>3 DEF Keeps
  <1>5. DomClasses[h[o].class].elems[e].is # "many"
    <2>1. h[o].class \in DOMAIN DomClasses
      BY <1>3 DEF Forest, TypedHeap, TypedObject
    <2>2. QED
      BY <2>1 DEF RowOK
  <1>6. QED
    BY <1>1, <1>2, <1>3, <1>4, <1>5

LEMMA KeepsKeeps ==
  ASSUME NEW h, NEW h1, NEW h2, Keeps(h, h1), Keeps(h1, h2)
  PROVE  Keeps(h, h2)
  BY DEF Keeps

(* The object v, just read, is stored in o.                                *)
LEMMA ObjectSet ==
  ASSUME NEW h, NEW F, Forest(h, F), NEW o \in F, NEW v \in F, o # v, NEW e,
         \A c \in DOMAIN DomClasses : RowOK(DomClasses[c]),
         e \in DOMAIN DomClasses[h[o].class].elems, HoldsObjects(DomClasses[h[o].class].elems[e])
  PROVE  Forest(SetElement(h, o, e, v), F \ {v}) /\ Keeps(h, SetElement(h, o, e, v))
  <1> DEFINE c == DomClasses[h[o].class]
             f == h[o].elems
  <1>1. o \in DOMAIN h /\ TypedHeap(h) /\ TypedObject(h[o]) /\ RowOK(c)
    BY DEF Forest, IsTree, TypedHeap, TypedObject
  <1>2. CASE c.choice
    <2> DEFINE h1 == Clear(h, o)
    <2>1. /\ SetElement(h, o, e, v) = PutElems(h1, o, With(h1[o].elems, e, v))
          /\ Forest(h1, F) /\ Keeps(h, h1) /\ h1[o].elems = None
          /\ h1[o].class = h[o].class /\ o \in DOMAIN h1
          /\ c.elems[e].is # "many"
      BY <1>2, ChoiceSet
    <2> HIDE DEF h1
    <2>2. c.elems[e].is = "one"
      BY <2>1 DEF HoldsObjects
    <2>3. e \notin DOMAIN h1[o].elems
      BY <2>1 DEF None
    <2>4. AddsOne(c, h1[o].elems, o, e, v, <<v, o, e, 0>>)
      BY <2>2, <2>3, FieldOne DEF AddsOne
    <2> DEFINE h2 == PutElems(h1, o, With(h1[o].elems, e, v))
    <2>5. Forest(h2, F \ {v}) /\ Keeps(h1, h2)
      BY <2>1, <2>2, <2>3, <2>4, ForestLinks
    <2> HIDE DEF h2
    <2>6. Keeps(h, h2)
      BY <2>1, <2>5, KeepsKeeps
    <2>7. QED
      BY <2>1, <2>5, <2>6 DEF h2
  <1>3. CASE ~c.choice /\ c.elems[e].is = "many"
    <2> DEFINE s == IF e \in DOMAIN f THEN f[e] ELSE <<>>
    <2>1. SetElement(h, o, e, v) = PutElems(h, o, With(f, e, Append(s, v)))
      BY <1>3 DEF SetElement, ClassOfObject, PutElems
    <2>2. IsSeq(s)
      <3>1. CASE e \in DOMAIN f
        BY <3>1, <1>1, <1>3 DEF TypedObject
      <3>2. CASE e \notin DOMAIN f
        BY <3>2 DEF IsSeq
      <3>3. QED
        BY <3>1, <3>2
    <2>3. IsSeq(Append(s, v))
      BY <2>2, AppendIs
    <2>4. AddsOne(c, f, o, e, Append(s, v), <<v, o, e, Len(s) + 1>>)
      <3> SUFFICES ASSUME NEW r
                   PROVE  r \in Field(c, o, e, Append(s, v))
                            <=> \/ r = <<v, o, e, Len(s) + 1>>
                                \/ e \in DOMAIN f /\ r \in Field(c, o, e, f[e])
        BY DEF AddsOne
      <3>1. r \in Field(c, o, e, Append(s, v)) <=> r = <<v, o, e, Len(s) + 1>> \/ r \in Field(c, o, e, s)
        BY <2>2, <1>3, FieldAppended
      <3>2. CASE e \in DOMAIN f
        BY <3>1, <3>2
      <3>3. CASE e \notin DOMAIN f
        <4>1. Field(c, o, e, s) = {}
          BY <3>3, <1>3 DEF Field
        <4>2. QED
          BY <3>1, <3>3, <4>1
      <3>4. QED
        BY <3>2, <3>3
    <2> HIDE DEF s
    <2>5. QED
      BY <2>1, <2>3, <2>4, ForestLinks
  <1>4. CASE ~c.choice /\ c.elems[e].is = "one"
    <2> DEFINE D == DOMAIN f \ {e}
               g == Restrict(f, D)
               K == IF e \in c.owned \cap DOMAIN f THEN {f[e]} ELSE {}
               h0 == Delete(h, K)
               h1 == PutElems(h0, o, g)
    <2>1. SetElement(h, o, e, v) = PutElems(h0, o, With(h0[o].elems, e, v))
      BY <1>4 DEF SetElement, ClassOfObject, PutElems
    <2>2. K = Left(References(h), o, D)
      <3>1. e \in DOMAIN f => e \in c.owned
        BY <1>1 DEF RowOK
      <3>2. ASSUME NEW r
            PROVE  r \in References(h) /\ r[2] = o /\ r[3] \notin D
                     <=> e \in DOMAIN f /\ r = <<f[e], o, e, 0>>
        <4>1. r \in References(h) /\ r[2] = o <=> r \in Fields(h[o], o)
          BY <1>1, FromObject, FieldsAre
        <4>2. r \in Fields(h[o], o) /\ r[3] \notin D <=> e \in DOMAIN f /\ r \in Field(c, o, e, f[e])
          <5>1. r \in Fields(h[o], o) => r[3] \in DOMAIN f /\ r \in Field(c, o, r[3], f[r[3]])
            BY FieldsAre
          <5>2. e \in DOMAIN f /\ r \in Field(c, o, e, f[e]) => r \in Fields(h[o], o) /\ r[3] = e
            BY FieldsAre, FieldIs
          <5> HIDE DEF c, f
          <5>3. QED
            BY <5>1, <5>2
        <4>3. Field(c, o, e, f[e]) = {<<f[e], o, e, 0>>}
          BY <1>4, FieldOne
        <4>4. QED
          BY <4>1, <4>2, <4>3
      <3> DEFINE Q == {s \in References(h) : s[2] = o /\ s[3] \notin D}
      <3>3. Q = IF e \in DOMAIN f THEN {<<f[e], o, e, 0>>} ELSE {}
        BY <3>2
      <3>4. <<f[e], o, e, 0>>[1] = f[e]
        OBVIOUS
      <3> HIDE DEF Q
      <3>5. {r[1] : r \in Q} = IF e \in DOMAIN f THEN {f[e]} ELSE {}
        BY <3>3, <3>4
      <3>6. QED
        BY <3>1, <3>5 DEF Q, Left
    <2> HIDE DEF K
    <2>3. /\ Forest(h1, F) /\ Keeps(h, h1) /\ h1[o].elems = g
          /\ TypedHeap(h0) /\ o \in DOMAIN h0 /\ h0[o] = h[o]
      <3>1. D \in SUBSET DOMAIN h[o].elems
        OBVIOUS
      <3> HIDE DEF D
      <3>2. QED
        BY <2>2, <3>1, ForestCut
    <2>4. g = Restrict(f, D) /\ h1 = PutElems(h0, o, g)
      OBVIOUS
    <2> HIDE DEF h0, h1, g
    <2>5. o \in DOMAIN h1
      BY <2>3 DEF Forest, IsTree
    <2>6. h1[o].class = h[o].class
      BY <2>3, <2>5 DEF Keeps
    <2>7. With(f, e, v) = With(g, e, v)
      BY <2>4 DEF With, Restrict
    <2>8. e \notin DOMAIN h1[o].elems
      BY <2>3, <2>4 DEF Restrict
    <2>9. AddsOne(c, h1[o].elems, o, e, v, <<v, o, e, 0>>)
      BY <1>4, <2>8, FieldOne DEF AddsOne
    <2> DEFINE h2 == PutElems(h1, o, With(h1[o].elems, e, v))
    <2>10. Forest(h2, F \ {v}) /\ Keeps(h1, h2)
      BY <1>4, <2>3, <2>6, <2>8, <2>9, ForestLinks
    <2>11. SetElement(h, o, e, v) = h2
      <3>1. PutElems(h0, o, With(f, e, v)) = PutElems(h1, o, With(g, e, v))
        BY <2>3, <2>7, <2>4, PutPut
      <3>2. h0[o].elems = f
        BY <2>3
      <3>3. QED
        BY <2>1, <2>3, <3>1, <3>2 DEF h0
    <2> HIDE DEF h2
    <2>12. QED
      BY <2>3, <2>10, <2>11, KeepsKeeps
  <1>5. c.elems[e].is \in {"one", "many"}
    BY DEF HoldsObjects
  <1>6. QED
    BY <1>2, <1>3, <1>4, <1>5

(* A text, just read, is stored in o.                                      *)
LEMMA TextSet ==
  ASSUME NEW h, NEW F, Forest(h, F), NEW o \in F, NEW v, NEW e,
         \A c \in DOMAIN DomClasses : RowOK(DomClasses[c]),
         e \in DOMAIN DomClasses[h[o].class].elems, ~HoldsObjects(DomClasses[h[o].class].elems[e])
  PROVE  Forest(SetElement(h, o, e, v), F) /\ Keeps(h, SetElement(h, o, e, v))
  <1> DEFINE c == DomClasses[h[o].class]
             f == h[o].elems
  <1>1. CASE c.choice
    <2> DEFINE h1 == Clear(h, o)
    <2>1. /\ SetElement(h, o, e, v) = PutElems(h1, o, With(h1[o].elems, e, v))
          /\ Forest(h1, F) /\ Keeps(h, h1) /\ h1[o].class = h[o].class
      BY <1>1, ChoiceSet
    <2> HIDE DEF h1
    <2> DEFINE h2 == PutElems(h1, o, With(h1[o].elems, e, v))
    <2>2. Forest(h2, F) /\ Keeps(h1, h2)
      BY <2>1, ForestKeepsText
    <2> HIDE DEF h2
    <2>3. Keeps(h, h2)
      BY <2>1, <2>2, KeepsKeeps
    <2>4. QED
      BY <2>1, <2>2, <2>3 DEF h2
  <1>2. CASE ~c.choice
    <2>1. PICK x : SetElement(h, o, e, v) = PutElems(h, o, With(f, e, x))
      BY <1>2 DEF SetElement, ClassOfObject, PutElems, HoldsObjects
    <2>2. QED
      BY <2>1, ForestKeepsText
  <1>3. QED
    BY <1>1, <1>2

(* The text of an object is no reference.                                  *)
LEMMA TextGathered ==
  ASSUME NEW h, NEW F, Forest(h, F), NEW o \in DOMAIN h, NEW t
  PROVE  LET h2 == [h EXCEPT ![o].text = t]
         IN  /\ Forest(h2, F) /\ Keeps(h, h2) /\ DOMAIN h2 = DOMAIN h
             /\ \A p \in DOMAIN h : h2[p].class = h[p].class
  <1> DEFINE h2 == [h EXCEPT ![o].text = t]
  <1>1. h = [p \in DOMAIN h |-> h[p]] /\ TypedObject(h[o]) /\ TypedHeap(h)
    BY DEF Forest, TypedHeap
  <1>2. /\ DOMAIN h2 = DOMAIN h /\ h2 = [p \in DOMAIN h2 |-> h2[p]]
        /\ \A p \in DOMAIN h \ {o} : h2[p] = h[p]
        /\ h2[o] = [class |-> h[o].class, elems |-> h[o].elems, text |-> t, attrs |-> h[o].attrs]
    BY <1>1 DEF TypedObject
  <1> HIDE DEF h2
  <1>3. TypedObject(h2[o])
    BY <1>1, <1>2, TypedRecord DEF TypedObject
  <1>4. TypedHeap(h2)
    BY <1>1, <1>2, <1>3 DEF TypedHeap
  <1>5. \A p \in DOMAIN h : h2[p].class = h[p].class /\ h2[p].elems = h[p].elems
    BY <1>2
  <1>6. References(h2) = References(h)
    <2>1. \A p \in DOMAIN h : Fields(h2[p], p) = Fields(h[p], p)
      BY <1>5 DEF Fields
    <2>2. QED
      BY <1>2, <2>1, ReferencesAre
  <1>7. QED
    BY <1>2, <1>4, <1>5, <1>6 DEF Forest, Keeps, h2

------------------------------------------------------------------------
(* The calls of read in progress                                           *)

IsFrame(f) ==
  /\ f = [object |-> f.object, node |-> f.node]
  /\ f.node = [tag |-> f.node.tag, attrs |-> f.node.attrs, nodes |-> f.node.nodes, text |-> f.node.text]

(* A call reads an object of its own, for a field of its caller's object   *)
(* that holds objects.                                                     *)
FramesFit(h, fs) ==
  /\ IsSeq(fs) /\ Len(fs) > 0
  /\ \A i \in 1 .. Len(fs) : IsFrame(fs[i])
  /\ \A i, j \in 1 .. Len(fs) : fs[i].object = fs[j].object => i = j
  /\ \A i \in 1 .. Len(fs) - 1 :
       LET c == DomClasses[h[fs[i].object].class]
           tag == fs[i + 1].node.tag
       IN  tag \in DOMAIN c.elems /\ HoldsObjects(c.elems[tag])

Reading(fs) == {fs[i].object : i \in 1 .. Len(fs)}

(* The calls gs read the same objects for the same fields as fs.           *)
SameCalls(fs, gs) ==
  /\ IsSeq(gs) /\ Len(gs) = Len(fs)
  /\ \A i \in 1 .. Len(fs) : /\ IsFrame(gs[i])
                             /\ gs[i].object = fs[i].object
                             /\ gs[i].node.tag = fs[i].node.tag

LEMMA CallsFit ==
  ASSUME NEW h, NEW h2, NEW fs, NEW gs, FramesFit(h, fs), SameCalls(fs, gs),
         Keeps(h, h2), Reading(fs) \subseteq DOMAIN h2
  PROVE  FramesFit(h2, gs) /\ Reading(gs) = Reading(fs)
  <1>1. Reading(gs) = Reading(fs)
    BY DEF Reading, SameCalls
  <1>2. Len(fs) \in Nat
    BY DEF FramesFit, IsSeq
  <1>3. \A i \in 1 .. Len(fs) : h2[fs[i].object].class = h[fs[i].object].class
    BY DEF Reading, Keeps
  <1>4. ASSUME NEW i \in 1 .. Len(gs) - 1
        PROVE  LET c == DomClasses[h2[gs[i].object].class]
                   tag == gs[i + 1].node.tag
               IN  tag \in DOMAIN c.elems /\ HoldsObjects(c.elems[tag])
    <2>1. i \in 1 .. Len(fs) /\ i + 1 \in 1 .. Len(fs) /\ i \in 1 .. Len(fs) - 1
      BY <1>2 DEF SameCalls
    <2>2. /\ gs[i].object = fs[i].object /\ gs[i + 1].node.tag = fs[i + 1].node.tag
          /\ h2[fs[i].object].class = h[fs[i].object].class
      BY <2>1, <1>3 DEF SameCalls
    <2>3. QED
      BY <2>1, <2>2 DEF FramesFit
  <1>5. QED
    BY <1>1, <1>4 DEF FramesFit, SameCalls

(* A node is kept with the element being read.                             *)
LEMMA NodeKept ==
  ASSUME NEW fs, IsSeq(fs), Len(fs) > 0, \A i \in 1 .. Len(fs) : IsFrame(fs[i]), NEW node
  PROVE  SameCalls(fs, [fs EXCEPT ![Len(fs)].node.nodes = Append(@, node)])
  <1> DEFINE n == Len(fs)
             gs == [fs EXCEPT ![n].node.nodes = Append(@, node)]
             g == [fs[n] EXCEPT !.node.nodes = Append(@, node)]
  <1>1. n \in 1 .. n /\ n \in Nat /\ DOMAIN fs = 1 .. n
    BY DEF IsSeq
  <1>2. /\ gs = [i \in 1 .. n |-> IF i = n THEN g ELSE fs[i]]
    BY <1>1 DEF IsSeq
  <1>3. IsFrame(g) /\ g.object = fs[n].object /\ g.node.tag = fs[n].node.tag
    <2>1. IsFrame(fs[n])
      BY <1>1
    <2> DEFINE x == fs[n]
               y == Append(x.node.nodes, node)
    <2>2. g = [x EXCEPT !.node.nodes = y]
      OBVIOUS
    <2> HIDE DEF x, y, g
    <2>3. g = [object |-> x.object,
               node |-> [tag |-> x.node.tag, attrs |-> x.node.attrs, nodes |-> y, text |-> x.node.text]]
      BY <2>1, <2>2 DEF IsFrame, x
    <2>4. QED
      BY <2>3 DEF IsFrame, x
  <1> HIDE DEF g, gs
  <1>4. IsSeq(gs) /\ Len(gs) = n
    BY <1>1, <1>2 DEF IsSeq
  <1>5. \A i \in 1 .. n : gs[i] = IF i = n THEN g ELSE fs[i]
    BY <1>2
  <1>6. QED
    BY <1>1, <1>3, <1>4, <1>5 DEF SameCalls, gs

(* The caller, once the object on top is read.                             *)
LEMMA Returned ==
  ASSUME NEW h, NEW fs, FramesFit(h, fs), Len(fs) # 1
  PROVE  /\ FramesFit(h, Front(fs))
         /\ Len(Front(fs)) = Len(fs) - 1
         /\ Last(Front(fs)) = fs[Len(fs) - 1]
         /\ Reading(Front(fs)) = Reading(fs) \ {Last(fs).object}
         /\ LET c == DomClasses[h[Last(Front(fs)).object].class]
                tag == Last(fs).node.tag
            IN  tag \in DOMAIN c.elems /\ HoldsObjects(c.elems[tag])
         /\ Last(fs).object \in Reading(fs)
         /\ Last(Front(fs)).object \in Reading(fs)
         /\ Last(Front(fs)).object # Last(fs).object
  <1> DEFINE n == Len(fs)
             gs == Front(fs)
             S == {fs[i] : i \in 1 .. n}
  <1>1. n \in Nat /\ n > 1
    BY DEF FramesFit, IsSeq
  <1>2. IsSeq(gs) /\ Len(gs) = n - 1 /\ \A i \in 1 .. n - 1 : gs[i] = fs[i]
    <2>1. \A i \in 1 .. n - 1 : fs[i] \in S
      BY <1>1
    <2>2. 1 \in Int /\ n - 1 \in Int /\ 1 <= n - 1
      BY <1>1
    <2> HIDE DEF n, S
    <2>3. /\ SubSeq(fs, 1, n - 1) \in Seq(S)
          /\ Len(SubSeq(fs, 1, n - 1)) = (n - 1) - 1 + 1
          /\ \A i \in 1 .. (n - 1) - 1 + 1 : SubSeq(fs, 1, n - 1)[i] = fs[1 + i - 1]
      BY <2>1, <2>2, SubSeqProperties
    <2>4. gs = SubSeq(fs, 1, n - 1)
      BY DEF n, Front
    <2>5. \A t \in Seq(S) : IsSeq(t)
      BY DEF IsSeq
    <2> HIDE DEF gs
    <2>6. IsSeq(gs)
      BY <2>3, <2>4, <2>5
    <2>7. (n - 1) - 1 + 1 = n - 1 /\ n \in Nat /\ \A i \in 1 .. n - 1 : 1 + i - 1 = i
      BY <1>1 DEF n
    <2>8. Len(gs) = n - 1
      BY <2>3, <2>4, <2>7
    <2>9. \A i \in 1 .. n - 1 : gs[i] = fs[i]
      BY <2>3, <2>4, <2>7
    <2>10. QED
      BY <2>6, <2>8, <2>9 DEF n
  <1> HIDE DEF gs
  <1>3. Last(gs) = fs[n - 1] /\ Last(fs) = fs[n]
    BY <1>1, <1>2 DEF Last
  <1>4. FramesFit(h, gs)
    BY <1>1, <1>2 DEF FramesFit
  <1>5. n \in 1 .. n /\ n - 1 \in 1 .. n - 1 /\ n - 1 \in 1 .. n /\ n # n - 1 /\ (n - 1) + 1 = n
    BY <1>1
  <1>6. \A i, j \in 1 .. n : fs[i].object = fs[j].object => i = j
    BY DEF FramesFit
  <1>7. Reading(gs) = Reading(fs) \ {fs[n].object}
    <2>1. \A i : i \in 1 .. n - 1 <=> i \in 1 .. n /\ i # n
      BY <1>1
    <2>2. Reading(gs) = {fs[i].object : i \in 1 .. n - 1}
      BY <1>2 DEF Reading
    <2> HIDE DEF n
    <2>3. QED
      BY <1>5, <1>6, <2>1, <2>2 DEF Reading, n
  <1>8. LET c == DomClasses[h[fs[n - 1].object].class]
            tag == fs[n].node.tag
        IN  tag \in DOMAIN c.elems /\ HoldsObjects(c.elems[tag])
    BY <1>5 DEF FramesFit
  <1>9. fs[n].object \in Reading(fs) /\ fs[n - 1].object \in Reading(fs) /\ fs[n - 1].object # fs[n].object
    BY <1>5, <1>6 DEF Reading
  <1>10. QED
    BY <1>2, <1>3, <1>4, <1>7, <1>8, <1>9 DEF gs

(* A call starts.                                                          *)
LEMMA Called ==
  ASSUME NEW h, NEW h2, NEW fs, FramesFit(h, fs), NEW f, IsFrame(f), f.object \notin Reading(fs),
         \A o \in Reading(fs) : h2[o].class = h[o].class,
         f.node.tag \in DOMAIN DomClasses[h[fs[Len(fs)].object].class].elems,
         HoldsObjects(DomClasses[h[fs[Len(fs)].object].class].elems[f.node.tag])
  PROVE  FramesFit(h2, Append(fs, f)) /\ Reading(Append(fs, f)) = Reading(fs) \cup {f.object}
  <1> DEFINE n == Len(fs)
             gs == Append(fs, f)
  <1>1. /\ IsSeq(gs) /\ Len(gs) = n + 1 /\ n \in Nat /\ n > 0
        /\ gs[n + 1] = f /\ \A i \in 1 .. n : gs[i] = fs[i]
    <2>1. IsSeq(fs) /\ n \in Nat /\ n > 0
      BY DEF FramesFit, IsSeq
    <2>2. QED
      BY <2>1, AppendIs
  <1> HIDE DEF gs
  <1>2. \A i \in 1 .. n + 1 : i = n + 1 \/ i \in 1 .. n
    BY <1>1
  <1>3. \A i \in 1 .. n : fs[i].object # f.object /\ h2[fs[i].object].class = h[fs[i].object].class
    BY DEF Reading
  <1>4. \A i, j \in 1 .. n + 1 : gs[i].object = gs[j].object => i = j
    <2>1. \A i, j \in 1 .. n : fs[i].object = fs[j].object => i = j
      BY DEF FramesFit
    <2>2. \A i \in 1 .. n : gs[i].object # gs[n + 1].object
      BY <1>1, <1>3
    <2> HIDE DEF n
    <2>3. QED
      BY <1>1, <1>2, <2>1, <2>2
  <1>5. ASSUME NEW i \in 1 .. n
        PROVE  LET c == DomClasses[h2[gs[i].object].class]
                   tag == gs[i + 1].node.tag
               IN  tag \in DOMAIN c.elems /\ HoldsObjects(c.elems[tag])
    <2>1. CASE i = n
      BY <2>1, <1>1, <1>3
    <2>2. CASE i # n
      <3>1. i \in 1 .. n - 1 /\ i + 1 \in 1 .. n
        BY <2>2, <1>1
      <3>2. QED
        BY <3>1, <1>1, <1>3 DEF FramesFit
    <2>3. QED
      BY <2>1, <2>2
  <1>6. FramesFit(h2, gs)
    <2>1. Len(gs) - 1 = n
      BY <1>1
    <2>2. \A i \in 1 .. n + 1 : IsFrame(gs[i])
      BY <1>1, <1>2 DEF FramesFit
    <2>3. Len(gs) > 0 /\ 1 .. Len(gs) = 1 .. n + 1 /\ 1 .. Len(gs) - 1 = 1 .. n
      BY <1>1, <2>1
    <2>4. \A i \in 1 .. Len(gs) - 1 :
            LET c == DomClasses[h2[gs[i].object].class]
                tag == gs[i + 1].node.tag
            IN  tag \in DOMAIN c.elems /\ HoldsObjects(c.elems[tag])
      BY <1>5, <2>3
    <2> HIDE DEF n
    <2>5. QED
      BY <1>1, <1>4, <2>2, <2>3, <2>4 DEF FramesFit
  <1>7. Reading(gs) = Reading(fs) \cup {f.object}
    <2>1. \A o : o \in Reading(gs) <=> o \in Reading(fs) \/ o = f.object
      BY <1>1, <1>2 DEF Reading
    <2>2. QED
      BY <2>1
  <1>8. QED
    BY <1>6, <1>7 DEF gs

------------------------------------------------------------------------
(* The form                                                                *)

(* While there is a form, the live objects are a forest whose roots are    *)
(* the objects still being read.                                           *)
FormInv ==
  /\ phase \in {"reading", "read", "written", "deleted"}
  /\ phase = "deleted" => heap = <<>>
  /\ phase # "deleted" => /\ Forest(heap, Reading(frames))
                          /\ FramesFit(heap, frames)
                          /\ phase # "reading" => Len(frames) = 1

(* There is always an address for one object more.                         *)
LEMMA FreshIs ==
  ASSUME TypedHeap(heap)
  PROVE  Fresh \in Nat \ DOMAIN heap
  <1> DEFINE n == Cardinality(DOMAIN heap)
  <1>1. n \in Nat /\ IsFiniteSet(DOMAIN heap)
    BY FS_CardinalityType DEF TypedHeap
  <1>2. \E o \in 1 .. n + 1 : o \notin DOMAIN heap
    <2> SUFFICES ASSUME 1 .. n + 1 \subseteq DOMAIN heap
                 PROVE  FALSE
      OBVIOUS
    <2>1. Cardinality(1 .. n + 1) <= n
      BY <1>1, FS_Subset
    <2>2. Cardinality(1 .. n + 1) = n + 1
      <3> HIDE DEF n
      <3>1. 1 \in Int /\ n + 1 \in Int /\ 1 <= n + 1
        BY <1>1
      <3>2. Cardinality(1 .. n + 1) = (n + 1) - 1 + 1
        BY <3>1, <1>1, FS_Interval
      <3>3. QED
        BY <3>2, <1>1
    <2> HIDE DEF n
    <2>3. QED
      BY <1>1, <2>1, <2>2
  <1>3. QED
    BY <1>1, <1>2 DEF Fresh

LEMMA NewIs ==
  ASSUME NEW class \in DOMAIN DomClasses, NEW attrs
  PROVE  TypedObject(NewObject(class, attrs)) /\ NewObject(class, attrs).elems = None
         /\ NewObject(class, attrs).class = class
  <1> DEFINE known == DOMAIN DomClasses[class].attrs \cap DOMAIN attrs
             as == [a \in known |-> Value(DomClasses[class].attrs[a], attrs[a])]
  <1>1. NewObject(class, attrs) = [class |-> class, elems |-> None, text |-> <<>>, attrs |-> as]
    BY DEF NewObject
  <1> HIDE DEF as
  <1>2. IsFunction(None) /\ DOMAIN None = {}
    BY DEF None, IsFunction
  <1>3. TypedObject([class |-> class, elems |-> None, text |-> <<>>, attrs |-> as])
    BY <1>2, TypedRecord
  <1>4. QED
    BY <1>1, <1>3

LEMMA NoForest == Forest(<<>>, {})
  <1>1. DOMAIN <<>> = {} /\ <<>> = [o \in {} |-> <<>>[o]]
    OBVIOUS
  <1>2. TypedHeap(<<>>)
    BY <1>1, FS_EmptySet DEF TypedHeap
  <1>3. References(<<>>) = {}
    BY <1>1 DEF References
  <1>4. IsTree({}, {}, {})
    BY DEF IsTree, Acyclic
  <1>5. QED
    BY <1>1, <1>2, <1>3, <1>4 DEF Forest

LEMMA FormInit == Init => FormInv
  <1> SUFFICES ASSUME Init
               PROVE  FormInv
    OBVIOUS
  <1>1. PICK class \in Roots :
          \E attrs : /\ heap = [o \in {1} |-> NewObject(class, attrs)]
                     /\ frames = <<[object |-> 1, node |-> Element(DomClasses[class].tag, attrs, <<>>)]>>
    BY DEF Init
  <1>2. PICK attrs :
          /\ heap = [o \in {1} |-> NewObject(class, attrs)]
          /\ frames = <<[object |-> 1, node |-> Element(DomClasses[class].tag, attrs, <<>>)]>>
    BY <1>1
  <1>3. class \in DOMAIN DomClasses
    BY RootsAssumption
  <1> DEFINE obj == NewObject(class, attrs)
             f == [object |-> 1, node |-> Element(DomClasses[class].tag, attrs, <<>>)]
  <1>4. TypedObject(obj) /\ obj.elems = None
    BY <1>3, NewIs
  <1>5. heap = With(<<>>, 1, obj)
    BY <1>2 DEF With
  <1> HIDE DEF obj
  <1>6. Forest(heap, {} \cup {1})
    <2>1. 1 \in Nat \ DOMAIN <<>>
      OBVIOUS
    <2>2. QED
      BY <1>4, <1>5, <2>1, NoForest, ForestGrows
  <1>7. IsFrame(f)
    BY DEF IsFrame, Element
  <1>8. IsSeq(frames) /\ Len(frames) = 1 /\ frames[1] = f
    BY <1>2 DEF IsSeq
  <1>9. f.object = 1
    OBVIOUS
  <1> HIDE DEF f
  <1>10. FramesFit(heap, frames) /\ Reading(frames) = {1}
    BY <1>7, <1>8, <1>9 DEF FramesFit, Reading
  <1>11. QED
    BY <1>6, <1>10 DEF Init, FormInv

(* A step that leaves the calls, and the objects they read, as they are.   *)
LEMMA SameForm ==
  ASSUME FormInv, phase = "reading", phase' = "reading",
         Forest(heap', Reading(frames)), Keeps(heap, heap'), SameCalls(frames, frames')
  PROVE  FormInv'
  <1>1. Reading(frames) \subseteq DOMAIN heap'
    BY DEF Forest, IsTree
  <1>2. FramesFit(heap', frames') /\ Reading(frames') = Reading(frames)
    BY <1>1, CallsFit DEF FormInv
  <1>3. QED
    BY <1>2 DEF FormInv

(* The object on top of the calls.                                         *)
LEMMA TopIs ==
  ASSUME FormInv, phase # "deleted"
  PROVE  /\ TypedHeap(heap) /\ FramesFit(heap, frames)
         /\ IsSeq(frames) /\ Len(frames) \in Nat /\ Len(frames) > 0
         /\ \A i \in 1 .. Len(frames) : IsFrame(frames[i])
         /\ Top = frames[Len(frames)]
         /\ Top.object \in Reading(frames) /\ Top.object \in DOMAIN heap
         /\ Reading(frames) \subseteq DOMAIN heap
         /\ TopClass = DomClasses[heap[Top.object].class]
         /\ heap[Top.object].class \in DOMAIN DomClasses
  <1>1. Forest(heap, Reading(frames)) /\ FramesFit(heap, frames)
    BY DEF FormInv
  <1>2. /\ IsSeq(frames) /\ Len(frames) \in Nat /\ Len(frames) > 0
        /\ \A i \in 1 .. Len(frames) : IsFrame(frames[i])
    BY <1>1 DEF FramesFit, IsSeq
  <1>3. Top = frames[Len(frames)]
    BY DEF Top, Last
  <1>4. Top.object \in Reading(frames)
    BY <1>2, <1>3 DEF Reading
  <1>5. TypedHeap(heap) /\ Reading(frames) \subseteq DOMAIN heap
    BY <1>1 DEF Forest, IsTree
  <1>6. QED
    BY <1>1, <1>2, <1>3, <1>4, <1>5 DEF TopClass, ClassOfObject, TypedHeap, TypedObject

LEMMA SeenIs ==
  ASSUME FormInv, phase # "deleted", NEW node
  PROVE  SameCalls(frames, Seen(node))
  BY TopIs, NodeKept DEF Seen

LEMMA ObjectRead ==
  ASSUME FormInv, phase = "reading", NEW tag \in TopClass.reads, NEW attrs,
         HoldsObjects(TopClass.elems[tag]), ReadObject(tag, attrs)
  PROVE  FormInv'
  <1> DEFINE class == TopClass.elems[tag].of
             obj == NewObject(class, attrs)
             f == [object |-> Fresh, node |-> Element(tag, attrs, <<>>)]
  <1>1. heap' = With(heap, Fresh, obj) /\ frames' = Append(frames, f) /\ phase' = "reading"
    BY DEF ReadObject, Visit
  <1>2. /\ TypedHeap(heap) /\ FramesFit(heap, frames) /\ Top = frames[Len(frames)]
        /\ Reading(frames) \subseteq DOMAIN heap
        /\ TopClass = DomClasses[heap[Top.object].class]
        /\ heap[Top.object].class \in DOMAIN DomClasses
    BY TopIs
  <1>3. tag \in DOMAIN TopClass.elems /\ class \in DOMAIN DomClasses
    BY <1>2, Rows DEF RowOK
  <1>4. Fresh \in Nat \ DOMAIN heap
    BY <1>2, FreshIs
  <1>5. TypedObject(obj) /\ obj.elems = None
    BY <1>3, NewIs
  <1>6. IsFrame(f) /\ f.object = Fresh /\ f.node.tag = tag
    BY DEF IsFrame, Element
  <1> HIDE DEF obj, f
  <1>7. /\ Forest(heap', Reading(frames) \cup {Fresh})
        /\ \A p \in DOMAIN heap : heap'[p] = heap[p]
    <2>1. Forest(heap, Reading(frames))
      BY DEF FormInv
    <2> DEFINE h2 == With(heap, Fresh, obj)
    <2>2. /\ Forest(h2, Reading(frames) \cup {Fresh})
          /\ \A p \in DOMAIN heap : h2[p] = heap[p]
      <3> HIDE DEF h2
      <3>1. h2 = With(heap, Fresh, obj)
        BY DEF h2
      <3>2. QED
        BY <1>4, <1>5, <2>1, <3>1, ForestGrows
    <2>3. QED
      BY <1>1, <2>2
  <1>8. FramesFit(heap', frames') /\ Reading(frames') = Reading(frames) \cup {Fresh}
    <2>1. f.object \notin Reading(frames)
      BY <1>2, <1>4, <1>6
    <2>2. \A o \in Reading(frames) : heap'[o].class = heap[o].class
      BY <1>2, <1>7
    <2>3. /\ f.node.tag \in DOMAIN DomClasses[heap[frames[Len(frames)].object].class].elems
          /\ HoldsObjects(DomClasses[heap[frames[Len(frames)].object].class].elems[f.node.tag])
      BY <1>2, <1>3, <1>6
    <2>4. QED
      <3> DEFINE gs == Append(frames, f)
                 h2 == heap'
      <3>1. frames' = gs
        BY <1>1
      <3> HIDE DEF gs, h2
      <3>2. FramesFit(h2, gs) /\ Reading(gs) = Reading(frames) \cup {f.object}
        BY <1>2, <1>6, <2>1, <2>2, <2>3, Called DEF gs, h2
      <3>3. QED
        BY <1>6, <3>1, <3>2 DEF h2
  <1>9. QED
    BY <1>1, <1>7, <1>8 DEF FormInv

LEMMA ScalarRead ==
  ASSUME FormInv, phase = "reading", NEW tag \in TopClass.reads, NEW t,
         ~HoldsObjects(TopClass.elems[tag]), ReadScalar(tag, t)
  PROVE  FormInv'
  <1> DEFINE node == Element(tag, None, <<TextNode(t)>>)
             v == Value(TopClass.elems[tag], t)
  <1>1. heap' = SetElement(heap, Top.object, tag, v) /\ frames' = Seen(node) /\ phase' = "reading"
    BY DEF ReadScalar, Visit
  <1> HIDE DEF node, v
  <1>2. /\ Top.object \in Reading(frames)
        /\ TopClass = DomClasses[heap[Top.object].class]
        /\ heap[Top.object].class \in DOMAIN DomClasses
    BY TopIs
  <1>3. tag \in DOMAIN TopClass.elems
    BY <1>2, Rows DEF RowOK
  <1>4. Forest(heap, Reading(frames))
    BY DEF FormInv
  <1>5. Forest(heap', Reading(frames)) /\ Keeps(heap, heap')
    BY <1>1, <1>2, <1>3, <1>4, Rows, TextSet
  <1>6. QED
    BY <1>1, <1>5, SeenIs, SameForm

(* A node that is no child element the class knows.                        *)
LEMMA NodeSeen ==
  ASSUME FormInv, phase = "reading", phase' = "reading", heap' = heap, NEW node, frames' = Seen(node)
  PROVE  FormInv'
  <1>1. Forest(heap', Reading(frames)) /\ Keeps(heap, heap')
    BY DEF FormInv, Keeps
  <1>2. QED
    BY <1>1, SeenIs, SameForm

LEMMA NodeRead == FormInv /\ ReadNode => FormInv'
  <1> SUFFICES ASSUME FormInv, ReadNode
               PROVE  FormInv'
    OBVIOUS
  <1>1. phase = "reading"
    BY DEF ReadNode
  <1>2. CASE \E tag \in TopClass.reads : \E attrs : HoldsObjects(TopClass.elems[tag]) /\ ReadObject(tag, attrs)
    BY <1>1, <1>2, ObjectRead
  <1>3. CASE \E tag \in TopClass.reads : \E t : ~HoldsObjects(TopClass.elems[tag]) /\ ReadScalar(tag, t)
    BY <1>1, <1>3, ScalarRead
  <1>4. CASE ReadUnknown
    BY <1>1, <1>4, NodeSeen DEF ReadUnknown, Visit
  <1>5. CASE \E t : ReadText(t)
    BY <1>1, <1>5, NodeSeen DEF ReadText, Visit
  <1>6. QED
    BY <1>2, <1>3, <1>4, <1>5 DEF ReadNode, HoldsObjects

(* The calls that are left when the object on top is read.                 *)
LEMMA EndKept == FormInv /\ EndRead => FormInv'
  <1> SUFFICES ASSUME FormInv, EndRead
               PROVE  FormInv'
    OBVIOUS
  <1> DEFINE F == Reading(frames)
             v == Top.object
             h == [heap EXCEPT ![v].text = TextOf(Top.node)]
             caller == Front(frames)
             o == Last(caller).object
  <1>1. /\ phase = "reading"
        /\ IF Len(frames) = 1
           THEN heap' = h /\ phase' = "read" /\ frames' = frames
           ELSE /\ heap' = SetElement(h, o, Top.node.tag, v)
                /\ frames' = [caller EXCEPT ![Len(caller)].node.nodes = Append(@, Top.node)]
                /\ phase' = phase
    BY DEF EndRead
  <1>2. Forest(heap, F) /\ FramesFit(heap, frames)
    BY <1>1 DEF FormInv
  <1>3. v \in DOMAIN heap /\ F \subseteq DOMAIN heap
    BY <1>1, TopIs
  <1> HIDE DEF F
  <1>4. /\ Forest(h, F) /\ Keeps(heap, h) /\ DOMAIN h = DOMAIN heap
        /\ \A p \in DOMAIN heap : h[p].class = heap[p].class
    BY <1>2, <1>3, TextGathered
  <1> HIDE DEF h, v
  <1>5. FramesFit(h, frames)
    <2>1. SameCalls(frames, frames)
      BY <1>2 DEF FramesFit, SameCalls
    <2>2. QED
      BY <1>2, <1>3, <1>4, <2>1, CallsFit DEF F
  <1>6. CASE Len(frames) = 1
    BY <1>1, <1>4, <1>5, <1>6 DEF FormInv, F
  <1>7. CASE Len(frames) # 1
    <2>1. /\ FramesFit(h, caller)
          /\ Len(caller) = Len(frames) - 1
          /\ Reading(caller) = F \ {v}
          /\ Top.node.tag \in DOMAIN DomClasses[h[o].class].elems
          /\ HoldsObjects(DomClasses[h[o].class].elems[Top.node.tag])
          /\ v \in F /\ o \in F /\ o # v
      BY <1>5, <1>7, Returned DEF Top, F, v
    <2> HIDE DEF caller, o
    <2>2. Forest(heap', F \ {v}) /\ Keeps(h, heap')
      BY <1>1, <1>4, <1>7, <2>1, Rows, ObjectSet
    <2>3. SameCalls(caller, frames')
      <3>1. IsSeq(caller) /\ Len(caller) > 0 /\ \A i \in 1 .. Len(caller) : IsFrame(caller[i])
        BY <2>1 DEF FramesFit
      <3>2. SameCalls(caller, [caller EXCEPT ![Len(caller)].node.nodes = Append(@, Top.node)])
        BY <3>1, NodeKept
      <3>3. QED
        BY <1>1, <1>7, <3>2 DEF caller
    <2>4. F \ {v} \subseteq DOMAIN heap'
      BY <2>2 DEF Forest, IsTree
    <2>5. FramesFit(heap', frames') /\ Reading(frames') = F \ {v}
      BY <2>1, <2>2, <2>3, <2>4, CallsFit
    <2>6. QED
      BY <1>1, <1>7, <2>2, <2>5 DEF FormInv
  <1>8. QED
    BY <1>6, <1>7

LEMMA DeleteKept == FormInv /\ DeleteForm => FormInv'
  <1> SUFFICES ASSUME FormInv, DeleteForm
               PROVE  FormInv'
    OBVIOUS
  <1>1. phase \in {"read", "written"} /\ heap' = Delete(heap, {Root}) /\ phase' = "deleted"
    BY DEF DeleteForm
  <1>2. Forest(heap, Reading(frames)) /\ FramesFit(heap, frames) /\ Len(frames) = 1
    BY <1>1 DEF FormInv
  <1>3. Reading(frames) = {} \cup {Root}
    BY <1>2 DEF Reading, Root
  <1>4. Forest(heap', {})
    <2>1. Forest(heap, {} \cup {Root}) /\ {} \cap {Root} = {}
      BY <1>2, <1>3
    <2>2. Forest(Delete(heap, {Root}), {})
      BY <2>1, Rows, ForestFalls
    <2>3. QED
      BY <1>1, <2>2
  <1>5. DOMAIN heap' = {}
    BY <1>4, TreeEmpty DEF Forest
  <1>6. heap' = <<>>
    <2>1. heap' = [p \in DOMAIN heap' |-> heap'[p]]
      BY <1>4 DEF Forest, TypedHeap
    <2>2. QED
      BY <1>5, <2>1
  <1>7. QED
    BY <1>1, <1>6 DEF FormInv

LEMMA FormStep == FormInv /\ [Next]_vars => FormInv'
  <1> SUFFICES ASSUME FormInv, [Next]_vars
               PROVE  FormInv'
    OBVIOUS
  <1>1. CASE ReadNode
    BY <1>1, NodeRead
  <1>2. CASE EndRead
    BY <1>2, EndKept
  <1>3. CASE WriteForm
    BY <1>3 DEF WriteForm, FormInv
  <1>4. CASE DeleteForm
    BY <1>4, DeleteKept
  <1>5. CASE UNCHANGED vars
    BY <1>5 DEF vars, FormInv
  <1>6. QED
    BY <1>1, <1>2, <1>3, <1>4, <1>5 DEF Next

(* At every step of reading, writing and deleting a form its objects are   *)
(* that forest, and every call of read reads an object of its own          *)
(* (DomX::read, setElementX, clear and ~DomX).                             *)
THEOREM FormInvariant == Spec => []FormInv
  <1>1. Init => FormInv
    BY FormInit
  <1>2. FormInv /\ [Next]_vars => FormInv'
    BY FormStep
  <1>3. QED
    BY <1>1, <1>2, PTL DEF Spec

(* A forest has no object with two owners, and none without, but the roots. *)
LEMMA InvOwned == FormInv => OwnedOnce
  <1> SUFFICES ASSUME FormInv, phase # "deleted"
               PROVE  /\ \A r \in References(heap) : r[1] \in DOMAIN heap
                      /\ \A o \in DOMAIN heap :
                           Cardinality({r \in References(heap) : r[1] = o})
                             = IF \E i \in DOMAIN frames : frames[i].object = o THEN 0 ELSE 1
    BY DEF FormInv, OwnedOnce
  <1> DEFINE R == References(heap)
             F == Reading(frames)
  <1>1. IsTree(DOMAIN heap, R, F) /\ IsSeq(frames)
    BY DEF FormInv, Forest, FramesFit
  <1>2. \A r \in R : r[1] \in DOMAIN heap
    BY <1>1 DEF IsTree
  <1>3. ASSUME NEW o \in DOMAIN heap
        PROVE  Cardinality({r \in R : r[1] = o}) = IF \E i \in DOMAIN frames : frames[i].object = o THEN 0 ELSE 1
    <2>1. (\E i \in DOMAIN frames : frames[i].object = o) <=> o \in F
      <3>1. DOMAIN frames = 1 .. Len(frames)
        BY <1>1 DEF IsSeq
      <3>2. QED
        BY <3>1 DEF Reading
    <2> HIDE DEF R, F
    <2>2. CASE o \in F
      <3>1. {r \in R : r[1] = o} = {}
        BY <1>1, <2>2 DEF IsTree
      <3>2. QED
        BY <2>1, <2>2, <3>1, FS_EmptySet
    <2>3. CASE o \notin F
      <3>1. PICK q \in R : q[1] = o
        BY <1>1, <2>3 DEF IsTree
      <3>2. {r \in R : r[1] = o} = {q}
        BY <1>1, <3>1 DEF IsTree
      <3>3. Cardinality({q}) = 1
        BY FS_Singleton
      <3>4. QED
        BY <2>1, <2>3, <3>2, <3>3
    <2>4. QED
      BY <2>2, <2>3
  <1>4. QED
    BY <1>2, <1>3

(* No object is ever leaked or deleted twice: each one is held by exactly  *)
(* one field, or still being read, and none is left with the form deleted. *)
THEOREM OwnedExactlyOnce == Spec => []OwnedOnce
  BY FormInvariant, InvOwned, PTL

==============================================================================
