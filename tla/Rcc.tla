------------------------------- MODULE Rcc -------------------------------
(***************************************************************************)
(* drcc, the resource compiler: rcc.cpp builds a tree of directories and   *)
(* files from the .qrc files, then writes it as three tables: the contents *)
(* of the files, the names, and the tree itself, whose entries refer to    *)
(* the other two and to each other by offsets.  Each table is written by   *)
(* a walk of its own over hash tables, so the offsets are right only if    *)
(* the walks agree.                                                        *)
(***************************************************************************)
EXTENDS Integers, FiniteSets, SequencesExt

CONSTANTS Aliases,     \* paths of resources: non-empty sequences of names
          Files,       \* files named in the .qrc files
          Missing,     \* the ones that do not exist
          Sizes,       \* Sizes[f]: bytes of the file, after compression
          Widths,      \* Widths[n]: characters of a name
          Hash,        \* Hash[n]: qHash of a name; names may collide
          Languages,
          MaxSize,     \* 0xffffffff in the code
          MaxFiles     \* bound: files added

(* A path has at least the name of its file, and what is not in a file has *)
(* no size to be too big.                                                  *)
ASSUME RccAssumption ==
  /\ Aliases \subseteq Seq(DOMAIN Widths) \ {<<>>}
  /\ Sizes \in [Files -> Nat]
  /\ Widths \in [DOMAIN Widths -> Nat]
  /\ Hash \in [DOMAIN Widths -> Nat]
  /\ MaxSize \in Nat
  /\ MaxFiles \in Nat

VARIABLES nodes,       \* the RCCFileInfo objects; nodes[1] is m_root
          ignoreErrors,       \* drcc -list: read only
          broken,      \* files that cannot be opened any more when written
          m_failedResources,
          phase,       \* "reading", "blobs", "names", "structure", "done", "failed"
          qt_resource_data,   \* pairs of a position and the file written there
          qt_resource_name,   \* pairs of a position and the name written there
          qt_resource_struct, \* the entries, in order
          given        \* history: the resources addFile was given, each
                       \* the path, the language and the file

vars == <<nodes, ignoreErrors, broken, m_failedResources, phase,
          qt_resource_data, qt_resource_name, qt_resource_struct, given>>
tables == <<qt_resource_data, qt_resource_name, qt_resource_struct>>

NoName == ""
NoFile == "none"

RCCFileInfo(name, file, language, dir) ==
  [name |-> name, file |-> file, language |-> language, directory |-> dir, children |-> <<>>,
   nameOffset |-> 0, dataOffset |-> 0, childOffset |-> 0]

Init ==
  /\ nodes = <<RCCFileInfo(NoName, NoFile, "C", TRUE)>>
  /\ ignoreErrors \in BOOLEAN
  /\ broken = {}
  /\ m_failedResources = {}
  /\ phase = "reading"
  /\ qt_resource_data = <<>> /\ qt_resource_name = <<>> /\ qt_resource_struct = <<>>
  /\ given = {}

With(f, x, v) == [y \in DOMAIN f \cup {x} |-> IF y = x THEN v ELSE f[y]]

------------------------------------------------------------------------
(* Reading the .qrc files                                                  *)

(* m_children is a QHash: a new child can appear anywhere in its order.    *)
Insert(tree, parent, child, at) ==
  Append([tree EXCEPT ![parent].children = InsertAt(@, at, Len(tree) + 1)], child)

Positions(tree, parent) == 1 .. Len(tree[parent].children) + 1

(* m_children[node]: of several children with the name the latest.         *)
ChildrenNamed(tree, parent, name) == {c \in ToSet(tree[parent].children) : tree[c].name = name}
Child(tree, parent, name) ==
  CHOOSE c \in ChildrenNamed(tree, parent, name) :
    \A d \in ChildrenNamed(tree, parent, name) : d <= c

(* m_children is asked for the next directory of the path, which is made   *)
(* if there is none: the trees and the directory reached, for every order  *)
(* the hash tables may have.                                               *)
Entered(tree, dir, name) ==
  IF ChildrenNamed(tree, dir, name) # {}
  THEN {<<tree, Child(tree, dir, name)>>}
  ELSE {<<Insert(tree, dir, RCCFileInfo(name, NoFile, "C", TRUE), at), Len(tree) + 1>>
          : at \in Positions(tree, dir)}

(* addFile: the directories of the path are entered one after the other,   *)
(* and the file is put into the last.                                      *)
DirectoriesOf(tree, alias) ==
  LET entered[k \in 0 .. Len(alias) - 1] ==
        IF k = 0 THEN {<<tree, 1>>}
        ELSE UNION {Entered(e[1], e[2], alias[k]) : e \in entered[k - 1]}
  IN  entered[Len(alias) - 1]

Added(tree, alias, file) ==
  UNION {{Insert(e[1], e[2], file, at) : at \in Positions(e[1], e[2])} : e \in DirectoriesOf(tree, alias)}

FileNodes == {i \in DOMAIN nodes : ~nodes[i].directory}

addFile(alias, f, language) ==
  /\ phase = "reading"
  /\ f \notin Missing
  /\ Cardinality(FileNodes) < MaxFiles
  /\ IF Sizes[f] > MaxSize
     THEN m_failedResources' = m_failedResources \cup {f} /\ UNCHANGED <<nodes, given>>
     ELSE /\ nodes' \in Added(nodes, alias, RCCFileInfo(Last(alias), f, language, FALSE))
          /\ given' = given \cup {<<alias, language, f>>}
          /\ UNCHANGED m_failedResources
  /\ UNCHANGED <<ignoreErrors, broken, phase, tables>>

(* interpretResourceFile: a file that does not exist ends the run, unless  *)
(* drcc only lists the files.                                              *)
FileNotFound(f) ==
  /\ phase = "reading"
  /\ f \in Missing
  /\ m_failedResources' = m_failedResources \cup {f}
  /\ phase' = IF ignoreErrors THEN phase ELSE "failed"
  /\ UNCHANGED <<nodes, given, ignoreErrors, broken, tables>>

------------------------------------------------------------------------
(* Writing                                                                 *)

(* The loops of writeDataBlobs, writeDataNames and writeDataStructure: a   *)
(* stack of directories still to do, the children left of the one in hand, *)
(* and the children met so far.  first is where the entries of a directory *)
(* begin if there is one for each child, after the one of m_root.          *)
Starting == [first |-> <<>>, met |-> <<>>, left |-> <<>>, pending |-> <<1>>]

MeetChild(w) ==
  LET child == Head(w.left)
  IN  [w EXCEPT !.left = Tail(@), !.met = Append(@, child),
                !.pending = IF nodes[child].directory THEN Append(@, child) ELSE @]

PopDirectory(w, order) ==
  LET dir == Last(w.pending)
  IN  [w EXCEPT !.pending = Front(@), !.left = order[dir], !.first = With(@, dir, 1 + Len(w.met))]

WalkStep(w, order) ==
  IF w.left # <<>> THEN MeetChild(w)
  ELSE IF w.pending # <<>> THEN PopDirectory(w, order)
  ELSE w

(* The walk after all its rounds, one for every directory and every child. *)
Walk(order) ==
  LET walk[k \in Nat] == IF k = 0 THEN Starting ELSE WalkStep(walk[k - 1], order)
  IN  walk[2 * Len(nodes)]

HashOrder == [i \in DOMAIN nodes |-> nodes[i].children]

(* qSort with qt_rcc_compare_hash: by hash only, ties as they come.        *)
Rank(children, i) ==
  Cardinality({j \in DOMAIN children :
    \/ Hash[nodes[children[j]].name] < Hash[nodes[children[i]].name]
    \/ Hash[nodes[children[j]].name] = Hash[nodes[children[i]].name] /\ j <= i})

Sorted(children) ==
  [r \in DOMAIN children |-> children[CHOOSE i \in DOMAIN children : Rank(children, i) = r]]

ByHash == [i \in DOMAIN nodes |-> Sorted(nodes[i].children)]

End(table, width) == IF table = <<>> THEN 0 ELSE Last(table)[1] + width[Last(table)[2]]

(* writeDataBlob: the offset is noted before the file is opened, and is 0  *)
(* again for the next file when that fails.                                *)
BlobWidth == [f \in Files |-> 4 + Sizes[f]]
writeDataBlob(s, i) ==
  LET f == nodes[i].file
      noted == [s EXCEPT !.nodes[i].dataOffset = s.offset]
  IN  IF nodes[i].directory THEN s
      ELSE IF f \in broken THEN [noted EXCEPT !.offset = 0]
      ELSE [noted EXCEPT !.offset = @ + BlobWidth[f],
                         !.table = Append(@, <<End(@, BlobWidth), f>>)]

Blobs ==
  LET met == Walk(HashOrder).met
      blobs[k \in 0 .. Len(met)] ==
        IF k = 0 THEN [nodes |-> nodes, offset |-> 0, table |-> <<>>]
        ELSE writeDataBlob(blobs[k - 1], met[k])
  IN  blobs[Len(met)]

writeDataBlobs ==
  /\ phase = "blobs"
  /\ nodes' = Blobs.nodes
  /\ qt_resource_data' = Blobs.table
  /\ phase' = "names"
  /\ UNCHANGED <<given, ignoreErrors, broken, m_failedResources, qt_resource_name, qt_resource_struct>>

(* A name that was written before is not written again.                    *)
NameWidth == [n \in DOMAIN Widths |-> 6 + 2 * Widths[n]]
writeDataName(s, i) ==
  LET n == nodes[i].name
      known == {k \in DOMAIN s.table : s.table[k][2] = n}
  IN  IF known # {} THEN [s EXCEPT !.nodes[i].nameOffset = s.table[CHOOSE k \in known : TRUE][1]]
      ELSE [s EXCEPT !.nodes[i].nameOffset = End(s.table, NameWidth),
                     !.table = Append(@, <<End(@, NameWidth), n>>)]

Names ==
  LET met == Walk(HashOrder).met
      names[k \in 0 .. Len(met)] ==
        IF k = 0 THEN [nodes |-> nodes, table |-> <<>>]
        ELSE writeDataName(names[k - 1], met[k])
  IN  names[Len(met)]

writeDataNames ==
  /\ phase = "names"
  /\ nodes' = Names.nodes
  /\ qt_resource_name' = Names.table
  /\ phase' = "structure"
  /\ UNCHANGED <<given, ignoreErrors, broken, m_failedResources, qt_resource_data, qt_resource_struct>>

(* First walk: the offsets of the children.                                *)
ChildOffsets_InHashOrder ==
  LET first == Walk(HashOrder).first
  IN  [i \in DOMAIN nodes |->
         IF i \in DOMAIN first THEN [nodes[i] EXCEPT !.childOffset = first[i]] ELSE nodes[i]]

ChildOffsets ==
  LET first == Walk(ByHash).first
  IN  [i \in DOMAIN nodes |->
         IF i \in DOMAIN first THEN [nodes[i] EXCEPT !.childOffset = first[i]] ELSE nodes[i]]

(* writeDataInfo: four bytes for each offset, which is enough for tables   *)
(* below 4 GiB; larger ones are left out.                                  *)
DataInfo(n) ==
  IF n.directory
  THEN [directory |-> TRUE, name |-> n.nameOffset, count |-> Len(n.children), first |-> n.childOffset]
  ELSE [directory |-> FALSE, name |-> n.nameOffset, language |-> n.language, data |-> n.dataOffset]

(* Second walk.                                                            *)
writeDataStructure ==
  /\ phase = "structure"
  /\ nodes' = ChildOffsets
  /\ LET order == <<1>> \o Walk(ByHash).met
     IN  qt_resource_struct' = [k \in DOMAIN order |-> DataInfo(nodes'[order[k]])]
  /\ phase' = "done"
  /\ UNCHANGED <<given, ignoreErrors, broken, m_failedResources, qt_resource_data, qt_resource_name>>

(* output: no table is written for an empty library.  Since they were      *)
(* found some files may have become unreadable; what a <file> naming a     *)
(* directory adds for its subdirectories is so from the start.             *)
output ==
  /\ phase = "reading"
  /\ ~ignoreErrors
  /\ FileNodes # {}
  /\ broken' \in SUBSET {nodes[i].file : i \in FileNodes}
  /\ phase' = "blobs"
  /\ UNCHANGED <<nodes, given, ignoreErrors, m_failedResources, tables>>

Next ==
  \/ \E alias \in Aliases, f \in Files, language \in Languages : addFile(alias, f, language)
  \/ \E f \in Files : FileNotFound(f)
  \/ output
  \/ writeDataBlobs
  \/ writeDataNames
  \/ writeDataStructure

Spec == Init /\ [][Next]_vars

------------------------------------------------------------------------
(* Properties                                                              *)

(* How Qt reads the tables: entry k and, for a directory, the entries from *)
(* its first child on; names and contents at the offsets given.            *)
At(table, offset) == {table[k][2] : k \in {k \in DOMAIN table : table[k][1] = offset}}
NamesOf(k) == At(qt_resource_name, qt_resource_struct[k].name)

EntriesIn(k) ==
  LET e == qt_resource_struct[k]
  IN  IF e.directory THEN {c + 1 : c \in e.first .. e.first + e.count - 1} ELSE {}

(* The entries found at each depth, with their paths.                      *)
Levels ==
  LET level[d \in Nat] ==
        IF d = 0 THEN {<<1, <<>>>>}
        ELSE UNION {UNION {{<<c, Append(e[2], n)>> : n \in NamesOf(c)} : c \in EntriesIn(e[1])}
                      : e \in level[d - 1]}
  IN  level

Opened == {e \in UNION {Levels[d] : d \in 0 .. Len(qt_resource_struct)} :
             ~qt_resource_struct[e[1]].directory}

Decoded ==
  UNION {{<<e[2], qt_resource_struct[e[1]].language, f>> : f \in At(qt_resource_data, qt_resource_struct[e[1]].data)}
           : e \in Opened}

(* No alias goes through another one.                                      *)
NoFileIsADirectory == \A i \in FileNodes : nodes[i].children = <<>>

(* Qt finds a child by binary search on the hash of its name, so every     *)
(* directory's entries are sorted by it whatever order the hash tables gave*)
(* (qt_rcc_compare_hash).                                                  *)
SortedForLookup ==
  \A k \in DOMAIN qt_resource_struct :
    LET e == qt_resource_struct[k] IN
    e.directory =>
      \A c \in e.first .. e.first + e.count - 2 :
        \A m \in NamesOf(c + 1), n \in NamesOf(c + 2) : Hash[m] <= Hash[n]

(* Every resource that was given can be found again under its path and     *)
(* language, with the contents of its file, and nothing else is there: the *)
(* offsets, taken by four walks in two orders, fit (writeDataBlobs,        *)
(* writeDataNames, writeDataStructure).  A file that cannot be opened      *)
(* spoils the offsets of the ones after it.                                *)
ResourcesFoundAgain ==
  phase = "done" => /\ SortedForLookup
                    /\ NoFileIsADirectory /\ broken = {} => Decoded = given

========================================================================
