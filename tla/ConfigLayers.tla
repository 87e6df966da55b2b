---------------------------- MODULE ConfigLayers ----------------------------
(* resolve_customization.py and resolve_config.py in _bmad/scripts: layers  *)
(* of TOML, the first required, each later one over the ones before it.     *)
(* Tables merge key by key, arrays whose items all carry a code (or all an  *)
(* id) merge by it, other arrays are appended, anything else is replaced.   *)
EXTENDS Naturals, Sequences

CONSTANTS
    Codes, TomlIds,   \* values of code and id
    MaxItems,         \* bound: items of an array
    Layers            \* three for a skill, four for the central configuration

Unset == ""   \* what stands for the code or id of an item without one

ASSUME LayersAssumption == MaxItems \in Nat /\ Layers \in Nat \ {0} /\ Unset \in Codes \cap TomlIds

\* An item of an array: a table with its code and id, and the layer it is from;
\* or a plain value, which is no table.
Item(layer) == [plain : {FALSE}, code : Codes, id : TomlIds, from : {layer}] \cup
               [plain : {TRUE}, code : {Unset}, id : {Unset}, from : {layer}]

\* A value: a scalar, an array or a table.
Scalar(layer) == [is |-> "scalar", items |-> <<>>, keys |-> <<>>, from |-> layer]
Array(s) == [is |-> "array", items |-> s, keys |-> <<>>, from |-> 0]
TomlTable(f) == [is |-> "table", items |-> <<>>, keys |-> f, from |-> 0]
Menu(v) == TomlTable([agent |-> TomlTable([menu |-> v])])   \* agent.menu
Empty == TomlTable(<<>>)

VARIABLE stack   \* [pc, read: the layers read so far, out: their merge]

layerVars == <<stack>>

-----------------------------------------------------------------------------
All(s, P(_)) == \A i \in DOMAIN s : P(s[i])

\* Fault: some items with the field are enough.
DetectKeyedMergeField_Any(s) ==
    IF s = <<>> \/ ~All(s, LAMBDA x : ~x.plain) THEN "none"
    ELSE IF \E i \in DOMAIN s : s[i].code # Unset THEN "code"
    ELSE IF \E i \in DOMAIN s : s[i].id # Unset THEN "id" ELSE "none"

\* _detect_keyed_merge_field
DetectKeyedMergeField(s) ==
    IF s = <<>> \/ ~All(s, LAMBDA x : ~x.plain) THEN "none"
    ELSE IF All(s, LAMBDA x : x.code # Unset) THEN "code"
    ELSE IF All(s, LAMBDA x : x.id # Unset) THEN "id" ELSE "none"

\* _merge_by_key: an item replaces the last one with its key, in its place; one
\* with a new key is appended.  All items of over, or its first n.
Put(s, x, f) ==
    LET same == {i \in DOMAIN s : s[i][f] = x[f]}
    IN  IF same = {} THEN Append(s, x)
        ELSE [s EXCEPT ![CHOOSE i \in same : \A j \in same : j <= i] = x]
PutFirst(base, over, f, n) ==
    LET merged[i \in 0 .. Len(over)] == IF i = 0 THEN base ELSE Put(merged[i - 1], over[i], f)
    IN  merged[n]
MergeByKey(base, over, f) == PutFirst(base, over, f, Len(over))

\* _merge_arrays
MergeArrays(base, over) ==
    LET f == DetectKeyedMergeField(base \o over)
    IN  IF f = "none" THEN base \o over ELSE MergeByKey(base, over, f)

\* One level of deep_merge, which calls itself on the values of two tables.
MergeLevel(a, b, Itself(_, _)) ==
    CASE a.is = "table" /\ b.is = "table" ->
           TomlTable([k \in (DOMAIN a.keys) \cup (DOMAIN b.keys) |->
                        CASE k \notin DOMAIN b.keys -> a.keys[k]
                          [] k \notin DOMAIN a.keys -> b.keys[k]
                          [] OTHER -> Itself(a.keys[k], b.keys[k])])
      [] a.is = "array" /\ b.is = "array" -> Array(MergeArrays(a.items, b.items))
      [] OTHER -> b

\* deep_merge; the layers below hold tables of tables of arrays and scalars.
MergeValues(a, b) ==
    IF a.is = "array" /\ b.is = "array" THEN Array(MergeArrays(a.items, b.items)) ELSE b
MergeAgents(a, b) == MergeLevel(a, b, MergeValues)
DeepMerge(a, b)   == MergeLevel(a, b, MergeAgents)

\* extract_key, for agent.menu: <<>> if some part of it is missing.
ExtractMenu(t) ==
    IF "agent" \notin DOMAIN t.keys \/ t.keys["agent"].is # "table" THEN <<>>
    ELSE IF "menu" \notin DOMAIN t.keys["agent"].keys THEN <<>>
    ELSE <<t.keys["agent"].keys["menu"]>>

-----------------------------------------------------------------------------
Lists(n) == UNION {[1 .. k -> Item(n)] : k \in 0 .. MaxItems}
LayerContents(n) == {Empty} \cup {Menu(Scalar(n))} \cup {Menu(Array(s)) : s \in Lists(n)}

\* load_toml of the required first layer: without it main exits.
LoadRequired ==
    /\ stack.pc = "start"
    /\ \/ stack' = [stack EXCEPT !.pc = "exit 1"]
       \/ \E c \in LayerContents(1) : stack' = [pc |-> "load", read |-> <<c>>, out |-> c]

\* load_toml of a later layer: a missing or broken file counts as empty,
\* and for a skill without a project none is looked for.
LoadLayer ==
    /\ stack.pc = "load" /\ Len(stack.read) < Layers
    /\ \E c \in LayerContents(Len(stack.read) + 1) :
         stack' = [stack EXCEPT !.read = Append(@, c), !.out = DeepMerge(@, c)]

LayersInit == stack = [pc |-> "start", read |-> <<>>, out |-> Empty]
LayersNext == LoadRequired \/ LoadLayer
LayersSpec == LayersInit /\ [][LayersNext]_layerVars

-----------------------------------------------------------------------------
ItemsIn(t) == LET m == ExtractMenu(t)
              IN  IF m # <<>> /\ m[1].is = "array" THEN m[1].items ELSE <<>>
Arrays(i) == ItemsIn(stack.read[i])
Scalars == {i \in DOMAIN stack.read : ExtractMenu(stack.read[i]) = <<Scalar(i)>>}
Above == {i \in DOMAIN stack.read : \A j \in Scalars : j < i}   \* since the last scalar
Merged == ItemsIn(stack.out)

(* "No removal mechanism": a layer leaves every item of the layers below in *)
(* its place, or replaces it by one of its own with the same code or id,    *)
(* unless it replaces the whole array by something else, and whatever it    *)
(* brings itself is in the result, by its own code or id.                   *)
NothingRemoved ==
    stack'.read # <<>> =>
         LET n == Len(stack'.read)
             mine == ItemsIn(stack'.read[n])
             same(x, y) == \/ x.code # Unset /\ x.code = y.code
                           \/ x.id # Unset /\ x.id = y.id
         IN  /\ n \notin Scalars' => \A m \in DOMAIN Merged :
                  m \in DOMAIN Merged' /\ \/ Merged'[m] = Merged[m]
                                          \/ Merged'[m].from = n /\ same(Merged'[m], Merged[m])
             /\ \A k \in DOMAIN mine : \E m \in DOMAIN Merged' :
                  Merged'[m] = mine[k] \/ (Merged'[m].from = n /\ same(Merged'[m], mine[k]))

(* If every item has a code and no layer says one twice, every code is in   *)
(* the result once, as the highest layer that has it says, and items keep   *)
(* the order in which the layers brought them.                              *)
HighestLayerWins ==
    /\ stack.read # <<>>
    /\ \A i \in DOMAIN stack.read : \A k, l \in DOMAIN Arrays(i) :
         Arrays(i)[k].code # Unset /\ (Arrays(i)[k].code = Arrays(i)[l].code => k = l)
    => /\ \A m, n \in DOMAIN Merged : Merged[m].code = Merged[n].code => m = n
       /\ \A i \in Above : \A k \in DOMAIN Arrays(i) :
            \E m \in DOMAIN Merged : /\ Merged[m].code = Arrays(i)[k].code
                                     /\ Merged[m].from >= i
       /\ \A i \in Above : \A k, l \in DOMAIN Arrays(i) :
            k < l /\ (\A j \in Above : j < i => Arrays(j) = <<>>) =>
               \E m, n \in DOMAIN Merged : /\ m < n /\ Merged[m].code = Arrays(i)[k].code
                                           /\ Merged[n].code = Arrays(i)[l].code

(* Merging layers loses nothing and the highest layer decides.              *)
LayersMerge == [][HighestLayerWins' /\ NothingRemoved]_layerVars
=============================================================================
